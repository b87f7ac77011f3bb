----------------------------- MODULE DirSlices -----------------------------
(***************************************************************************)
(* A message on its way: DoSendPacket cuts it into slices and repeats each *)
(* until it is acknowledged, the listener of the same program hands the    *)
(* acknowledgement to it, and RevcDirectPack puts slices together and      *)
(* acknowledges them.  SAM and SMP are not in the repository: what this    *)
(* side does with their messages is taken for what they do with its.       *)
(*                                                                         *)
(* The messages of one sender binding are sent one after the other.  All   *)
(* slices have the length 1; a message is its number, its session_id.      *)
(***************************************************************************)
EXTENDS Integers, Sequences, FiniteSets

CONSTANTS
  Slices,      \* the number of slices of each message, a sequence
  RetryCount,  \* tagDirectCom_ProtocalParam::retry_count
  Faults,      \* what goes wrong outside: subset of Kinds
  MaxFaults,   \* bound: how often
  Repairs      \* the defects below taken to be repaired; {} is the code as it is

(***************************************************************************)
(*  "Length"      packet_len is what remains after the slice, and Send is  *)
(*                given the length of the data without the head: the peer  *)
(*                finds neither right                                      *)
(*  "Authenticator"  CreateDirPktHead and SendResponse write the MD5 sum   *)
(*                into a copy of the head that is not sent; both receivers *)
(*                compare it                                               *)
(*  "RecvPort"    the receiver compares its binding's source port with the *)
(*                packet's destination port                                *)
(*  "ResponseCode"  SendResponse does not copy response_code into the head *)
(*                it sends                                                 *)
(*  "ResSender"   dir_respara.sender_bind is never set, so that no answer  *)
(*                has the address it asks for                              *)
(*  "Stamp"       SendResponse swaps half of the 64-bit timestamp          *)
(*  "Copy"        the session is worked on in a copy that is not kept      *)
(*  "Redeliver"   the repeated slice of a single-slice message is          *)
(*                delivered again                                          *)
(*  "RepeatedEnd" the last slice, repeated, is found to have a wrong       *)
(*                length and not acknowledged                              *)
(*  "Event"       the listener looks for the acknowledged try and sets its *)
(*                event in two steps; repaired, it has a lock meanwhile    *)
(*                that the end of the try waits for                        *)
(*  "TimedWait"   the timed loop of WaitForSingleObject, as in LnxThread   *)
(*  "TryLock"     its try-lock, too: the wait fails while the listener is  *)
(*                in SetEvent, and the message with it                     *)
(***************************************************************************)
Defects == {"Length", "Authenticator", "RecvPort", "ResponseCode", "ResSender", "Stamp",
            "Copy", "Redeliver", "RepeatedEnd", "Event", "TimedWait", "TryLock"}

\* A packet is lost; comes a second time, after all others; or takes longer than the
\* time-out.  Or the sender is not ready: it has no protocol parameters for the peer, or
\* the gateway's MAC came with the last look.
Kinds == {"lose", "repeat", "hurry", "unready"}

ASSUME ConstantsAssumption ==
  /\ Slices \in Seq(Nat \ {0})
  /\ RetryCount \in Nat \ {0}
  /\ Faults \subseteq Kinds /\ MaxFaults \in Nat
  /\ Repairs \subseteq Defects

Messages == DOMAIN Slices

VARIABLES
  msg,        \* the message being sent, or the next one
  pc,         \* "idle", "send", "wait", or "forced": the wait failed
  slice,      \* the slice to send, or being waited for: remain_len
  sentTimes,  \* sent_times
  id,         \* on_receive_packet_post_mtype of DoSendPacket's copy of the binding
  bindId,     \* and of the binding itself
  listen,     \* listen_res
  awaited,    \* dir_para: the id and session of the try the listener looks for
  signal,     \* its event
  matched,    \* the listener is between ResponseSender and SetEvent
  misused,    \* it has set an event that was deleted
  result,     \* of each message
  requests, responses,  \* the packets under way
  sessions,   \* the receiver's recv_session_bounds, by session
  delivered,  \* the messages posted to the receiver's owner, with their data
  faults      \* how often the network has done what

sendVars == <<msg, pc, slice, sentTimes, id, bindId, listen, awaited, result>>
listenVars == <<signal, matched, misused>>
recvVars == <<sessions, delivered>>
vars == <<sendVars, listenVars, recvVars, requests, responses, faults>>

Repaired(x) == x \in Repairs
NoTry == [id |-> 0, session |-> 0]

-----------------------------------------------------------------------------
(* The sender: DoSendPacket *)

\* slicetype, which a repeated try keeps.
SliceType(m, k) ==
  IF Slices[m] = 1 THEN "SINGLE"
  ELSE IF k = 1 THEN "MULTI_BEGIN"
  ELSE IF k = Slices[m] THEN "MULTI_END" ELSE "MULTI_MIDDLE"

Request == [session |-> msg, id |-> id, type |-> SliceType(msg, slice), data |-> slice,
            data_len |-> Slices[msg]]

\* Mutant: a message that failed holds up the next one.
BeginMessageAfterSuccess ==
  /\ pc = "idle" /\ msg \in Messages /\ (msg > 1 => result[msg - 1] = "ok")
  /\ pc' = "send" /\ slice' = 1 /\ sentTimes' = 0 /\ id' = bindId
  /\ UNCHANGED <<msg, bindId, listen, awaited, result, listenVars, recvVars, requests,
                 responses, faults>>

BeginMessage ==
  /\ pc = "idle" /\ msg \in Messages
  /\ pc' = "send" /\ slice' = 1 /\ sentTimes' = 0 /\ id' = bindId
  /\ UNCHANGED <<msg, bindId, listen, awaited, result, listenVars, recvVars, requests,
                 responses, faults>>

Used(kind) == faults[kind]
FaultsUsed == Used("lose") + Used("repeat") + Used("hurry") + Used("unready")
Fault(kind) ==
  /\ kind \in Faults /\ FaultsUsed < MaxFaults
  /\ faults' = [faults EXCEPT ![kind] = @ + 1]

\* DoSendPacket returns before the first slice.
NotReady ==
  /\ pc = "idle" /\ msg \in Messages
  /\ Fault("unready")
  /\ result' = [result EXCEPT ![msg] = "failed"] /\ msg' = msg + 1
  /\ UNCHANGED <<pc, slice, sentTimes, id, bindId, listen, awaited, listenVars, recvVars,
                 requests, responses>>

\* A new event, SetResSender, SetIfListenRes(true), Send.
SendSlice ==
  /\ pc = "send"
  /\ pc' = "wait"
  /\ requests' = Append(requests, Request)
  /\ awaited' = [id |-> id, session |-> msg] /\ listen' = TRUE /\ signal' = FALSE
  /\ UNCHANGED <<msg, slice, sentTimes, id, bindId, result, matched, misused, recvVars,
                 responses, faults>>

\* Mutant: the listener's lock is not waited for.
EndTryAnyTime == listen' = FALSE /\ signal' = FALSE /\ UNCHANGED <<awaited, matched, misused>>

\* SetIfListenRes(false), and the event is deleted.
EndTry ==
  /\ Repaired("Event") => ~matched
  /\ listen' = FALSE /\ signal' = FALSE
  /\ UNCHANGED <<awaited, matched, misused>>

\* OnTransPacket notes the result, and the binding's counter after a success.
EndMessage(r) ==
  /\ result' = [result EXCEPT ![msg] = r]
  /\ pc' = "idle" /\ msg' = msg + 1
  /\ bindId' = IF r = "ok" THEN id' ELSE bindId

\* The wait ends with the event, or as it is for no reason.
SliceAcknowledged ==
  /\ pc = "wait"
  /\ signal \/ ~Repaired("TimedWait")
  /\ EndTry
  /\ sentTimes' = 0 /\ id' = id + 1 /\ slice' = slice + 1
  /\ IF slice = Slices[msg]
     THEN EndMessage("ok")
     ELSE pc' = "send" /\ UNCHANGED <<msg, bindId, result>>
  /\ UNCHANGED <<recvVars, requests, responses, faults>>

\* A packet or an acknowledgement of the try is on its way, or has just come.
UnderWay ==
  \/ \E i \in DOMAIN requests : requests[i].id = id /\ requests[i].session = msg
  \/ \E i \in DOMAIN responses : responses[i].id = id /\ responses[i].session = msg
  \/ signal \/ matched

\* Mutant: the try that a time-out ends is counted before the first one, too.
GivesUpEarly == sentTimes + 2 >= RetryCount

\* Mutant: one try too many.
GivesUpLate == sentTimes = RetryCount

GivesUp == sentTimes + 1 = RetryCount

\* The try is repeated with the same id, RetryCount times in all.
TimeOut ==
  /\ pc = "wait" /\ Repaired("TimedWait")
  /\ IF UnderWay THEN Fault("hurry") ELSE UNCHANGED faults
  /\ EndTry
  /\ sentTimes' = sentTimes + 1
  /\ IF GivesUp THEN EndMessage("failed")
     ELSE pc' = "send" /\ UNCHANGED <<msg, bindId, result>>
  /\ UNCHANGED <<slice, id, recvVars, requests, responses>>

\* What it may also return, neither 0 nor ETIMEDOUT: the listener holds the event's mutex,
\* or has set it between the first look at it and the timed loop.
Disturbed ==
  \/ matched /\ ~signal /\ ~Repaired("TryLock")
  \/ signal /\ ~Repaired("TimedWait")

WaitFails ==
  /\ pc = "wait" /\ Disturbed
  /\ pc' = "forced"
  /\ UNCHANGED <<msg, slice, sentTimes, id, bindId, listen, awaited, result, listenVars,
                 recvVars, requests, responses, faults>>

\* The message is given up at once.
ForcedStop ==
  /\ pc = "forced"
  /\ EndTry /\ EndMessage("failed")
  /\ UNCHANGED <<slice, sentTimes, id, recvVars, requests, responses, faults>>

-----------------------------------------------------------------------------
(* The listener: HandlePrivateData, ResponseSender *)

\* As it is, a response has the wrong address, code, timestamp and MD5 sum.
ResponseFits == {"ResSender", "ResponseCode", "Stamp", "Authenticator"} \subseteq Repairs

\* Mutant: the session is not compared.
IsAwaitedById(r) == listen /\ ResponseFits /\ r.id = awaited.id

IsAwaited(r) ==
  listen /\ ResponseFits /\ r.id = awaited.id /\ r.session = awaited.session

\* A response that is not awaited is no request either and is dropped.
RecvResponse ==
  /\ responses # <<>> /\ ~matched
  /\ responses' = Tail(responses)
  /\ matched' = IsAwaited(Head(responses))
  /\ UNCHANGED <<sendVars, signal, misused, recvVars, requests, faults>>

\* SetEvent on dir_para.event_ret, whichever try it belongs to by now.
SetEvent ==
  /\ matched /\ matched' = FALSE
  /\ signal' = listen /\ misused' = (misused \/ ~listen)
  /\ UNCHANGED <<sendVars, recvVars, requests, responses, faults>>

-----------------------------------------------------------------------------
(* The receiver: RevcDirectPack *)

\* A session: the slices it has, whether it has memory for them, the last slice's id,
\* whether the message has been delivered.
NewSession == [data |-> <<>>, open |-> FALSE, cur |-> 0, done |-> FALSE]
Session(p) == IF p.session \in DOMAIN sessions THEN sessions[p.session] ELSE NewSession

IsFirst(p) == p.id = 1 \/ p.type \in {"MULTI_BEGIN", "SINGLE"}

\* Neither the current slice nor the next, or a last slice that does not complete.
IsRefused(s, p) ==
  \/ p.id < s.cur \/ s.cur < p.id - 1
  \/ /\ p.type = "MULTI_END" /\ Len(s.data) + 1 # p.data_len
     /\ ~(Repaired("RepeatedEnd") /\ p.id = s.cur)

\* Mutant: the slice that is already there is appended once more.
TakenTwice(s, p) ==
  IF IsFirst(p) THEN [s EXCEPT !.data = <<p.data>>, !.open = TRUE, !.cur = p.id]
  ELSE IF s.open /\ Len(s.data) < p.data_len
  THEN [s EXCEPT !.data = Append(@, p.data), !.cur = p.id]
  ELSE s

\* The first slice begins anew, the next one is appended.
Taken(s, p) ==
  IF IsFirst(p)
  THEN IF s.done /\ Repaired("Redeliver") THEN s
       ELSE [s EXCEPT !.data = <<p.data>>, !.open = TRUE, !.cur = p.id]
  ELSE IF s.cur = p.id - 1 /\ s.open /\ Len(s.data) < p.data_len
  THEN [s EXCEPT !.data = Append(@, p.data), !.cur = p.id]
  ELSE s

IsComplete(s, p) == Len(s.data) = p.data_len

WhenDelivered(s) == [s EXCEPT !.data = <<>>, !.open = FALSE, !.done = TRUE]

Keep(p, s) ==
  sessions' = IF Repaired("Copy")
              THEN [m \in DOMAIN sessions \cup {p.session} |->
                      IF m = p.session THEN s ELSE sessions[m]]
              ELSE sessions

\* As it is, a request has the wrong length and MD5 sum, and its binding is found only if
\* both ends use the same port.
RequestFits == {"Length", "Authenticator", "RecvPort"} \subseteq Repairs

RecvRequest ==
  /\ requests # <<>>
  /\ requests' = Tail(requests)
  /\ LET p == Head(requests)
         s == Session(p)
         t == Taken(s, p) IN
       IF \/ ~RequestFits
          \/ p.id = 1 /\ p.type \in {"MULTI_MIDDLE", "MULTI_END"}
          \/ ~IsFirst(p) /\ IsRefused(s, p)
       THEN UNCHANGED <<recvVars, responses>>
       ELSE /\ IF IsComplete(t, p)
               THEN /\ delivered' = Append(delivered, [session |-> p.session, data |-> t.data])
                    /\ Keep(p, WhenDelivered(t))
               ELSE UNCHANGED delivered /\ Keep(p, t)
            /\ responses' = Append(responses, [session |-> p.session, id |-> p.id])
  /\ UNCHANGED <<sendVars, listenVars, faults>>

\* OnTimer, TIMER_CLEAR_DIR_SENDER, forgets a session timeout * retry_count after its
\* delivery.  The guard is what that time is taken to ensure, not a test of the code: the
\* tries of the message are over, and no packet of them is still under way.
ClearSessions ==
  \E m \in DOMAIN sessions :
    /\ sessions[m].done /\ (msg # m \/ pc = "idle")
    /\ \A i \in DOMAIN requests : requests[i].session # m
    /\ sessions' = [n \in DOMAIN sessions \ {m} |-> sessions[n]]
    /\ UNCHANGED <<sendVars, listenVars, delivered, requests, responses, faults>>

-----------------------------------------------------------------------------
(* The network *)

\* The next request or response is lost, or is there a second time, after the others.
Disturb(kind, queue) ==
  /\ queue # <<>> /\ Fault(kind)
  /\ queue' = IF kind = "lose" THEN Tail(queue) ELSE Append(queue, Head(queue))

NetworkFault ==
  \E kind \in {"lose", "repeat"} :
    /\ \/ Disturb(kind, requests) /\ UNCHANGED responses
       \/ Disturb(kind, responses) /\ UNCHANGED requests
    /\ UNCHANGED <<sendVars, listenVars, recvVars>>

-----------------------------------------------------------------------------
Init ==
  /\ msg = 1 /\ pc = "idle" /\ slice = 1 /\ sentTimes = 0 /\ id = 1 /\ bindId = 1
  /\ listen = FALSE /\ awaited = NoTry
  /\ signal = FALSE /\ matched = FALSE /\ misused = FALSE
  /\ result = [m \in Messages |-> "none"]
  /\ requests = <<>> /\ responses = <<>>
  /\ sessions = <<>> /\ delivered = <<>>
  /\ faults = [k \in Kinds |-> 0]

Sender ==
  BeginMessage \/ SendSlice \/ SliceAcknowledged \/ TimeOut \/ WaitFails \/ ForcedStop
Receiver == RecvResponse \/ SetEvent \/ RecvRequest

Next == Sender \/ Receiver \/ NotReady \/ ClearSessions \/ NetworkFault

\* The threads go on and the wait ends; what is under way arrives unless it is lost.
Spec == Init /\ [][Next]_vars /\ WF_vars(Sender) /\ WF_vars(Receiver)

-----------------------------------------------------------------------------
(* Properties *)

TypeOK ==
  /\ msg \in Messages \cup {Len(Slices) + 1}
  /\ pc \in {"idle", "send", "wait", "forced"} /\ slice \in Nat /\ sentTimes \in 0..RetryCount
  /\ id \in Nat \ {0} /\ bindId \in Nat \ {0}
  /\ listen \in BOOLEAN /\ (listen <=> pc \in {"wait", "forced"}) /\ (signal => listen)
  /\ matched \in BOOLEAN /\ misused \in BOOLEAN
  /\ result \in [Messages -> {"none", "ok", "failed"}]
  /\ DOMAIN sessions \subseteq Messages
  /\ faults \in [Kinds -> 0..MaxFaults]

\* What the receiver's owner is given is the message, all its slices in their order,
\* whatever was lost, repeated or late.
DeliveredWhole ==
  \A i \in DOMAIN delivered :
    delivered[i].data = [k \in 1..Slices[delivered[i].session] |-> k]

\* A message whose packets are lost or late less often than retry_count is not given up
\* (apart from one the sender was not ready for, and from repeated packets: an old first
\* slice makes the receiver begin anew).  No other thread makes it fail.
RetriesSuffice ==
  /\ Used("lose") + Used("hurry") < RetryCount
  /\ Used("repeat") = 0 /\ Used("unready") = 0
  =>
    \A m \in Messages : result[m] # "failed"

\* The listener never sets the event of a try that is over.
EventsAlive == ~misused

\* Every message ends: acknowledged or given up.
SendEnds == \A m \in Messages : <>(result[m] # "none")

Delivery == INSTANCE DirDelivery WITH
              arrived <- {delivered[i].session : i \in DOMAIN delivered}

\* A message reaches the receiver's owner at most once, and one that was acknowledged
\* has reached it.
ImplementsDelivery ==
  /\ Delivery!Spec
  /\ [][Len(delivered') > Len(delivered) =>
          delivered'[Len(delivered')].session \notin
            {delivered[i].session : i \in DOMAIN delivered}]_vars

=============================================================================
