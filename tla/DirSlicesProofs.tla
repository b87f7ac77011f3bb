--------------------------- MODULE DirSlicesProofs ---------------------------
(***************************************************************************)
(* That DirSlices delivers messages whole, sets no event of a try that is  *)
(* over, gives up no message before it has to and implements DirDelivery,  *)
(* for all messages, numbers of tries and faults of the network.           *)
(***************************************************************************)
EXTENDS DirSlices, SequenceTheorems, TLAPS

-----------------------------------------------------------------------------
(* Queues *)

\* What a queue holds.
Elems(q) == {q[i] : i \in DOMAIN q}

LEMMA TailElems ==
  ASSUME NEW S, NEW q \in Seq(S), q # <<>>
  PROVE  /\ Tail(q) \in Seq(S) /\ Head(q) \in Elems(q) /\ Head(q) \in S
         /\ Elems(Tail(q)) \subseteq Elems(q)
<1>1. Tail(q) \in Seq(S) /\ Len(q) \in Nat \ {0} /\ Len(Tail(q)) = Len(q) - 1
  BY EmptySeq, HeadTailProperties
<1>2. \A i \in 1..Len(Tail(q)) : Tail(q)[i] = q[i + 1]
  BY HeadTailProperties
<1>3. Head(q) = q[1] /\ Head(q) \in S
  BY HeadTailProperties
<1> QED
  BY <1>1, <1>2, <1>3, LenProperties DEF Elems

LEMMA AppendElems ==
  ASSUME NEW S, NEW q \in Seq(S), NEW e \in S
  PROVE  /\ Append(q, e) \in Seq(S) /\ Elems(Append(q, e)) = Elems(q) \cup {e}
         /\ Len(Append(q, e)) = Len(q) + 1 /\ Append(q, e)[Len(q) + 1] = e
<1>1. /\ Append(q, e) \in Seq(S) /\ Len(Append(q, e)) = Len(q) + 1
      /\ \A i \in 1..Len(q) : Append(q, e)[i] = q[i]
      /\ Append(q, e)[Len(q) + 1] = e
  BY AppendProperties
<1>2. Len(q) \in Nat /\ DOMAIN q = 1..Len(q) /\ DOMAIN Append(q, e) = 1..(Len(q) + 1)
  BY <1>1, LenProperties
<1> QED
  BY <1>1, <1>2 DEF Elems

LEMMA SlicesTyped ==
  /\ Len(Slices) \in Nat /\ Messages = 1..Len(Slices)
  /\ \A m \in Messages : Slices[m] \in Nat \ {0}
  BY ConstantsAssumption, LenProperties DEF Messages

-----------------------------------------------------------------------------
(* Types *)

Types == {"SINGLE", "MULTI_BEGIN", "MULTI_MIDDLE", "MULTI_END"}
RequestSet == [session : Messages, id : Nat \ {0}, type : Types, data : Nat, data_len : Nat]
DeliverySet == [session : Messages, data : Seq(Nat)]
ResponseSet == [session : Messages, id : Nat \ {0}]
SessionSet == [data : Seq(Nat), open : BOOLEAN, cur : Nat, done : BOOLEAN]

Sending == pc # "idle" => msg \in Messages /\ slice \in 1..Slices[msg] /\ sentTimes < RetryCount

PacketsTyped ==
  /\ requests \in Seq(RequestSet) /\ responses \in Seq(ResponseSet)
  /\ sessions \in [DOMAIN sessions -> SessionSet]
  /\ delivered \in Seq(DeliverySet)

TypeInv == TypeOK /\ Sending /\ PacketsTyped

LEMMA FaultsTyped ==
  ASSUME TypeInv, NEW kind, Fault(kind)
  PROVE  faults' \in [Kinds -> 0..MaxFaults]
<1>1. kind \in Kinds /\ Kinds = {"lose", "repeat", "hurry", "unready"} /\ MaxFaults \in Nat
  BY ConstantsAssumption DEF Fault, Kinds
<1>2. /\ faults["lose"] \in 0..MaxFaults /\ faults["repeat"] \in 0..MaxFaults
      /\ faults["hurry"] \in 0..MaxFaults /\ faults["unready"] \in 0..MaxFaults
  BY <1>1 DEF TypeInv, TypeOK
<1>3. faults[kind] + 1 \in 0..MaxFaults
  BY <1>1, <1>2 DEF Fault, FaultsUsed, Used
<1> QED
  BY <1>1, <1>3 DEF Fault, TypeInv, TypeOK

LEMMA EndMessageTyped ==
  ASSUME TypeInv, pc # "idle", NEW r \in {"ok", "failed"}, EndMessage(r), id' \in Nat \ {0}
  PROVE  /\ msg' \in Messages \cup {Len(Slices) + 1} /\ pc' = "idle"
         /\ bindId' \in Nat \ {0} /\ result' \in [Messages -> {"none", "ok", "failed"}]
<1>1. msg \in Messages /\ bindId \in Nat \ {0} /\ result \in [Messages -> {"none", "ok", "failed"}]
  BY DEF TypeInv, TypeOK, Sending
<1> QED
  BY <1>1, SlicesTyped DEF EndMessage

LEMMA DisturbElems ==
  ASSUME NEW S, NEW q, NEW qq, q \in Seq(S), q # <<>>, NEW kind,
         qq = IF kind = "lose" THEN Tail(q) ELSE Append(q, Head(q))
  PROVE  qq \in Seq(S) /\ Elems(qq) \subseteq Elems(q)
  BY TailElems, AppendElems

LEMMA TypeInit == Init => TypeInv
<1> SUFFICES ASSUME Init PROVE TypeInv
  OBVIOUS
<1>1. TypeOK /\ Sending
  <2>1. msg \in Messages \cup {Len(Slices) + 1}
    BY SlicesTyped DEF Init
  <2>2. faults \in [Kinds -> 0..MaxFaults] /\ sentTimes \in 0..RetryCount
    BY ConstantsAssumption DEF Init
  <2>3. DOMAIN sessions \subseteq Messages /\ result \in [Messages -> {"none", "ok", "failed"}]
    BY DEF Init
  <2>4. listen \in BOOLEAN /\ (listen <=> pc \in {"wait", "forced"}) /\ (signal => listen) /\ Sending
    BY DEF Init, Sending
  <2>5. pc \in {"idle", "send", "wait", "forced"} /\ slice \in Nat /\ id \in Nat \ {0} /\ bindId \in Nat \ {0}
    BY DEF Init
  <2>6. matched \in BOOLEAN /\ misused \in BOOLEAN
    BY DEF Init
  <2> QED
    BY <2>1, <2>2, <2>3, <2>4, <2>5, <2>6 DEF TypeOK
<1>2. <<>> \in Seq(RequestSet) /\ <<>> \in Seq(ResponseSet)
      /\ <<>> \in Seq(DeliverySet)
  BY EmptySeq
<1>3. sessions \in [DOMAIN sessions -> SessionSet]
  BY DEF Init
<1> QED
  BY <1>1, <1>2, <1>3 DEF Init, TypeInv, PacketsTyped

LEMMA SenderPackets == TypeInv /\ Sender => PacketsTyped'
<1> SUFFICES ASSUME TypeInv, Sender PROVE PacketsTyped'
  OBVIOUS
<1> USE DEF TypeInv, PacketsTyped, recvVars
<1>1. CASE SendSlice
  <2>1. Request \in RequestSet
    BY <1>1, SlicesTyped
    DEF SendSlice, TypeOK, Sending, Request, RequestSet, SliceType, Types
  <2>2. requests' \in Seq(RequestSet)
    BY <1>1, <2>1, AppendElems DEF SendSlice
  <2> QED
    BY <1>1, <2>2 DEF SendSlice
<1>2. CASE ~SendSlice
  BY <1>2 DEF Sender, BeginMessage, SliceAcknowledged, TimeOut, WaitFails, ForcedStop
<1> QED
  BY <1>1, <1>2

LEMMA TypeSender == TypeInv /\ Sender => TypeInv'
<1> SUFFICES ASSUME TypeInv, Sender PROVE TypeOK' /\ Sending'
  BY SenderPackets DEF TypeInv
<1> USE DEF TypeInv, TypeOK, Sending, recvVars, listenVars
<1>1. CASE BeginMessage
  BY <1>1, SlicesTyped, ConstantsAssumption DEF BeginMessage
<1>2. CASE SendSlice
  BY <1>2 DEF SendSlice
<1>3. CASE SliceAcknowledged
  <2>1. CASE slice = Slices[msg]
    <3>1. EndMessage("ok") /\ pc = "wait" /\ EndTry
          /\ sentTimes' = 0 /\ id' = id + 1 /\ slice' = slice + 1
          /\ UNCHANGED <<recvVars, requests, responses, faults>>
      BY <1>3, <2>1 DEF SliceAcknowledged
    <3>2. id' \in Nat \ {0} /\ slice' \in Nat /\ sentTimes' \in 0..RetryCount
      BY <3>1, ConstantsAssumption
    <3>3. listen' = FALSE /\ signal' = FALSE /\ UNCHANGED <<matched, misused>>
          /\ pc' \in {"idle", "send"}
      BY <3>1, <3>2, EndMessageTyped DEF EndTry
    <3> QED
      BY <3>3, <3>1, <3>2, EndMessageTyped
  <2>2. CASE slice # Slices[msg]
    <3>1. pc = "wait" /\ pc' = "send" /\ EndTry
          /\ sentTimes' = 0 /\ id' = id + 1 /\ slice' = slice + 1
          /\ UNCHANGED <<msg, bindId, result, recvVars, requests, responses, faults>>
      BY <1>3, <2>2 DEF SliceAcknowledged
    <3>2. slice' \in 1..Slices[msg] /\ slice' \in Nat
      BY <2>2, <3>1, SlicesTyped
    <3>3. listen' = FALSE /\ signal' = FALSE /\ UNCHANGED <<matched, misused>>
          /\ pc' \in {"idle", "send"}
      BY <3>1, <3>2, ConstantsAssumption DEF EndTry
    <3>4. /\ UNCHANGED <<msg, bindId, result, sessions, faults>> /\ pc' = "send"
          /\ id' \in Nat \ {0} /\ sentTimes' = 0
      BY <3>1
    <3>5. Sending'
      BY <3>1, <3>2, <3>4, ConstantsAssumption
    <3>6. sentTimes' \in 0..RetryCount /\ misused' \in BOOLEAN /\ matched' \in BOOLEAN
      BY <3>3, <3>4, ConstantsAssumption
    <3>7. /\ msg' \in Messages \cup {Len(Slices) + 1} /\ DOMAIN sessions' \subseteq Messages
          /\ faults' \in [Kinds -> 0..MaxFaults] /\ bindId' \in Nat \ {0}
          /\ result' \in [Messages -> {"none", "ok", "failed"}]
      BY <3>4
    <3> HIDE DEF TypeInv, Sending
    <3> QED
      BY <3>2, <3>3, <3>4, <3>5, <3>6, <3>7
  <2> QED
    BY <2>1, <2>2
<1>4. CASE TimeOut
  <2>1. faults' \in [Kinds -> 0..MaxFaults]
    BY <1>4, FaultsTyped DEF TimeOut
  <2>2. CASE GivesUp
    <3>1. EndMessage("failed") /\ sentTimes' = sentTimes + 1 /\ sentTimes' = RetryCount
          /\ pc = "wait" /\ EndTry /\ UNCHANGED <<slice, id, recvVars, requests, responses>>
      BY <1>4, <2>2 DEF TimeOut, GivesUp
    <3>3. listen' = FALSE /\ signal' = FALSE /\ UNCHANGED <<matched, misused>>
          /\ pc' \in {"idle", "send"}
      BY <2>1, <3>1, EndMessageTyped, ConstantsAssumption DEF EndTry
    <3>4. /\ msg' \in Messages \cup {Len(Slices) + 1} /\ pc' = "idle"
          /\ bindId' \in Nat \ {0} /\ result' \in [Messages -> {"none", "ok", "failed"}]
      BY <3>1, EndMessageTyped
    <3>5. /\ UNCHANGED <<slice, id, sessions>> /\ sentTimes' \in 0..RetryCount /\ Sending'
      BY <3>1, <3>4, ConstantsAssumption
    <3> QED
      BY <2>1, <3>3, <3>4, <3>5
  <2>3. CASE ~GivesUp
    <3>1. sentTimes' \in 0..RetryCount /\ sentTimes' < RetryCount
      BY <1>4, <2>3, ConstantsAssumption DEF TimeOut, GivesUp
    <3>2. pc = "wait" /\ pc' = "send" /\ EndTry
          /\ UNCHANGED <<msg, bindId, result, slice, id, recvVars, requests, responses>>
      BY <1>4, <2>3 DEF TimeOut
    <3>3. listen' = FALSE /\ signal' = FALSE /\ UNCHANGED <<matched, misused>>
          /\ pc' \in {"idle", "send"}
      BY <2>1, <3>1, <3>2 DEF EndTry
    <3> QED
      BY <3>3, <2>1, <3>1, <3>2
  <2> QED
    BY <2>2, <2>3
<1>5. CASE WaitFails
  BY <1>5 DEF WaitFails
<1>6. CASE ForcedStop
  <2>1. /\ EndMessage("failed") /\ pc = "forced" /\ EndTry
        /\ UNCHANGED <<slice, sentTimes, id, recvVars, requests, responses, faults>>
    BY <1>6 DEF ForcedStop
  <2>2. listen' = FALSE /\ signal' = FALSE /\ UNCHANGED <<matched, misused>>
          /\ pc' \in {"idle", "send"}
    BY <2>1, EndMessageTyped DEF EndTry
  <2> QED
    BY <2>1, <2>2, EndMessageTyped
<1> QED
  BY <1>1, <1>2, <1>3, <1>4, <1>5, <1>6 DEF Sender

\* The sender is not ready for a message.
LEMMA TypeNotReady == TypeInv /\ NotReady => TypeInv'
<1> SUFFICES ASSUME TypeInv, NotReady PROVE TypeInv'
  OBVIOUS
<1> USE DEF TypeInv, TypeOK, Sending, PacketsTyped, recvVars, listenVars
<1>1. faults' \in [Kinds -> 0..MaxFaults]
  BY FaultsTyped DEF NotReady
<1>2. msg' \in Messages \cup {Len(Slices) + 1} /\ result' \in [Messages -> {"none", "ok", "failed"}]
  BY SlicesTyped DEF NotReady
<1> QED
  BY <1>1, <1>2 DEF NotReady

LEMMA TakenTyped ==
  ASSUME NEW p \in RequestSet, NEW s \in SessionSet PROVE Taken(s, p) \in SessionSet
<1>1. <<p.data>> \in Seq(Nat)
  BY DEF RequestSet
<1>2. Append(s.data, p.data) \in Seq(Nat)
  BY AppendElems DEF RequestSet, SessionSet
<1> QED
  BY <1>1, <1>2 DEF Taken, SessionSet, RequestSet

LEMMA TypeReceiver == TypeInv /\ (Receiver \/ ClearSessions \/ NetworkFault) => TypeInv'
<1> SUFFICES ASSUME TypeInv, Receiver \/ ClearSessions \/ NetworkFault PROVE TypeInv'
  OBVIOUS
<1> USE DEF TypeInv, TypeOK, Sending, PacketsTyped, sendVars, listenVars, recvVars
<1>1. CASE RecvResponse
  <2>1. responses' \in Seq(ResponseSet) /\ (matched' => listen)
    BY <1>1, TailElems DEF RecvResponse, IsAwaited
  <2> QED
    BY <1>1, <2>1 DEF RecvResponse, IsAwaited
<1>2. CASE SetEvent
  BY <1>2 DEF SetEvent
<1>3. CASE RecvRequest
  <2> DEFINE p == Head(requests)
             t == Taken(Session(p), p)
  <2>1. p \in RequestSet /\ requests' \in Seq(RequestSet)
    BY <1>3, TailElems DEF RecvRequest
  <2>2. Session(p) \in SessionSet
    BY <2>1, EmptySeq DEF Session, NewSession, SessionSet
  <2>3. t \in SessionSet /\ WhenDelivered(t) \in SessionSet
    <3>1. <<>> \in Seq(Nat)
      BY EmptySeq
    <3>2. t \in SessionSet
      BY <2>1, <2>2, TakenTyped
    <3> HIDE DEF t
    <3> QED
      BY <3>1, <3>2 DEF WhenDelivered, SessionSet
  <2>4. ASSUME NEW s \in SessionSet, Keep(p, s)
        PROVE  /\ sessions' \in [DOMAIN sessions' -> SessionSet]
               /\ DOMAIN sessions' \subseteq Messages
    BY <2>1, <2>4 DEF Keep, RequestSet
  <2>5. [session |-> p.session, id |-> p.id] \in ResponseSet
        /\ [session |-> p.session, data |-> t.data] \in DeliverySet
    BY <2>1, <2>3 DEF RequestSet, ResponseSet, SessionSet, DeliverySet
  <2> DEFINE dropped == UNCHANGED <<recvVars, responses>>
             answered == responses' = Append(responses, [session |-> p.session, id |-> p.id])
             complete == /\ delivered' = Append(delivered, [session |-> p.session, data |-> t.data])
                         /\ Keep(p, WhenDelivered(t))
             taken == UNCHANGED delivered /\ Keep(p, t)
  <2>6. \/ dropped \/ (answered /\ (complete \/ taken))
    BY <1>3 DEF RecvRequest
  <2>7. CASE dropped
    BY <1>3, <2>1, <2>7 DEF RecvRequest
  <2> HIDE DEF p, t
  <2>8. ASSUME answered, complete \/ taken
        PROVE  /\ responses' \in Seq(ResponseSet)
               /\ delivered' \in Seq(DeliverySet)
               /\ sessions' \in [DOMAIN sessions' -> SessionSet]
               /\ DOMAIN sessions' \subseteq Messages
    <3>1. responses' \in Seq(ResponseSet)
      BY <2>5, <2>8, AppendElems
    <3>2. delivered' \in Seq(DeliverySet)
      <4>1. ASSUME NEW d \in DeliverySet PROVE Append(delivered, d) \in Seq(DeliverySet)
        BY <4>1, AppendElems
      <4> QED
        BY <2>5, <2>8, <4>1
    <3>3. \E s \in SessionSet : Keep(p, s)
      BY <2>3, <2>8
    <3> QED
      BY <2>4, <3>1, <3>2, <3>3
  <2>9. UNCHANGED <<sendVars, listenVars, faults>>
    BY <1>3 DEF RecvRequest
  <2> QED
    BY <2>1, <2>6, <2>7, <2>8, <2>9
<1>4. CASE ClearSessions
  BY <1>4 DEF ClearSessions
<1>5. CASE NetworkFault
  <2>1. PICK kind \in {"lose", "repeat"} :
          /\ \/ Disturb(kind, requests) /\ UNCHANGED responses
             \/ Disturb(kind, responses) /\ UNCHANGED requests
          /\ UNCHANGED <<sendVars, listenVars, recvVars>>
    BY <1>5 DEF NetworkFault
  <2>2. faults' \in [Kinds -> 0..MaxFaults]
    BY <2>1, FaultsTyped DEF Disturb
  <2>3. requests' \in Seq(RequestSet) /\ responses' \in Seq(ResponseSet)
    BY <2>1, DisturbElems DEF Disturb
  <2> QED
    BY <2>1, <2>2, <2>3
<1> QED
  BY <1>1, <1>2, <1>3, <1>4, <1>5 DEF Receiver

LEMMA TypeStep == TypeInv /\ [Next]_vars => TypeInv'
<1>1. TypeInv /\ UNCHANGED vars => TypeInv'
  BY DEF TypeInv, TypeOK, Sending, PacketsTyped, vars, sendVars, listenVars, recvVars
<1> QED
  BY <1>1, TypeSender, TypeNotReady, TypeReceiver DEF Next

\* The variables keep their types, messages and tries their bounds, and an event is set only
\* while a try waits for it: DoSendPacket never makes a try too many, whatever is repaired.
THEOREM TypeCorrect == Spec => []TypeOK
<1>1. TypeInv => TypeOK
  BY DEF TypeInv
<1> QED
  BY TypeInit, TypeStep, <1>1, PTL DEF Spec

-----------------------------------------------------------------------------
(* Numbers *)

\* The messages DoSendPacket has begun to send, and those it is done with.
Begun == IF pc = "idle" THEN 1..(msg - 1) ELSE 1..msg
Over == 1..(msg - 1)

Arrived == {delivered[i].session : i \in DOMAIN delivered}

\* base[m] + k is the id of the k-th slice of message m.
SenderInv(base) ==
  /\ pc # "idle" => id = base[msg] + slice
  /\ pc \in {"wait", "forced"} => awaited = [id |-> id, session |-> msg]
  /\ \A p \in Elems(requests) :
       /\ p.session \in Begun /\ p.data \in 1..Slices[p.session]
       /\ p.id = base[p.session] + p.data
       /\ p.type = SliceType(p.session, p.data) /\ p.data_len = Slices[p.session]

\* The first k of n slices are there, the last one has the id b + k.
Opened(s, b, n) ==
  /\ s.open /\ ~s.done
  /\ Len(s.data) \in 1..(n - 1) /\ s.data = [k \in 1..Len(s.data) |-> k]
  /\ s.cur = b + Len(s.data)

Closed(s) == ~s.open /\ s.done /\ s.data = <<>>

\* A session is open with the first slices of its message, some missing, or it is done.
SessionsInv(base) ==
  \A m \in DOMAIN sessions :
    /\ m \in Begun
    /\ \/ Opened(sessions[m], base[m], Slices[m])
       \/ Closed(sessions[m]) /\ m \in Arrived

\* An acknowledgement of the last slice is one of a message that has arrived.
AcksInv(base) ==
  \A r \in Elems(responses) :
    /\ r.session \in Begun
    /\ r.id = base[r.session] + Slices[r.session] => r.session \in Arrived

\* Also when it has been handed over, and when the message counts as sent.
ResultInv ==
  /\ matched => listen
  /\ (matched \/ signal) /\ slice = Slices[msg] => msg \in Arrived
  /\ \A m \in Messages : result[m] = "ok" => m \in Arrived
  /\ \A m \in Messages \ Over : result[m] = "none"

\* What has arrived cannot come again: its session is remembered, or nothing of it is under way.
OnceInv ==
  \A m \in Arrived :
    /\ m \in Begun
    /\ \/ m \in DOMAIN sessions /\ sessions[m].done
       \/ m \in Over /\ \A p \in Elems(requests) : p.session # m

Core(base) == SenderInv(base) /\ SessionsInv(base) /\ AcksInv(base)

Inv ==
  /\ EventsAlive /\ DeliveredWhole /\ OnceInv /\ ResultInv
  /\ \E base \in [Messages -> Nat] : Core(base)

-----------------------------------------------------------------------------
(* The steps *)

\* The repairs without which a message arrives twice, or counts as sent and did not arrive.
Needed == {"Copy", "Redeliver", "Event", "TimedWait"}

LEMMA InvInit == TypeInv /\ Init => Inv
<1> SUFFICES ASSUME TypeInv, Init PROVE Inv
  OBVIOUS
<1>1. Arrived = {} /\ Elems(requests) = {} /\ Elems(responses) = {}
  BY DEF Init, Arrived, Elems
<1>2. EventsAlive /\ DeliveredWhole /\ OnceInv /\ ResultInv
  BY <1>1 DEF Init, EventsAlive, DeliveredWhole, OnceInv, ResultInv
<1> DEFINE base == [m \in Messages |-> 0]
<1>3. Core(base)
  BY <1>1 DEF Init, Core, SenderInv, SessionsInv, AcksInv
<1>4. base \in [Messages -> Nat]
  OBVIOUS
<1> HIDE DEF base
<1> QED
  BY <1>2, <1>3, <1>4 DEF Inv

\* A new message gets its numbers, and changes none of the others'.
LEMMA BeginStep ==
  ASSUME TypeInv, Inv, BeginMessage PROVE Inv'
<1>1. PICK base \in [Messages -> Nat] : Core(base)
  BY DEF Inv
<1>2. /\ msg \in Messages /\ pc = "idle" /\ pc' = "send"
      /\ slice' = 1 /\ id' = bindId /\ bindId \in Nat \ {0} /\ ~signal /\ ~matched
      /\ UNCHANGED <<msg, result, matched, signal, misused, sessions, delivered, requests, responses>>
  BY DEF BeginMessage, TypeInv, TypeOK, Inv, ResultInv, recvVars, listenVars
<1>3. PICK next \in [Messages -> Nat] :
        next[msg] = bindId - 1 /\ \A m \in Messages \ {msg} : next[m] = base[m]
  <2>1. [base EXCEPT ![msg] = bindId - 1] \in [Messages -> Nat]
    BY <1>2
  <2> QED
    BY <1>2, <2>1
<1>4. Begun \subseteq Begun' /\ msg \notin Begun /\ Over' = Over /\ Arrived' = Arrived
      /\ Begun \subseteq Messages /\ \A m \in Begun : next[m] = base[m]
  BY <1>2, <1>3, SlicesTyped DEF Begun, Over, Arrived
<1>5. Elems(requests)' = Elems(requests) /\ Elems(responses)' = Elems(responses)
  BY <1>2
<1>6. EventsAlive' /\ DeliveredWhole' /\ OnceInv' /\ ResultInv'
  BY <1>2, <1>4, <1>5 DEF Inv, EventsAlive, DeliveredWhole, OnceInv, ResultInv
<1>7. SenderInv(next)'
  BY <1>1, <1>2, <1>3, <1>4, <1>5 DEF Core, SenderInv
<1>8. SessionsInv(next)'
  <2>1. SessionsInv(base)
    BY <1>1 DEF Core
  <2> QED
    BY <1>2, <1>4, <2>1 DEF SessionsInv, Opened, Closed
<1>9. AcksInv(next)'
  BY <1>1, <1>4, <1>5 DEF Core, AcksInv
<1> QED
  BY <1>3, <1>6, <1>7, <1>8, <1>9 DEF Inv, Core

-----------------------------------------------------------------------------
\* The steps of the sender after that: the messages begun stay the same, or one more is over.
LEMMA SendStep ==
  ASSUME TypeInv, Inv, SendSlice PROVE Inv'
<1>1. PICK base \in [Messages -> Nat] : Core(base)
  BY DEF Inv
<1>2. /\ msg \in Messages /\ pc = "send" /\ pc' = "wait" /\ slice \in 1..Slices[msg]
      /\ ~listen /\ ~signal /\ ~matched
      /\ requests' = Append(requests, Request) /\ awaited' = [id |-> id, session |-> msg]
      /\ listen' = TRUE /\ signal' = FALSE
      /\ UNCHANGED <<msg, slice, id, result, matched, misused, sessions, delivered, responses>>
  BY DEF SendSlice, TypeInv, TypeOK, Sending, Inv, ResultInv, recvVars
<1>3. Begun' = Begun /\ msg \in Begun /\ Over' = Over /\ msg \notin Over /\ Arrived' = Arrived
      /\ Elems(responses)' = Elems(responses)
  BY <1>2, SlicesTyped DEF Begun, Over, Arrived
<1>4. Elems(requests)' = Elems(requests) \cup {Request}
  <2>1. Request \in RequestSet
    BY <1>2, SlicesTyped DEF TypeInv, TypeOK, Request, RequestSet, SliceType, Types
  <2> QED
    BY <1>2, <2>1, AppendElems DEF TypeInv, PacketsTyped
<1>5. EventsAlive' /\ DeliveredWhole' /\ ResultInv'
  BY <1>2, <1>3 DEF Inv, EventsAlive, DeliveredWhole, ResultInv
<1>6. OnceInv'
  BY <1>2, <1>3, <1>4 DEF Inv, OnceInv, Request
<1>7. SenderInv(base)'
  BY <1>1, <1>2, <1>3, <1>4 DEF Core, SenderInv, Request
<1>8. SessionsInv(base)' /\ AcksInv(base)'
  BY <1>1, <1>2, <1>3 DEF Core, SessionsInv, AcksInv, Opened, Closed
<1> QED
  BY <1>1, <1>5, <1>6, <1>7, <1>8 DEF Inv, Core

LEMMA EndStep ==
  ASSUME Needed \subseteq Repairs, TypeInv, Inv, SliceAcknowledged \/ TimeOut \/ ForcedStop
  PROVE  Inv'
<1>1. PICK base \in [Messages -> Nat] : Core(base)
  BY DEF Inv
<1>2. Repaired("Event") /\ Repaired("TimedWait")
  BY DEF Needed, Repaired
<1>3. /\ msg \in Messages /\ pc # "idle" /\ slice \in 1..Slices[msg] /\ ~matched
      /\ listen' = FALSE /\ signal' = FALSE
      /\ UNCHANGED <<awaited, matched, misused, sessions, delivered, requests, responses>>
  BY <1>2 DEF SliceAcknowledged, TimeOut, ForcedStop, EndTry, TypeInv, TypeOK, Sending, recvVars
<1>4. Arrived' = Arrived /\ Elems(requests)' = Elems(requests)
      /\ Elems(responses)' = Elems(responses)
  BY <1>3 DEF Arrived
\* The message goes on with this slice or the next.
<1>5. CASE UNCHANGED <<msg, result>> /\ pc' = "send" /\ id' - slice' = id - slice
           /\ slice' \in Int /\ id' \in Int
  <2>1. Begun' = Begun /\ Over' = Over
    BY <1>3, <1>5 DEF Begun, Over
  <2>2. EventsAlive' /\ DeliveredWhole' /\ OnceInv' /\ ResultInv'
    BY <1>3, <1>4, <1>5, <2>1 DEF Inv, EventsAlive, DeliveredWhole, OnceInv, ResultInv
  <2>3. SenderInv(base)'
    BY <1>1, <1>3, <1>4, <1>5, <2>1 DEF Core, SenderInv, TypeInv, TypeOK
  <2>4. SessionsInv(base)' /\ AcksInv(base)'
    BY <1>1, <1>3, <1>4, <2>1 DEF Core, SessionsInv, AcksInv, Opened, Closed
  <2> QED
    BY <1>1, <2>2, <2>3, <2>4 DEF Inv, Core
\* The message is over.
<1>6. CASE /\ msg' = msg + 1 /\ pc' = "idle"
           /\ \E r \in {"ok", "failed"} :
                /\ result' = [result EXCEPT ![msg] = r]
                /\ r = "ok" => signal /\ slice = Slices[msg]
  <2>1. Begun' = Begun /\ Over' = Over \cup {msg} /\ msg \in Begun
    BY <1>3, <1>6, SlicesTyped DEF Begun, Over
  <2>2. EventsAlive' /\ DeliveredWhole' /\ OnceInv'
    BY <1>3, <1>4, <1>6, <2>1 DEF Inv, EventsAlive, DeliveredWhole, OnceInv
  <2>3. ResultInv'
    <3>1. PICK r \in {"ok", "failed"} :
            /\ result' = [result EXCEPT ![msg] = r]
            /\ r = "ok" => signal /\ slice = Slices[msg]
      BY <1>6
    <3>2. result \in [Messages -> {"none", "ok", "failed"}] /\ ResultInv
      BY DEF TypeInv, TypeOK, Inv
    <3>3. result'[msg] = r /\ \A m \in Messages \ {msg} : result'[m] = result[m]
      BY <1>3, <3>1, <3>2
    <3>4. r = "ok" => msg \in Arrived
      BY <3>1, <3>2 DEF ResultInv
    <3> QED
      BY <1>3, <1>4, <2>1, <3>2, <3>3, <3>4 DEF ResultInv
  <2>4. Core(base)'
    BY <1>1, <1>3, <1>4, <1>6, <2>1 DEF Core, SenderInv, SessionsInv, AcksInv, Opened, Closed
  <2> QED
    BY <1>1, <2>2, <2>3, <2>4 DEF Inv
<1> QED
  <2>1. CASE SliceAcknowledged
    BY <1>2, <1>5, <1>6, <2>1 DEF SliceAcknowledged, EndMessage, TypeInv, TypeOK
  <2>2. CASE TimeOut
    BY <1>5, <1>6, <2>2 DEF TimeOut, EndMessage, TypeInv, TypeOK
  <2>3. CASE ForcedStop
    BY <1>6, <2>3 DEF ForcedStop, EndMessage
  <2> QED
    BY <2>1, <2>2, <2>3

\* The wait that fails leaves all as it is but the place of the sender.
LEMMA WaitFailsStep ==
  ASSUME TypeInv, Inv, WaitFails PROVE Inv'
<1>1. PICK base \in [Messages -> Nat] : Core(base)
  BY DEF Inv
<1>2. /\ pc = "wait" /\ pc' = "forced"
      /\ UNCHANGED <<msg, slice, id, awaited, listen, result, signal, matched, misused, sessions,
                     delivered, requests, responses>>
  BY DEF WaitFails, listenVars, recvVars
<1>3. Begun' = Begun /\ Over' = Over /\ Arrived' = Arrived
  BY <1>2 DEF Begun, Over, Arrived
<1>4. EventsAlive' /\ DeliveredWhole' /\ OnceInv' /\ ResultInv'
  BY <1>2, <1>3 DEF Inv, EventsAlive, DeliveredWhole, OnceInv, ResultInv
<1>5. SenderInv(base)'
  BY <1>1, <1>2, <1>3 DEF Core, SenderInv
<1>6. SessionsInv(base)' /\ AcksInv(base)'
  BY <1>1, <1>2, <1>3 DEF Core, SessionsInv, AcksInv, Opened, Closed
<1> QED
  BY <1>1, <1>4, <1>5, <1>6 DEF Inv, Core

\* A message the sender is not ready for is over without a packet of it.
LEMMA NotReadyStep ==
  ASSUME TypeInv, Inv, NotReady PROVE Inv'
<1>1. PICK base \in [Messages -> Nat] : Core(base)
  BY DEF Inv
<1>2. /\ msg \in Messages /\ pc = "idle" /\ pc' = "idle" /\ msg' = msg + 1
      /\ result' = [result EXCEPT ![msg] = "failed"]
      /\ ~signal /\ ~matched
      /\ UNCHANGED <<signal, matched, misused, sessions, delivered, requests, responses>>
      /\ result \in [Messages -> {"none", "ok", "failed"}]
  BY DEF NotReady, TypeInv, TypeOK, Inv, ResultInv, listenVars, recvVars
<1>3. /\ Begun' = Begun \cup {msg} /\ Over' = Over \cup {msg} /\ Arrived' = Arrived
      /\ Elems(requests)' = Elems(requests) /\ Elems(responses)' = Elems(responses)
  BY <1>2, SlicesTyped DEF Begun, Over, Arrived
<1>4. EventsAlive' /\ DeliveredWhole' /\ OnceInv'
  BY <1>2, <1>3 DEF Inv, EventsAlive, DeliveredWhole, OnceInv
<1>5. ResultInv'
  <2>1. result'[msg] = "failed" /\ \A m \in Messages \ {msg} : result'[m] = result[m]
    BY <1>2
  <2> QED
    BY <1>2, <1>3, <2>1 DEF Inv, ResultInv
<1>6. SenderInv(base)'
  BY <1>1, <1>2, <1>3 DEF Core, SenderInv
<1>7. SessionsInv(base)' /\ AcksInv(base)'
  BY <1>1, <1>2, <1>3 DEF Core, SessionsInv, AcksInv, Opened, Closed
<1> QED
  BY <1>1, <1>4, <1>5, <1>6, <1>7 DEF Inv, Core

-----------------------------------------------------------------------------
(* The steps of the listener, the receiver and the network *)

LEMMA ListenerStep ==
  ASSUME Needed \subseteq Repairs, TypeInv, Inv, RecvResponse \/ SetEvent PROVE Inv'
<1>1. PICK base \in [Messages -> Nat] : Core(base)
  BY DEF Inv
<1>2. /\ Elems(responses)' \subseteq Elems(responses)
      /\ UNCHANGED <<sendVars, sessions, delivered, requests>>
  BY TailElems DEF RecvResponse, SetEvent, TypeInv, PacketsTyped, recvVars
<1>3. /\ Begun' = Begun /\ Over' = Over /\ Arrived' = Arrived
      /\ Elems(requests)' = Elems(requests)
  BY <1>2 DEF Begun, Over, Arrived, sendVars
<1>4. EventsAlive' /\ ResultInv'
  <2>1. CASE RecvResponse
    <3> DEFINE r == Head(responses)
    <3>1. r \in Elems(responses) /\ matched' = IsAwaited(r) /\ UNCHANGED <<signal, misused>>
      BY <2>1, TailElems DEF RecvResponse, TypeInv, PacketsTyped
    <3>2. IsAwaited(r) => /\ listen /\ msg \in Messages
                          /\ r.id = base[msg] + slice /\ r.session = msg
      <4>1. listen => pc \in {"wait", "forced"} /\ msg \in Messages
        BY DEF TypeInv, TypeOK, Sending
      <4>2. pc \in {"wait", "forced"} => awaited = [id |-> id, session |-> msg] /\ id = base[msg] + slice
        BY <1>1 DEF Core, SenderInv
      <4> QED
        BY <4>1, <4>2 DEF IsAwaited
    <3>3. IsAwaited(r) /\ slice = Slices[msg] => msg \in Arrived
      BY <1>1, <3>1, <3>2 DEF Core, AcksInv
    <3> HIDE DEF r
    <3> QED
      BY <1>2, <1>3, <3>1, <3>2, <3>3 DEF Inv, ResultInv, EventsAlive, sendVars
  <2>2. CASE SetEvent
    BY <1>2, <1>3, <2>2 DEF SetEvent, Inv, ResultInv, EventsAlive, sendVars
  <2> QED
    BY <2>1, <2>2
<1>5. DeliveredWhole' /\ OnceInv'
  BY <1>2, <1>3 DEF Inv, DeliveredWhole, OnceInv, sendVars
<1>6. SenderInv(base)'
  BY <1>1, <1>2, <1>3 DEF Core, SenderInv, sendVars
<1>7. SessionsInv(base)' /\ AcksInv(base)'
  BY <1>1, <1>2, <1>3 DEF Core, SessionsInv, AcksInv, Opened, Closed
<1> QED
  BY <1>1, <1>4, <1>5, <1>6, <1>7 DEF Inv, Core

LEMMA ClearStep ==
  ASSUME TypeInv, Inv, ClearSessions PROVE Inv'
<1>1. PICK base \in [Messages -> Nat] : Core(base)
  BY DEF Inv
<1>2. PICK n \in DOMAIN sessions :
        /\ sessions[n].done /\ (msg # n \/ pc = "idle")
        /\ \A i \in DOMAIN requests : requests[i].session # n
        /\ sessions' = [k \in DOMAIN sessions \ {n} |-> sessions[k]]
        /\ UNCHANGED <<sendVars, listenVars, delivered, requests, responses>>
  BY DEF ClearSessions
<1>3. /\ Begun' = Begun /\ Over' = Over /\ Arrived' = Arrived
      /\ Elems(requests)' = Elems(requests) /\ Elems(responses)' = Elems(responses)
  BY <1>2 DEF Begun, Over, Arrived, sendVars
<1>4. n \in Over /\ \A p \in Elems(requests) : p.session # n
  BY <1>1, <1>2, SlicesTyped DEF Core, SessionsInv, Begun, Over, Elems, TypeInv, TypeOK
<1>5. EventsAlive' /\ DeliveredWhole' /\ ResultInv'
  BY <1>2, <1>3
  DEF Inv, EventsAlive, DeliveredWhole, ResultInv, sendVars, listenVars
<1>6. OnceInv'
  BY <1>2, <1>3, <1>4 DEF Inv, OnceInv
<1>7. SenderInv(base)'
  BY <1>1, <1>2, <1>3 DEF Core, SenderInv, sendVars
<1>8. SessionsInv(base)' /\ AcksInv(base)'
  BY <1>1, <1>2, <1>3 DEF Core, SessionsInv, AcksInv, Opened, Closed
<1> QED
  BY <1>1, <1>5, <1>6, <1>7, <1>8 DEF Inv, Core

LEMMA FaultStep ==
  ASSUME TypeInv, Inv, NetworkFault PROVE Inv'
<1>1. PICK base \in [Messages -> Nat] : Core(base)
  BY DEF Inv
<1>2. /\ Elems(requests)' \subseteq Elems(requests) /\ Elems(responses)' \subseteq Elems(responses)
      /\ UNCHANGED <<sendVars, listenVars, sessions, delivered>>
  BY DisturbElems DEF NetworkFault, Disturb, TypeInv, PacketsTyped, recvVars
<1>3. Begun' = Begun /\ Over' = Over /\ Arrived' = Arrived
  BY <1>2 DEF Begun, Over, Arrived, sendVars
<1>4. EventsAlive' /\ DeliveredWhole' /\ OnceInv' /\ ResultInv'
  BY <1>2, <1>3
  DEF Inv, EventsAlive, DeliveredWhole, OnceInv, ResultInv, sendVars, listenVars
<1>5. SenderInv(base)'
  BY <1>1, <1>2, <1>3 DEF Core, SenderInv, sendVars
<1>6. SessionsInv(base)' /\ AcksInv(base)'
  BY <1>1, <1>2, <1>3 DEF Core, SessionsInv, AcksInv, Opened, Closed
<1> QED
  BY <1>1, <1>4, <1>5, <1>6 DEF Inv, Core

\* The first slices of a message and the next one are the first slices of it.
LEMMA AppendNext ==
  ASSUME NEW q \in Seq(Nat), q = [k \in 1..Len(q) |-> k]
  PROVE  Append(q, Len(q) + 1) = [k \in 1..(Len(q) + 1) |-> k]
<1> DEFINE r == Append(q, Len(q) + 1)
<1>1. Len(q) \in Nat /\ Len(q) + 1 \in Nat
  BY LenProperties
<1>2. /\ r \in Seq(Nat) /\ Len(r) = Len(q) + 1
      /\ \A i \in 1..Len(q) : r[i] = q[i]
      /\ r[Len(q) + 1] = Len(q) + 1
  BY <1>1, AppendProperties
<1>3. \A i \in 1..(Len(q) + 1) : r[i] = i
  BY <1>1, <1>2
<1>4. r \in [1..(Len(q) + 1) -> Nat]
  BY <1>2, LenProperties
<1> HIDE DEF r
<1>5. r = [k \in 1..(Len(q) + 1) |-> k]
  BY <1>3, <1>4
<1> QED
  BY <1>5 DEF r

\* What a slice that is not refused does to its session: nothing when that is done, else it
\* is the last one there, or completes the message.
LEMMA TakenCases ==
  ASSUME "Redeliver" \in Repairs,
         NEW p \in RequestSet, NEW s \in SessionSet, NEW b \in Nat, NEW n \in Nat \ {0},
         p.data \in 1..n, p.id = b + p.data, p.data_len = n, IsFirst(p) <=> p.data = 1,
         Opened(s, b, n) \/ Closed(s) \/ s = NewSession,
         IsFirst(p) \/ ~IsRefused(s, p)
  PROVE  \/ Closed(s) /\ Taken(s, p) = s /\ ~IsComplete(s, p)
         \/ /\ ~s.done /\ ~IsComplete(Taken(s, p), p)
            /\ Opened(Taken(s, p), b, n) /\ Len(Taken(s, p).data) = p.data
         \/ /\ ~s.done /\ IsComplete(Taken(s, p), p)
            /\ Taken(s, p).data = [k \in 1..n |-> k] /\ Closed(WhenDelivered(Taken(s, p)))
            /\ p.data = n
<1>1. CASE Closed(s)
  <2>1. Taken(s, p) = s
    BY <1>1 DEF Taken, Closed, Repaired
  <2>2. ~IsComplete(s, p)
    BY <1>1, EmptySeq DEF IsComplete, Closed
  <2> QED
    BY <1>1, <2>1, <2>2
<1>2. CASE ~s.done /\ p.data = 1
  <2>1. Taken(s, p) = [s EXCEPT !.data = <<1>>, !.open = TRUE, !.cur = p.id]
    BY <1>2 DEF Taken
  <2>2. /\ Taken(s, p).data = <<1>> /\ Taken(s, p).open /\ ~Taken(s, p).done
        /\ Taken(s, p).cur = b + 1
    BY <1>2, <2>1 DEF SessionSet
  <2>3. Taken(s, p) \in SessionSet
    <3>1. <<1>> \in Seq(Nat) /\ p.id \in Nat
      BY DEF RequestSet
    <3> QED
      BY <2>1, <3>1 DEF SessionSet
  <2>4. Len(<<1>>) = 1 /\ <<1>> = [k \in 1..1 |-> k]
    OBVIOUS
  <2>5. CASE n = 1
    BY <1>2, <2>2, <2>3, <2>4, <2>5 DEF IsComplete, Closed, WhenDelivered, SessionSet
  <2>6. CASE n # 1
    BY <1>2, <2>2, <2>4, <2>6 DEF IsComplete, Opened
  <2> QED
    BY <2>5, <2>6
<1>3. CASE Opened(s, b, n) /\ p.data # 1
  <2>1. /\ p.id >= s.cur /\ s.cur >= p.id - 1 /\ s.cur = b + Len(s.data) /\ s.cur \in Nat
        /\ Len(s.data) \in 1..(n - 1) /\ s.data = [k \in 1..Len(s.data) |-> k] /\ s.data \in Seq(Nat)
        /\ s.open /\ ~s.done /\ ~IsFirst(p)
    BY <1>3 DEF Opened, IsRefused, SessionSet, RequestSet
  <2>2. CASE s.cur = p.id
    <3>1. Taken(s, p) = s /\ Len(s.data) = p.data
      BY <2>1, <2>2 DEF Taken
    <3> QED
      BY <1>3, <2>1, <3>1 DEF IsComplete
  <2>3. CASE s.cur = p.id - 1
    <3>1. Len(s.data) + 1 = p.data /\ Len(s.data) < p.data_len
      BY <2>1, <2>3
    <3>2. Taken(s, p) = [s EXCEPT !.data = Append(@, p.data), !.cur = p.id]
      BY <2>1, <2>3, <3>1 DEF Taken
    <3>3. Append(s.data, p.data) \in Seq(Nat) /\ Len(Append(s.data, p.data)) = p.data
      BY <2>1, <3>1, AppendProperties
    <3>4. Append(s.data, p.data) = [k \in 1..p.data |-> k]
      BY <2>1, <3>1, AppendNext
    <3>5. /\ Taken(s, p).data = Append(s.data, p.data) /\ Taken(s, p).cur = p.id
          /\ Taken(s, p).open /\ ~Taken(s, p).done /\ Taken(s, p) \in SessionSet
      BY <2>1, <3>2, <3>3 DEF SessionSet, RequestSet
    <3>6. CASE p.data = n
      BY <2>1, <3>3, <3>4, <3>5, <3>6 DEF IsComplete, Closed, WhenDelivered, SessionSet
    <3>7. CASE p.data # n
      BY <2>1, <3>3, <3>4, <3>5, <3>7 DEF IsComplete, Opened
    <3> QED
      BY <3>6, <3>7
  <2> QED
    BY <2>1, <2>2, <2>3 DEF RequestSet
<1>4. CASE s = NewSession /\ p.data # 1
  <2>1. s.cur = 0 /\ ~IsFirst(p) /\ ~IsRefused(s, p)
    BY <1>4 DEF NewSession
  <2>2. p.id = 1
    BY <2>1 DEF IsRefused, RequestSet
  <2> QED
    BY <2>1, <2>2 DEF IsFirst
<1> QED
  BY <1>1, <1>2, <1>3, <1>4 DEF Opened, Closed, NewSession

\* Each delivery adds its message to those that have arrived.
LEMMA ArrivedGrows ==
  ASSUME TypeInv, NEW e \in DeliverySet, delivered' = Append(delivered, e)
  PROVE  /\ Elems(delivered)' = Elems(delivered) \cup {e} /\ Arrived' = Arrived \cup {e.session}
         /\ Len(delivered') = Len(delivered) + 1 /\ delivered'[Len(delivered')] = e
<1>1. /\ Elems(delivered)' = Elems(delivered) \cup {e}
      /\ Len(delivered') = Len(delivered) + 1 /\ delivered'[Len(delivered')] = e
  BY AppendElems DEF TypeInv, PacketsTyped
<1>2. \A x : x \in Arrived <=> \E d \in Elems(delivered) : d.session = x
  BY DEF Arrived, Elems
<1>3. \A x : x \in Arrived' <=> \E d \in Elems(delivered)' : d.session = x
  BY DEF Arrived, Elems
<1>4. \A x : x \in Arrived' <=> x \in Arrived \/ x = e.session
  BY <1>1, <1>2, <1>3
<1> QED
  BY <1>1, <1>4

LEMMA RequestStep ==
  ASSUME Needed \subseteq Repairs, TypeInv, Inv, RecvRequest PROVE Inv'
<1>1. PICK base \in [Messages -> Nat] : Core(base)
  BY DEF Inv
<1> DEFINE p == Head(requests)
           s == Session(p)
           t == Taken(s, p)
           m == p.session
           response == [session |-> m, id |-> p.id]
           whole == [session |-> m, data |-> t.data]
<1>2. /\ p \in Elems(requests) /\ p \in RequestSet /\ Elems(requests)' \subseteq Elems(requests)
      /\ UNCHANGED <<sendVars, listenVars>>
  BY TailElems DEF RecvRequest, TypeInv, PacketsTyped
<1>3. /\ m \in Begun /\ m \in Messages /\ p.data \in 1..Slices[m] /\ p.id = base[m] + p.data
      /\ p.type = SliceType(m, p.data) /\ p.data_len = Slices[m]
      /\ Slices[m] \in Nat \ {0} /\ base[m] \in Nat
  BY <1>1, <1>2, SlicesTyped DEF Core, SenderInv, RequestSet
<1>4. IsFirst(p) <=> p.data = 1
  BY <1>3 DEF IsFirst, SliceType
<1>5. s \in SessionSet /\ (Opened(s, base[m], Slices[m]) \/ Closed(s) \/ s = NewSession)
  <2>1. CASE m \in DOMAIN sessions
    BY <1>1, <1>3, <2>1 DEF Session, Core, SessionsInv, TypeInv, PacketsTyped
  <2>2. CASE m \notin DOMAIN sessions
    BY <2>2, EmptySeq DEF Session, NewSession, SessionSet
  <2> QED
    BY <2>1, <2>2
<1>6. m \in Arrived <=> s.done
  <2>1. m \in Arrived => m \in DOMAIN sessions /\ sessions[m].done
    BY <1>2 DEF Inv, OnceInv
  <2>2. m \in DOMAIN sessions /\ sessions[m].done => m \in Arrived
    BY <1>1 DEF Core, SessionsInv, Opened
  <2> QED
    BY <1>5, <2>1, <2>2 DEF Session, NewSession
<1>7. Begun' = Begun /\ Over' = Over
  BY <1>2 DEF Begun, Over, sendVars
<1>8. SenderInv(base)' /\ EventsAlive'
  BY <1>1, <1>2, <1>7 DEF Core, SenderInv, Inv, EventsAlive, sendVars, listenVars
<1> DEFINE dropped == UNCHANGED <<sessions, delivered, responses>>
           keeps(u) == sessions' = [n \in DOMAIN sessions \cup {m} |->
                                      IF n = m THEN u ELSE sessions[n]]
           answered == responses' = Append(responses, response)
<1>9. \/ dropped
      \/ /\ IsFirst(p) \/ ~IsRefused(s, p)
         /\ answered
         /\ \/ IsComplete(t, p) /\ delivered' = Append(delivered, whole) /\ keeps(WhenDelivered(t))
            \/ ~IsComplete(t, p) /\ UNCHANGED delivered /\ keeps(t)
  BY DEF RecvRequest, Keep, Needed, Repaired, recvVars
<1>10. answered => Elems(responses)' = Elems(responses) \cup {response}
  <2>1. response \in ResponseSet
    BY <1>2, <1>3 DEF RequestSet, ResponseSet
  <2>2. \A e \in ResponseSet : Elems(Append(responses, e)) = Elems(responses) \cup {e}
    BY AppendElems DEF TypeInv, PacketsTyped
  <2> HIDE DEF response
  <2> QED
    BY <2>1, <2>2
<1> HIDE DEF p, s, t
<1>11. CASE dropped
  <2>1. Arrived' = Arrived
    BY <1>11 DEF Arrived
  <2>2. DeliveredWhole' /\ OnceInv' /\ ResultInv'
    BY <1>2, <1>7, <1>11, <2>1
    DEF Inv, DeliveredWhole, OnceInv, ResultInv, sendVars, listenVars
  <2>3. SessionsInv(base)' /\ AcksInv(base)'
    BY <1>1, <1>7, <1>11, <2>1 DEF Core, SessionsInv, AcksInv, Opened, Closed
  <2> QED
    BY <1>8, <2>2, <2>3 DEF Inv, Core
<1>12. ASSUME answered, UNCHANGED delivered, NEW u, keeps(u),
              \/ Closed(u) /\ s.done
              \/ ~s.done /\ Opened(u, base[m], Slices[m]) /\ p.data # Slices[m]
       PROVE  Inv'
  <2>1. Arrived' = Arrived
    BY <1>12 DEF Arrived
  <2>2. DeliveredWhole' /\ ResultInv'
    BY <1>2, <1>7, <1>12, <2>1
    DEF Inv, DeliveredWhole, ResultInv, sendVars, listenVars
  <2>3. OnceInv'
    BY <1>2, <1>6, <1>7, <1>12, <2>1 DEF Inv, OnceInv, Closed
  <2>4. SessionsInv(base)'
    BY <1>1, <1>3, <1>6, <1>7, <1>12, <2>1 DEF Core, SessionsInv, Opened, Closed
  <2>5. AcksInv(base)'
    BY <1>1, <1>3, <1>6, <1>7, <1>10, <1>12, <2>1 DEF Core, AcksInv
  <2> QED
    BY <1>8, <2>2, <2>3, <2>4, <2>5 DEF Inv, Core
<1>13. ASSUME answered, delivered' = Append(delivered, whole), NEW u, keeps(u), Closed(u), ~s.done,
              t.data = [k \in 1..Slices[m] |-> k], whole \in DeliverySet
       PROVE  Inv'
  <2>1. /\ Arrived' = Arrived \cup {m} /\ whole.data = t.data /\ whole.session = m
        /\ Elems(delivered)' = Elems(delivered) \cup {whole}
    BY <1>13, ArrivedGrows
  <2>2. DeliveredWhole'
    <3>1. \A e \in Elems(delivered) : e.data = [k \in 1..Slices[e.session] |-> k]
      BY DEF Inv, DeliveredWhole, Elems
    <3>2. whole.data = [k \in 1..Slices[whole.session] |-> k]
      BY <1>13, <2>1
    <3> HIDE DEF whole
    <3>3. \A e \in Elems(delivered)' : e.data = [k \in 1..Slices[e.session] |-> k]
      BY <2>1, <3>1, <3>2
    <3> QED
      BY <3>3 DEF DeliveredWhole, Elems
  <2>3. ResultInv'
    BY <1>2, <1>7, <2>1 DEF Inv, ResultInv, sendVars, listenVars
  <2>4. OnceInv'
    BY <1>2, <1>3, <1>7, <1>13, <2>1 DEF Inv, OnceInv, Closed
  <2>5. SessionsInv(base)'
    BY <1>1, <1>3, <1>7, <1>13, <2>1 DEF Core, SessionsInv, Opened, Closed
  <2>6. AcksInv(base)'
    BY <1>1, <1>3, <1>7, <1>10, <1>13, <2>1 DEF Core, AcksInv
  <2> QED
    BY <1>8, <2>2, <2>3, <2>4, <2>5, <2>6 DEF Inv, Core
<1>14. CASE IsFirst(p) \/ ~IsRefused(s, p)
  <2>1. \/ Closed(s) /\ t = s /\ ~IsComplete(t, p)
        \/ ~s.done /\ ~IsComplete(t, p) /\ Opened(t, base[m], Slices[m]) /\ Len(t.data) = p.data
        \/ /\ ~s.done /\ IsComplete(t, p)
           /\ t.data = [k \in 1..Slices[m] |-> k] /\ Closed(WhenDelivered(t))
    BY <1>2, <1>3, <1>4, <1>5, <1>14, TakenCases DEF Needed, t
  <2>2. CASE ~IsComplete(t, p)
    <3>1. \/ Closed(t) /\ s.done
          \/ ~s.done /\ Opened(t, base[m], Slices[m]) /\ p.data # Slices[m]
      BY <1>3, <2>1, <2>2 DEF Closed, Opened, IsComplete
    <3> QED
      BY <1>9, <1>11, <1>12, <2>2, <3>1
  <2>3. CASE IsComplete(t, p)
    <3>1. whole \in DeliverySet
      BY <1>2, <1>3, <1>5, TakenTyped DEF t, DeliverySet, SessionSet
    <3> QED
      BY <1>9, <1>11, <1>13, <2>1, <2>3, <3>1
  <2> QED
    BY <2>2, <2>3
<1> QED
  BY <1>9, <1>11, <1>14
-----------------------------------------------------------------------------
(* The theorems *)

LEMMA InvStep ==
  ASSUME Needed \subseteq Repairs, TypeInv, Inv, [Next]_vars PROVE Inv'
<1>1. CASE UNCHANGED vars
  <2>1. PICK base \in [Messages -> Nat] : Core(base)
    BY DEF Inv
  <2>2. /\ Begun' = Begun /\ Over' = Over /\ Arrived' = Arrived
        /\ UNCHANGED <<sendVars, signal, matched, misused, sessions, delivered, requests, responses>>
    BY <1>1 DEF vars, sendVars, listenVars, recvVars, Begun, Over, Arrived
  <2>3. EventsAlive' /\ DeliveredWhole' /\ OnceInv' /\ ResultInv'
    BY <2>2 DEF Inv, EventsAlive, DeliveredWhole, OnceInv, ResultInv, sendVars
  <2>4. Core(base)'
    BY <2>1, <2>2 DEF Core, SenderInv, SessionsInv, AcksInv, Opened, Closed, sendVars
  <2> QED
    BY <2>3, <2>4 DEF Inv
<1> QED
  BY <1>1, BeginStep, SendStep, EndStep, WaitFailsStep, NotReadyStep, ListenerStep, RequestStep, ClearStep, FaultStep
  DEF Next, Sender, Receiver

\* With these repairs every reachable state keeps its numbers, sessions and acknowledgements in
\* step: TypeInv and Inv are inductive.
THEOREM Invariance == Needed \subseteq Repairs => (Spec => [](TypeInv /\ Inv))
<1> SUFFICES ASSUME Needed \subseteq Repairs PROVE Spec => [](TypeInv /\ Inv)
  OBVIOUS
<1>1. Init => TypeInv /\ Inv
  BY TypeInit, InvInit
<1>2. TypeInv /\ Inv /\ [Next]_vars => (TypeInv /\ Inv)'
  BY TypeStep, InvStep
<1> QED
  BY <1>1, <1>2, PTL DEF Spec

\* What is posted to the receiver's owner is a whole message, for any number and length of
\* messages, however often the network loses, repeats or delays a packet.
THEOREM MessagesAreWhole == Needed \subseteq Repairs => (Spec => []DeliveredWhole)
<1>1. Inv => DeliveredWhole
  BY DEF Inv
<1> QED
  BY Invariance, <1>1, PTL

\* The listener sets no event of a try that is over.
THEOREM EventsStayAlive == Needed \subseteq Repairs => (Spec => []EventsAlive)
<1>1. Inv => EventsAlive
  BY DEF Inv
<1> QED
  BY Invariance, <1>1, PTL
-----------------------------------------------------------------------------
(* The refinement of DirDelivery *)

\* What is delivered has not arrived before.
LEMMA ArrivesOnce ==
  ASSUME Needed \subseteq Repairs, TypeInv, Inv, RecvRequest, delivered' # delivered
  PROVE  \E e \in DeliverySet : delivered' = Append(delivered, e) /\ e.session \notin Arrived
<1>1. PICK base \in [Messages -> Nat] : Core(base)
  BY DEF Inv
<1> DEFINE p == Head(requests)
           s == Session(p)
           e == [session |-> p.session, data |-> Taken(s, p).data]
<1>2. p \in Elems(requests) /\ p \in RequestSet /\ p.data_len \in Nat \ {0}
  <2>1. p \in Elems(requests) /\ p \in RequestSet
    BY TailElems DEF RecvRequest, TypeInv, PacketsTyped
  <2> QED
    BY <1>1, <2>1, SlicesTyped DEF Core, SenderInv, RequestSet
<1>3. s \in SessionSet
  BY <1>2, EmptySeq DEF Session, NewSession, SessionSet, TypeInv, PacketsTyped
<1>4. delivered' = Append(delivered, e) /\ IsComplete(Taken(s, p), p)
  BY DEF RecvRequest, recvVars
<1>5. e \in DeliverySet
  BY <1>2, <1>3, TakenTyped DEF DeliverySet, RequestSet, SessionSet
<1>6. ASSUME p.session \in Arrived PROVE FALSE
  <2>1. p.session \in DOMAIN sessions /\ sessions[p.session].done
    BY <1>2, <1>6 DEF Inv, OnceInv
  <2>2. Closed(s)
    BY <1>1, <2>1 DEF Core, SessionsInv, Opened, Session
  <2> HIDE DEF p, s
  <2>3. Taken(s, p) = s
    BY <2>2 DEF Taken, Closed, Needed, Repaired
  <2>4. Len(s.data) = 0
    BY <2>2, EmptySeq DEF Closed
  <2> QED
    BY <1>2, <1>4, <2>3, <2>4 DEF IsComplete
<1> QED
  BY <1>4, <1>5, <1>6

\* A message that counts as sent has arrived.
LEMMA ResultsChange ==
  ASSUME Needed \subseteq Repairs, TypeInv, Inv, [Next]_vars, result' # result
  PROVE  /\ delivered' = delivered
         /\ \E m \in Messages :
              /\ result[m] = "none"
              /\ \/ result' = [result EXCEPT ![m] = "ok"] /\ m \in Arrived
                 \/ result' = [result EXCEPT ![m] = "failed"]
<1>1. SliceAcknowledged \/ TimeOut \/ ForcedStop \/ NotReady
  BY DEF Next, Sender, Receiver, BeginMessage, SendSlice, WaitFails, RecvResponse, SetEvent, RecvRequest,
         ClearSessions, NetworkFault, vars, sendVars
<1>2. delivered' = delivered /\ msg \in Messages
  BY <1>1 DEF SliceAcknowledged, TimeOut, ForcedStop, NotReady, recvVars, TypeInv, TypeOK, Sending
<1>3. result[msg] = "none"
  BY <1>2, SlicesTyped DEF Inv, ResultInv, Over
<1>4. CASE SliceAcknowledged
  <2>1. result' = [result EXCEPT ![msg] = "ok"] /\ slice = Slices[msg] /\ signal
    BY <1>4 DEF SliceAcknowledged, EndMessage, Needed, Repaired
  <2>2. msg \in Arrived
    BY <2>1 DEF Inv, ResultInv
  <2> QED
    BY <1>2, <1>3, <2>1, <2>2
<1>5. CASE TimeOut
  BY <1>2, <1>3, <1>5 DEF TimeOut, EndMessage
<1>6. CASE ForcedStop \/ NotReady
  BY <1>2, <1>3, <1>6 DEF ForcedStop, NotReady, EndMessage
<1> QED
  BY <1>1, <1>4, <1>5, <1>6

LEMMA RefinementStep ==
  ASSUME Needed \subseteq Repairs, TypeInv, Inv, [Next]_vars
  PROVE  /\ [Delivery!Next]_(Delivery!vars)
         /\ Len(delivered') > Len(delivered) =>
              delivered'[Len(delivered')].session \notin Arrived
<1>1. CASE delivered' = delivered /\ result' = result
  <2>1. Arrived' = Arrived /\ ~(Len(delivered') > Len(delivered))
    BY <1>1, LenProperties DEF Arrived, TypeInv, PacketsTyped
  <2> QED
    BY <1>1, <2>1 DEF Delivery!vars, Arrived
<1>2. CASE result' # result
  <2>1. delivered' = delivered /\ Arrived' = Arrived
    BY <1>2, ResultsChange DEF Arrived
  <2>2. ~(Len(delivered') > Len(delivered))
    BY <2>1, LenProperties DEF TypeInv, PacketsTyped
  <2>3. Delivery!Next
    BY <1>2, <2>1, ResultsChange DEF Delivery!Next, Delivery!Succeed, Delivery!Fail, Arrived
  <2> QED
    BY <2>2, <2>3
<1>3. CASE delivered' # delivered
  <2>1. RecvRequest /\ result' = result
    BY <1>3 DEF Next, Sender, Receiver, BeginMessage, SendSlice, SliceAcknowledged, TimeOut,
                WaitFails, ForcedStop, NotReady, RecvResponse, SetEvent, RecvRequest, ClearSessions, NetworkFault, vars,
                sendVars, recvVars
  <2>2. PICK e \in DeliverySet : delivered' = Append(delivered, e) /\ e.session \notin Arrived
    BY <1>3, <2>1, ArrivesOnce
  <2>3. Arrived' = Arrived \cup {e.session} /\ delivered'[Len(delivered')] = e
    BY <2>2, ArrivedGrows
  <2>4. e.session \in Messages /\ result[e.session] # "ok"
    BY <2>2 DEF DeliverySet, Inv, ResultInv
  <2>5. Delivery!Arrive(e.session)
    BY <2>1, <2>2, <2>3, <2>4 DEF Delivery!Arrive, Arrived
  <2> QED
    BY <2>2, <2>3, <2>4, <2>5 DEF Delivery!Next
<1> QED
  BY <1>1, <1>2, <1>3

\* The slices, tries and acknowledgements implement DirDelivery: a message reaches the
\* receiver's owner at most once, and one that counts as sent has reached it.
THEOREM Refinement == Needed \subseteq Repairs => (Spec => ImplementsDelivery)
<1> DEFINE New == Len(delivered') > Len(delivered) =>
                    delivered'[Len(delivered')].session \notin
                      {delivered[i].session : i \in DOMAIN delivered}
<1> SUFFICES ASSUME Needed \subseteq Repairs PROVE Spec => ImplementsDelivery
  OBVIOUS
<1>1. Init => Delivery!Init
  BY DEF Init, Delivery!Init
<1>2. TypeInv /\ Inv /\ [Next]_vars => [Delivery!Next]_(Delivery!vars) /\ New
  BY RefinementStep DEF Arrived
<1>3. Spec => [](TypeInv /\ Inv)
  BY Invariance
<1> QED
  BY <1>1, <1>2, <1>3, PTL DEF Spec, Delivery!Spec, ImplementsDelivery
-----------------------------------------------------------------------------
(* How often the network must fail before a message is given up *)

\* The tries that the network may have spoilt.
Spoilt == Used("lose") + Used("hurry")

\* The packets of message m are in the order in which they were sent.
InOrder(q, m) ==
  \A i, j \in DOMAIN q :
    i < j /\ q[i].session = m /\ q[j].session = m => q[i].id <= q[j].id

\* The receiver has all slices before the one being sent, it refuses nothing of the message
\* that is under way, and it has the slice whose acknowledgement has come.
InStep ==
  /\ InOrder(requests, msg)
  /\ \A p \in Elems(requests) : p.session = msg => p.id <= id
  /\ slice > 1 => msg \in DOMAIN sessions /\ sessions[msg].cur >= id - 1
  /\ msg \in DOMAIN sessions =>
       /\ sessions[msg].cur <= id
       /\ \A p \in Elems(requests) : p.session = msg => sessions[msg].cur <= p.id
       /\ sessions[msg].done => sessions[msg].cur + slice = id + Slices[msg]
  /\ \A r \in Elems(responses) :
       r.session = msg => msg \in DOMAIN sessions /\ r.id <= sessions[msg].cur
  /\ matched \/ signal => msg \in DOMAIN sessions /\ sessions[msg].cur = id

\* Each try that is over was spoilt, and so is the one of which nothing is under way.
Counted ==
  /\ Spoilt >= sentTimes
  /\ pc = "wait" /\ ~UnderWay => Spoilt >= sentTimes + 1

\* The faults after which a message may be given up for another reason.
NoOther == Used("repeat") = 0 /\ Used("unready") = 0

RetriesInv ==
  NoOther =>
    /\ pc # "idle" => pc # "forced" /\ InStep /\ Counted
    /\ \A m \in Messages : result[m] = "failed" => Spoilt >= RetryCount

LEMMA HeadElems ==
  ASSUME NEW S, NEW q \in Seq(S), q # <<>>
  PROVE  Elems(q) = {Head(q)} \cup Elems(Tail(q))
<1>1. /\ Len(q) \in Nat \ {0} /\ DOMAIN q = 1..Len(q) /\ Head(q) = q[1]
      /\ Tail(q) \in Seq(S) /\ Len(Tail(q)) = Len(q) - 1
      /\ \A i \in 1..Len(Tail(q)) : Tail(q)[i] = q[i + 1]
  BY EmptySeq, HeadTailProperties, LenProperties
<1>2. DOMAIN Tail(q) = 1..(Len(q) - 1)
  BY <1>1, LenProperties
<1>3. \A i \in DOMAIN q : i = 1 \/ (i - 1 \in DOMAIN Tail(q) /\ Tail(q)[i - 1] = q[i])
  BY <1>1, <1>2
<1>4. \A i \in DOMAIN Tail(q) : i + 1 \in DOMAIN q /\ Tail(q)[i] = q[i + 1]
  BY <1>1, <1>2
<1>5. \A x \in Elems(q) : x = Head(q) \/ x \in Elems(Tail(q))
  BY <1>1, <1>3 DEF Elems
<1>6. Head(q) \in Elems(q) /\ \A x \in Elems(Tail(q)) : x \in Elems(q)
  BY <1>1, <1>4 DEF Elems
<1> QED
  BY <1>5, <1>6

LEMMA OrderTail ==
  ASSUME NEW S, NEW q \in Seq(S), q # <<>>, NEW m, InOrder(q, m)
  PROVE  /\ InOrder(Tail(q), m)
         /\ Head(q).session = m =>
              \A p \in Elems(Tail(q)) : p.session = m => Head(q).id <= p.id
<1>1. /\ Len(q) \in Nat \ {0} /\ DOMAIN q = 1..Len(q) /\ Head(q) = q[1]
      /\ Tail(q) \in Seq(S) /\ Len(Tail(q)) = Len(q) - 1
      /\ \A i \in 1..Len(Tail(q)) : Tail(q)[i] = q[i + 1]
  BY EmptySeq, HeadTailProperties, LenProperties
<1>2. DOMAIN Tail(q) = 1..(Len(q) - 1)
  BY <1>1, LenProperties
<1>3. \A i \in DOMAIN Tail(q) :
        i \in Int /\ i + 1 \in DOMAIN q /\ 1 < i + 1 /\ Tail(q)[i] = q[i + 1]
  BY <1>1, <1>2
<1>4. 1 \in DOMAIN q
  BY <1>1
<1>5. InOrder(Tail(q), m)
  BY <1>3 DEF InOrder
<1>6. Head(q).session = m => \A i \in DOMAIN Tail(q) : Tail(q)[i].session = m =>
                                Head(q).id <= Tail(q)[i].id
  BY <1>1, <1>3, <1>4 DEF InOrder
<1> QED
  BY <1>5, <1>6 DEF Elems

LEMMA OrderAppend ==
  ASSUME NEW S, NEW q \in Seq(S), NEW e \in S, NEW m, InOrder(q, m),
         \A p \in Elems(q) : p.session = m => p.id <= e.id
  PROVE  InOrder(Append(q, e), m)
<1>1. /\ Len(q) \in Nat /\ DOMAIN q = 1..Len(q) /\ Append(q, e) \in Seq(S)
      /\ DOMAIN Append(q, e) = 1..(Len(q) + 1)
      /\ \A i \in 1..Len(q) : Append(q, e)[i] = q[i]
      /\ Append(q, e)[Len(q) + 1] = e
  BY AppendProperties, LenProperties
<1> SUFFICES ASSUME NEW i \in DOMAIN Append(q, e), NEW j \in DOMAIN Append(q, e), i < j,
                    Append(q, e)[i].session = m, Append(q, e)[j].session = m
             PROVE  Append(q, e)[i].id <= Append(q, e)[j].id
  BY DEF InOrder
<1>2. i \in DOMAIN q /\ Append(q, e)[i] = q[i]
  BY <1>1
<1>3. CASE j = Len(q) + 1
  BY <1>1, <1>2, <1>3 DEF Elems
<1>4. CASE j # Len(q) + 1
  <2>1. j \in DOMAIN q /\ Append(q, e)[j] = q[j]
    BY <1>1, <1>4
  <2> QED
    BY <1>2, <2>1 DEF InOrder
<1> QED
  BY <1>3, <1>4

\* What of the try is under way, without the places in the queues.
LEMMA UnderWayElems ==
  UnderWay <=> \/ \E p \in Elems(requests) : p.id = id /\ p.session = msg
               \/ \E r \in Elems(responses) : r.id = id /\ r.session = msg
               \/ signal \/ matched
  BY DEF UnderWay, Elems

LEMMA SpoiltTyped ==
  ASSUME TypeInv
  PROVE  Used("lose") \in Nat /\ Used("repeat") \in Nat /\ Used("hurry") \in Nat
         /\ Used("unready") \in Nat /\ Spoilt \in Nat
  BY ConstantsAssumption DEF TypeInv, TypeOK, Used, Spoilt, Kinds

LEMMA NumbersTyped ==
  ASSUME TypeInv
  PROVE  /\ \A p \in Elems(requests) : p.id \in Nat
         /\ \A r \in Elems(responses) : r.id \in Nat
         /\ \A m \in DOMAIN sessions : sessions[m].cur \in Nat
<1>1. /\ requests \in Seq(RequestSet) /\ responses \in Seq(ResponseSet)
      /\ sessions \in [DOMAIN sessions -> SessionSet]
  BY DEF TypeInv, PacketsTyped
<1>2. \A p \in RequestSet : p.id \in Nat
  BY DEF RequestSet
<1>3. \A r \in ResponseSet : r.id \in Nat
  BY DEF ResponseSet
<1>4. \A s \in SessionSet : s.cur \in Nat
  BY DEF SessionSet
<1>5. requests \in [1..Len(requests) -> RequestSet]
      /\ responses \in [1..Len(responses) -> ResponseSet]
  BY <1>1, LenProperties
<1> QED
  BY <1>1, <1>2, <1>3, <1>4, <1>5 DEF Elems

\* Faults only grow in number.
LEMMA FaultsGrow ==
  ASSUME TypeInv, NEW kind, Fault(kind), NoOther'
  PROVE  NoOther /\ kind \in {"lose", "hurry"} /\ Spoilt' = Spoilt + 1
<1>1. kind \in Kinds /\ faults' = [faults EXCEPT ![kind] = @ + 1]
  BY ConstantsAssumption DEF Fault
<1>2. DOMAIN faults = Kinds /\ \A k \in Kinds : faults[k] \in Nat
  BY ConstantsAssumption DEF TypeInv, TypeOK
<1>3. faults'[kind] = faults[kind] + 1 /\ \A k \in Kinds : k # kind => faults'[k] = faults[k]
  BY <1>1, <1>2
<1>4. kind # "repeat" /\ kind # "unready"
  BY <1>2, <1>3 DEF NoOther, Used, Kinds
<1> QED
  BY <1>1, <1>2, <1>3, <1>4 DEF NoOther, Used, Spoilt, Kinds

LEMMA RetriesInit == TypeInv /\ Init => RetriesInv
  BY DEF Init, RetriesInv

\* Nothing of a new message is under way, and the receiver has no session of it.
LEMMA RetriesBegin ==
  ASSUME TypeInv, Inv, RetriesInv, BeginMessage PROVE RetriesInv'
<1>1. PICK base \in [Messages -> Nat] : Core(base)
  BY DEF Inv
<1>2. /\ msg \in Messages /\ pc = "idle" /\ pc' = "send" /\ sentTimes' = 0
      /\ slice' = 1 /\ id' = bindId /\ ~signal /\ ~matched
      /\ UNCHANGED <<msg, result, matched, signal, sessions, requests, responses, faults>>
  BY DEF BeginMessage, TypeInv, TypeOK, Inv, ResultInv, recvVars, listenVars
<1>3. msg \notin Begun
  BY <1>2, SlicesTyped DEF Begun
<1>4. /\ \A p \in Elems(requests) : p.session # msg
      /\ \A r \in Elems(responses) : r.session # msg
      /\ msg \notin DOMAIN sessions
  BY <1>1, <1>3 DEF Core, SenderInv, SessionsInv, AcksInv
<1>5. InOrder(requests, msg)
  BY <1>4 DEF InOrder, Elems
<1>6. InStep'
  BY <1>2, <1>4, <1>5 DEF InStep, InOrder, Elems
<1>7. Spoilt' = Spoilt /\ Spoilt \in Nat
  BY <1>2, SpoiltTyped DEF Spoilt, Used
<1>8. Counted'
  BY <1>2, <1>7 DEF Counted
<1> QED
  BY <1>2, <1>6, <1>7, <1>8 DEF RetriesInv, NoOther, Used

LEMMA RetriesSend ==
  ASSUME TypeInv, Inv, RetriesInv, SendSlice PROVE RetriesInv'
<1> SUFFICES ASSUME NoOther'
             PROVE  /\ pc' # "forced" /\ InStep' /\ Counted'
                    /\ \A m \in Messages : result'[m] = "failed" => Spoilt' >= RetryCount
  BY DEF RetriesInv
<1>1. /\ msg \in Messages /\ pc = "send" /\ pc' = "wait" /\ slice \in 1..Slices[msg]
      /\ ~signal /\ requests' = Append(requests, Request) /\ signal' = FALSE
      /\ UNCHANGED <<msg, slice, id, sentTimes, result, matched, sessions, responses, faults>>
  BY DEF SendSlice, TypeInv, TypeOK, Sending, recvVars
<1>2. /\ InStep /\ Counted
      /\ \A m \in Messages : result[m] = "failed" => Spoilt >= RetryCount
  BY <1>1 DEF RetriesInv, NoOther, Used
<1>3. /\ Request \in RequestSet /\ requests \in Seq(RequestSet)
      /\ Request.session = msg /\ Request.id = id /\ id \in Nat
  BY <1>1, SlicesTyped
  DEF TypeInv, TypeOK, PacketsTyped, Request, RequestSet, SliceType, Types
<1>4. Elems(requests') = Elems(requests) \cup {Request}
  BY <1>1, <1>3, AppendElems
<1>5. InOrder(requests', msg)
  BY <1>1, <1>2, <1>3, OrderAppend DEF InStep
<1>6. Elems(responses') = Elems(responses) /\ Spoilt' = Spoilt
  BY <1>1 DEF Spoilt, Used
<1> HIDE DEF Request
<1>7. InStep'
  BY <1>1, <1>2, <1>3, <1>4, <1>5, <1>6 DEF InStep
<1>8. Counted'
  <2>1. \E p \in Elems(requests') : p.id = id' /\ p.session = msg'
    BY <1>1, <1>3, <1>4
  <2>2. UnderWay'
    BY <2>1 DEF UnderWay, Elems
  <2> QED
    BY <1>1, <1>2, <1>6, <2>2 DEF Counted
<1> QED
  BY <1>1, <1>2, <1>6, <1>7, <1>8

\* With the acknowledgement the receiver has the slice; without it the try was spoilt.
LEMMA RetriesEnd ==
  ASSUME Defects \subseteq Repairs, TypeInv, Inv, RetriesInv, SliceAcknowledged \/ TimeOut
  PROVE  RetriesInv'
<1> SUFFICES ASSUME NoOther'
             PROVE  /\ pc' # "idle" => pc' # "forced" /\ InStep' /\ Counted'
                    /\ \A m \in Messages : result'[m] = "failed" => Spoilt' >= RetryCount
  BY DEF RetriesInv
<1>1. Repaired("Event") /\ Repaired("TimedWait")
  BY DEF Defects, Repaired
<1>2. /\ msg \in Messages /\ pc = "wait" /\ slice \in 1..Slices[msg] /\ ~matched
      /\ matched' = FALSE /\ signal' = FALSE
      /\ UNCHANGED <<sessions, requests, responses>>
      /\ slice \in Nat /\ id \in Nat /\ sentTimes \in Nat
      /\ Slices[msg] \in Nat
      /\ result \in [Messages -> {"none", "ok", "failed"}]
  BY <1>1, SlicesTyped
  DEF SliceAcknowledged, TimeOut, EndTry, TypeInv, TypeOK, Sending, recvVars
<1>3. NoOther /\ Spoilt' \in Nat /\ Spoilt \in Nat /\ Spoilt' >= Spoilt
      /\ (TimeOut => Spoilt' >= sentTimes + 1)
  <2>1. NoOther => Counted
    BY <1>2 DEF RetriesInv
  <2>2. CASE UNCHANGED faults /\ (TimeOut => ~UnderWay)
    <3>1. Spoilt' = Spoilt /\ NoOther
      BY <2>2 DEF Spoilt, NoOther, Used
    <3> QED
      BY <1>2, <2>1, <2>2, <3>1, SpoiltTyped DEF Counted
  <2>3. CASE Fault("hurry")
    <3>1. Spoilt' = Spoilt + 1 /\ NoOther
      BY <2>3, FaultsGrow
    <3> QED
      BY <1>2, <2>1, <3>1, SpoiltTyped DEF Counted
  <2>4. CASE SliceAcknowledged /\ ~TimeOut
    BY <2>2, <2>4 DEF SliceAcknowledged
  <2>5. CASE TimeOut
    BY <2>2, <2>3, <2>5 DEF TimeOut
  <2> QED
    BY <2>4, <2>5
<1>4. /\ InStep /\ Counted
      /\ \A m \in Messages : result[m] = "failed" => Spoilt >= RetryCount
  BY <1>2, <1>3 DEF RetriesInv
<1>5. Elems(requests)' = Elems(requests) /\ Elems(responses)' = Elems(responses)
  BY <1>2
\* The session is as it was, and the slice the same or the next.
<1>6. ASSUME msg' = msg, \/ slice' = slice /\ id' = id
                         \/ slice' = slice + 1 /\ id' = id + 1 /\ signal
      PROVE  InStep'
  <2>1. /\ msg \in DOMAIN sessions => sessions[msg].cur \in Nat
        /\ \A p \in Elems(requests) : p.id \in Nat
    BY NumbersTyped
  <2>2. InOrder(requests', msg')
    BY <1>2, <1>4, <1>6 DEF InStep
  <2>3. \A p \in Elems(requests') : p.session = msg' => p.id <= id'
    BY <1>2, <1>4, <1>6, <2>1 DEF InStep
  <2>4. slice' > 1 => msg' \in DOMAIN sessions' /\ sessions'[msg'].cur >= id' - 1
    BY <1>2, <1>4, <1>6, <2>1 DEF InStep
  <2>5. msg' \in DOMAIN sessions' =>
          /\ sessions'[msg'].cur <= id'
          /\ sessions'[msg'].done => sessions'[msg'].cur + slice' = id' + Slices[msg']
    BY <1>2, <1>4, <1>6, <2>1 DEF InStep
  <2> QED
    BY <1>2, <1>4, <1>5, <1>6, <2>2, <2>3, <2>4, <2>5 DEF InStep
<1>7. CASE SliceAcknowledged
  <2>1. /\ signal /\ sentTimes' = 0 /\ id' = id + 1 /\ slice' = slice + 1
        /\ IF slice = Slices[msg] THEN EndMessage("ok")
           ELSE pc' = "send" /\ UNCHANGED <<msg, bindId, result>>
    BY <1>1, <1>7 DEF SliceAcknowledged
  <2>2. CASE slice = Slices[msg]
    BY <1>2, <1>3, <1>4, <2>1, <2>2, ConstantsAssumption DEF EndMessage
  <2>3. CASE slice # Slices[msg]
    <3>1. InStep'
      BY <1>6, <2>1, <2>3
    <3>2. Counted'
      BY <1>3, <2>1, <2>3 DEF Counted
    <3> QED
      BY <1>3, <1>4, <2>1, <2>3, <3>1, <3>2, ConstantsAssumption
  <2> QED
    BY <2>2, <2>3
<1>8. CASE TimeOut
  <2>1. /\ sentTimes' = sentTimes + 1 /\ UNCHANGED <<slice, id>>
        /\ IF GivesUp THEN EndMessage("failed")
           ELSE pc' = "send" /\ UNCHANGED <<msg, bindId, result>>
    BY <1>8 DEF TimeOut
  <2>2. CASE GivesUp
    <3>1. Spoilt' >= RetryCount /\ pc' = "idle"
      BY <1>3, <1>8, <2>1, <2>2 DEF GivesUp, EndMessage
    <3> QED
      BY <3>1
  <2>3. CASE ~GivesUp
    <3>1. InStep'
      BY <1>6, <2>1, <2>3
    <3>2. Counted'
      BY <1>3, <1>8, <2>1, <2>3 DEF Counted
    <3> QED
      BY <1>3, <1>4, <2>1, <2>3, <3>1, <3>2, ConstantsAssumption
  <2> QED
    BY <2>2, <2>3
<1> QED
  BY <1>7, <1>8

LEMMA RetriesListen ==
  ASSUME Defects \subseteq Repairs, TypeInv, Inv, RetriesInv, RecvResponse \/ SetEvent
  PROVE  RetriesInv'
<1> SUFFICES ASSUME NoOther
             PROVE  /\ pc # "idle" => pc # "forced" /\ InStep' /\ Counted'
                    /\ \A m \in Messages : result'[m] = "failed" => Spoilt' >= RetryCount
  BY DEF RetriesInv, RecvResponse, SetEvent, NoOther, Used, sendVars
<1>1. /\ UNCHANGED <<msg, pc, slice, sentTimes, id, listen, awaited, result>>
      /\ UNCHANGED <<sessions, requests, faults>>
  BY DEF RecvResponse, SetEvent, sendVars, recvVars
<1>2. Spoilt' = Spoilt /\ Elems(requests') = Elems(requests)
  BY <1>1 DEF Spoilt, Used
<1>3. \A m \in Messages : result'[m] = "failed" => Spoilt' >= RetryCount
  BY <1>1, <1>2 DEF RetriesInv
<1> SUFFICES ASSUME pc # "idle" PROVE InStep' /\ Counted'
  BY <1>3 DEF RetriesInv
<1>4. InStep /\ Counted
  BY DEF RetriesInv
<1>5. pc = "wait" => /\ listen /\ awaited = [id |-> id, session |-> msg]
                     /\ awaited.id = id /\ awaited.session = msg
  <2>1. pc = "wait" => awaited = [id |-> id, session |-> msg]
    BY DEF Inv, Core, SenderInv
  <2>2. pc = "wait" => listen
    BY DEF TypeInv, TypeOK
  <2> QED
    BY <2>1, <2>2
<1>6. \A r \in Elems(responses') : r \in Elems(responses)
  BY TailElems DEF RecvResponse, SetEvent, TypeInv, PacketsTyped
<1>7. UnderWay' <=> \/ \E p \in Elems(requests') : p.id = id' /\ p.session = msg'
                    \/ \E r \in Elems(responses') : r.id = id' /\ r.session = msg'
                    \/ signal' \/ matched'
  BY DEF UnderWay, Elems
<1>8. CASE RecvResponse
  <2> DEFINE r == Head(responses)
  <2>1. /\ r \in Elems(responses) /\ matched' = IsAwaited(r) /\ ~matched /\ UNCHANGED signal
        /\ \A q \in Elems(responses) : q = r \/ q \in Elems(responses')
    BY <1>8, TailElems, HeadElems DEF RecvResponse, TypeInv, PacketsTyped
  <2> HIDE DEF r
  <2>2. IsAwaited(r) => pc = "wait" /\ r.id = id /\ r.session = msg
    <3>1. listen => pc = "wait"
      BY DEF TypeInv, TypeOK, RetriesInv
    <3> QED
      BY <1>5, <3>1 DEF IsAwaited
  <2>3. IsAwaited(r) => msg \in DOMAIN sessions /\ sessions[msg].cur = id
    <3>1. IsAwaited(r) => /\ msg \in DOMAIN sessions
                          /\ id <= sessions[msg].cur /\ sessions[msg].cur <= id
      BY <1>4, <2>1, <2>2 DEF InStep
    <3>2. id \in Nat /\ \A m \in DOMAIN sessions : sessions[m].cur \in Nat
      BY NumbersTyped DEF TypeInv, TypeOK
    <3> QED
      BY <3>1, <3>2
  <2>4. InStep'
    BY <1>1, <1>2, <1>4, <1>6, <2>1, <2>3 DEF InStep
  <2>5. Counted'
    <3>1. pc = "wait" /\ r.id = id /\ r.session = msg => IsAwaited(r)
      BY <1>5 DEF IsAwaited, ResponseFits, Defects
    <3>2. pc = "wait" /\ UnderWay => UnderWay'
      BY <1>1, <1>2, <1>7, <2>1, <3>1, UnderWayElems
    <3> QED
      BY <1>1, <1>2, <1>4, <3>2 DEF Counted
  <2> QED
    BY <2>4, <2>5
<1>9. CASE SetEvent
  <2>1. matched /\ matched' = FALSE /\ signal' = listen /\ responses' = responses
    BY <1>9 DEF SetEvent
  <2>2. InStep'
    BY <1>1, <1>2, <1>4, <2>1 DEF InStep
  <2>3. Counted'
    BY <1>1, <1>2, <1>4, <1>5, <1>7, <2>1 DEF Counted
  <2> QED
    BY <2>2, <2>3
<1> QED
  BY <1>8, <1>9

\* A request of the message that comes in is taken and acknowledged.
LEMMA RequestTaken ==
  ASSUME Defects \subseteq Repairs, TypeInv, Inv, InStep, pc # "idle", RecvRequest,
         Head(requests).session = msg
  PROVE  LET p == Head(requests) IN
         /\ responses' = Append(responses, [session |-> msg, id |-> p.id])
         /\ msg \in DOMAIN sessions' /\ sessions'[msg].cur = p.id
         /\ sessions'[msg].done => p.data = Slices[msg]
<1>1. PICK base \in [Messages -> Nat] : Core(base)
  BY DEF Inv
<1> DEFINE p == Head(requests)
           s == Session(p)
           t == Taken(s, p)
<1>2. /\ p \in Elems(requests) /\ p \in RequestSet /\ p.session = msg /\ msg \in Messages
      /\ \A x \in Repairs : Repaired(x)
  <2>1. p \in Elems(requests) /\ p \in RequestSet
    BY TailElems DEF RecvRequest, TypeInv, PacketsTyped
  <2> QED
    BY <2>1 DEF RequestSet, Repaired
<1>3. /\ p.data \in 1..Slices[msg] /\ p.id = base[msg] + p.data
      /\ p.type = SliceType(msg, p.data) /\ p.data_len = Slices[msg]
      /\ Slices[msg] \in Nat \ {0} /\ base[msg] \in Nat
      /\ id = base[msg] + slice /\ slice \in 1..Slices[msg] /\ p.id <= id
  BY <1>1, <1>2, SlicesTyped DEF Core, SenderInv, InStep, TypeInv, Sending
<1>4. IsFirst(p) <=> p.data = 1
  BY <1>3 DEF IsFirst, SliceType
<1>5. s \in SessionSet /\ (msg \in DOMAIN sessions => s = sessions[msg])
      /\ (msg \notin DOMAIN sessions => s = NewSession)
  BY <1>2, EmptySeq DEF Session, NewSession, SessionSet, TypeInv, PacketsTyped
<1>6. /\ msg \in DOMAIN sessions =>
           /\ Opened(s, base[msg], Slices[msg]) \/ Closed(s)
           /\ s.cur <= p.id /\ (s.done => s.cur = base[msg] + Slices[msg])
      /\ slice > 1 => msg \in DOMAIN sessions /\ s.cur >= id - 1
  <2>1. s.cur \in Nat
    BY <1>5 DEF SessionSet
  <2> QED
    BY <1>1, <1>2, <1>3, <1>5, <2>1 DEF InStep, Core, SessionsInv
<1>7. s.cur \in Nat /\ Len(s.data) \in Nat
  BY <1>5, LenProperties DEF SessionSet
<1> HIDE DEF p, s, t
\* It is not refused.
<1>8. ASSUME ~IsFirst(p) PROVE ~IsRefused(s, p)
  <2>1. slice > 1 /\ p.id > 1
    BY <1>3, <1>4, <1>8
  <2>2. s.cur = p.id - 1 \/ s.cur = p.id
    BY <1>3, <1>6, <1>7, <2>1
  <2>3. ~IsRefused(s, p)
    <3>1. CASE s.cur = p.id
      BY <1>3, <3>1 DEF IsRefused, Repaired, Defects
    <3>2. CASE s.cur = p.id - 1
      <4>1. ~s.done
        <5>1. s.cur # base[msg] + Slices[msg]
          BY <1>3, <3>2
        <5> QED
          BY <1>6, <2>1, <5>1
      <4>2. s.open /\ s.cur = base[msg] + Len(s.data)
        BY <1>6, <2>1, <4>1 DEF Opened, Closed
      <4>3. Len(s.data) = p.data - 1
        BY <1>3, <1>7, <3>2, <4>2
      <4>4. p.type = "MULTI_END" => Len(s.data) + 1 = p.data_len
        BY <1>3, <4>3 DEF SliceType
      <4> QED
        BY <1>3, <1>7, <3>2, <4>4 DEF IsRefused
    <3> QED
      BY <2>2, <3>1, <3>2
  <2> QED
    BY <2>3
<1>9. IsFirst(p) \/ ~IsRefused(s, p)
  BY <1>8
<1>10. /\ responses' = Append(responses, [session |-> msg, id |-> p.id])
       /\ \/ IsComplete(t, p) /\ Keep(p, WhenDelivered(t))
          \/ ~IsComplete(t, p) /\ Keep(p, t)
  <2>1. ~(p.id = 1 /\ p.type \in {"MULTI_MIDDLE", "MULTI_END"})
    BY <1>3 DEF SliceType
  <2>2. RequestFits
    BY DEF RequestFits, Defects
  <2> QED
    BY <1>2, <1>9, <2>1, <2>2 DEF RecvRequest, p, s, t
<1>11. /\ t.cur = p.id
       /\ t.done \/ IsComplete(t, p) => p.data = Slices[msg]
  <2>1. \/ Closed(s) /\ t = s /\ ~IsComplete(s, p)
        \/ /\ ~s.done /\ ~IsComplete(t, p)
           /\ Opened(t, base[msg], Slices[msg]) /\ Len(t.data) = p.data
        \/ ~s.done /\ IsComplete(t, p) /\ p.data = Slices[msg]
    <3>1. Opened(s, base[msg], Slices[msg]) \/ Closed(s) \/ s = NewSession
      BY <1>5, <1>6
    <3>2. "Redeliver" \in Repairs
      BY DEF Defects
    <3>3. /\ p \in RequestSet /\ s \in SessionSet /\ base[msg] \in Nat
          /\ Slices[msg] \in Nat \ {0} /\ p.data \in 1..Slices[msg]
          /\ p.id = base[msg] + p.data /\ p.data_len = Slices[msg]
      BY <1>2, <1>3, <1>5
    <3>4. \/ Closed(s) /\ Taken(s, p) = s /\ ~IsComplete(s, p)
          \/ /\ ~s.done /\ ~IsComplete(Taken(s, p), p)
             /\ Opened(Taken(s, p), base[msg], Slices[msg]) /\ Len(Taken(s, p).data) = p.data
          \/ /\ ~s.done /\ IsComplete(Taken(s, p), p)
             /\ Taken(s, p).data = [k \in 1..Slices[msg] |-> k]
             /\ Closed(WhenDelivered(Taken(s, p)))
             /\ p.data = Slices[msg]
      BY <1>4, <1>9, <3>1, <3>2, <3>3, TakenCases
    <3> QED
      BY <3>4 DEF t
  <2>2. CASE Closed(s) /\ t = s /\ ~IsComplete(s, p)
    <3>1. s.done /\ msg \in DOMAIN sessions
      BY <1>5, <2>2 DEF Closed, NewSession
    <3>2. s.cur = base[msg] + Slices[msg] /\ s.cur <= p.id
      BY <1>6, <3>1
    <3> QED
      BY <1>3, <2>2, <3>2
  <2>3. CASE Opened(t, base[msg], Slices[msg]) /\ Len(t.data) = p.data /\ ~IsComplete(t, p)
    BY <1>3, <2>3 DEF Opened
  <2>4. CASE ~s.done /\ IsComplete(t, p) /\ p.data = Slices[msg]
    <3>1. t # s
      <4>1. Len(s.data) # Slices[msg]
        <5>1. CASE msg \in DOMAIN sessions
          BY <1>3, <1>6, <2>4, <5>1 DEF Opened, Closed
        <5>2. CASE msg \notin DOMAIN sessions
          BY <1>3, <1>5, <5>2, EmptySeq DEF NewSession
        <5> QED
          BY <5>1, <5>2
      <4> QED
        BY <1>3, <2>4, <4>1 DEF IsComplete
    <3>2. \/ t = [s EXCEPT !.data = <<p.data>>, !.open = TRUE, !.cur = p.id]
          \/ t = [s EXCEPT !.data = Append(@, p.data), !.cur = p.id]
      BY <2>4, <3>1 DEF t, Taken
    <3>3. t.cur = p.id
      BY <1>5, <3>2 DEF SessionSet
    <3> QED
      BY <2>4, <3>3
  <2> QED
    BY <2>1, <2>2, <2>3, <2>4
<1>12. t \in SessionSet
  BY <1>2, <1>5, TakenTyped DEF t
<1>13. ASSUME NEW u, Keep(p, u) PROVE msg \in DOMAIN sessions' /\ sessions'[msg] = u
  BY <1>2, <1>13 DEF Keep, Repaired, Defects
<1>14. CASE IsComplete(t, p)
  <2>1. WhenDelivered(t).cur = t.cur
    BY <1>12 DEF WhenDelivered, SessionSet
  <2> QED
    BY <1>10, <1>11, <1>13, <1>14, <2>1 DEF p
<1>15. CASE ~IsComplete(t, p)
  BY <1>10, <1>11, <1>13, <1>15 DEF p
<1> QED
  BY <1>14, <1>15

LEMMA RetriesReceive ==
  ASSUME Defects \subseteq Repairs, TypeInv, Inv, RetriesInv, RecvRequest
  PROVE  RetriesInv'
<1> DEFINE p == Head(requests)
           response == [session |-> p.session, id |-> p.id]
<1>1. UNCHANGED <<msg, pc, slice, sentTimes, id, result, signal, matched, faults>>
  BY DEF RecvRequest, sendVars, listenVars
<1> SUFFICES ASSUME NoOther
             PROVE  /\ pc # "idle" => pc # "forced" /\ InStep' /\ Counted'
                    /\ \A m \in Messages : result'[m] = "failed" => Spoilt' >= RetryCount
  BY <1>1 DEF RetriesInv, NoOther, Used
<1>2. Spoilt' = Spoilt
  BY <1>1 DEF Spoilt, Used
<1>3. \A m \in Messages : result'[m] = "failed" => Spoilt' >= RetryCount
  BY <1>1, <1>2 DEF RetriesInv
<1> SUFFICES ASSUME pc # "idle" PROVE InStep' /\ Counted'
  BY <1>3 DEF RetriesInv
<1>4. InStep /\ Counted
  BY DEF RetriesInv
<1>5. /\ requests # <<>> /\ requests' = Tail(requests) /\ requests \in Seq(RequestSet)
      /\ responses \in Seq(ResponseSet) /\ p \in RequestSet
      /\ Elems(requests) = {p} \cup Elems(requests')
  BY TailElems, HeadElems DEF RecvRequest, TypeInv, PacketsTyped
<1>6. /\ InOrder(requests', msg)
      /\ p.session = msg => \A q \in Elems(requests') : q.session = msg => p.id <= q.id
  BY <1>4, <1>5, OrderTail DEF InStep
<1>7. response \in ResponseSet /\ response.session = p.session /\ response.id = p.id
  BY <1>5 DEF RequestSet, ResponseSet
<1>8. \/ responses' = responses /\ sessions' = sessions
      \/ /\ responses' = Append(responses, response)
         /\ \A m \in Messages \ {p.session} :
              /\ m \in DOMAIN sessions' <=> m \in DOMAIN sessions
              /\ m \in DOMAIN sessions => sessions'[m] = sessions[m]
  BY DEF RecvRequest, Keep, recvVars, Repaired, Defects
<1>9. responses' = Append(responses, response) =>
        Elems(responses') = Elems(responses) \cup {response}
  <2> HIDE DEF response
  <2>1. \A e \in ResponseSet : Elems(Append(responses, e)) = Elems(responses) \cup {e}
    BY <1>5, AppendElems
  <2> QED
    BY <1>7, <2>1
<1>10. msg \in Messages /\ id \in Nat /\ \A q \in Elems(requests) : q.id \in Nat
  BY NumbersTyped DEF TypeInv, TypeOK, Sending
<1>11. /\ \A r \in Elems(responses) : r.id \in Nat
       /\ \A m \in DOMAIN sessions : sessions[m].cur \in Nat
  BY NumbersTyped
<1>12. UnderWay' <=> \/ \E q \in Elems(requests') : q.id = id' /\ q.session = msg'
                     \/ \E r \in Elems(responses') : r.id = id' /\ r.session = msg'
                     \/ signal' \/ matched'
  BY DEF UnderWay, Elems
<1>13. CASE p.session = msg
  <2>1. /\ responses' = Append(responses, response)
        /\ msg \in DOMAIN sessions' /\ sessions'[msg].cur = p.id
        /\ sessions'[msg].done => p.data = Slices[msg]
    BY <1>4, <1>13, RequestTaken
  <2>2. p.data = Slices[msg] => p.id + slice = id + Slices[msg]
    <3>1. PICK base \in [Messages -> Nat] : Core(base)
      BY DEF Inv
    <3>2. p.id = base[msg] + p.data /\ id = base[msg] + slice
      BY <1>5, <1>13, <3>1 DEF Core, SenderInv
    <3>3. base[msg] \in Nat /\ slice \in Nat /\ Slices[msg] \in Nat
      BY <1>10, SlicesTyped DEF TypeInv, TypeOK
    <3> QED
      BY <3>2, <3>3
  <2> HIDE DEF p, response
  <2>3. /\ p.id <= id /\ p.id \in Nat
        /\ \A q \in Elems(requests') : q.session = msg => q.id <= id
    BY <1>4, <1>5, <1>10, <1>13 DEF InStep
  <2>4. \A r \in Elems(responses) : r.session = msg => r.id <= p.id
    BY <1>4, <1>5, <1>10, <1>11, <1>13, <2>3 DEF InStep
  <2>5. slice > 1 => p.id >= id - 1
    BY <1>4, <1>5, <1>10, <1>11, <1>13, <2>3 DEF InStep
  <2>6. matched \/ signal => p.id = id
    BY <1>4, <1>5, <1>10, <1>13, <2>3 DEF InStep
  <2>7. InStep'
    BY <1>1, <1>6, <1>7, <1>9, <1>13, <2>1, <2>2, <2>3, <2>4, <2>5, <2>6 DEF InStep
  <2>8. UnderWay => UnderWay'
    BY <1>1, <1>5, <1>7, <1>9, <1>12, <1>13, <2>1, UnderWayElems
  <2> QED
    BY <1>1, <1>2, <1>4, <2>7, <2>8 DEF Counted
<1>14. CASE p.session # msg
  <2> HIDE DEF p, response
  <2>1. /\ msg \in DOMAIN sessions' <=> msg \in DOMAIN sessions
        /\ msg \in DOMAIN sessions => sessions'[msg] = sessions[msg]
    BY <1>8, <1>10, <1>14
  <2>2. /\ Elems(responses) \subseteq Elems(responses')
        /\ \A r \in Elems(responses') : r.session = msg => r \in Elems(responses)
    BY <1>7, <1>8, <1>9, <1>14
  <2>3. InStep'
    BY <1>1, <1>4, <1>5, <1>6, <2>1, <2>2 DEF InStep
  <2>4. UnderWay => UnderWay'
    BY <1>1, <1>5, <1>12, <1>14, <2>2, UnderWayElems
  <2> QED
    BY <1>1, <1>2, <1>4, <2>3, <2>4 DEF Counted
<1> QED
  BY <1>13, <1>14

LEMMA RetriesClear ==
  ASSUME TypeInv, RetriesInv, ClearSessions PROVE RetriesInv'
<1>1. /\ pc # "idle" => /\ msg \in DOMAIN sessions' <=> msg \in DOMAIN sessions
                        /\ msg \in DOMAIN sessions => sessions'[msg] = sessions[msg]
      /\ UNCHANGED <<sendVars, listenVars, requests, responses, faults>>
  BY DEF ClearSessions
<1>2. UNCHANGED <<msg, pc, slice, sentTimes, id, result, signal, matched>>
      /\ Elems(requests') = Elems(requests) /\ Elems(responses') = Elems(responses)
  BY <1>1 DEF sendVars, listenVars
<1>3. Spoilt' = Spoilt /\ (NoOther' <=> NoOther)
  BY <1>1 DEF Spoilt, NoOther, Used
<1>4. pc # "idle" /\ InStep => InStep'
  BY <1>1, <1>2 DEF InStep
<1>5. Counted => Counted'
  BY <1>1, <1>2, <1>3 DEF Counted, UnderWay
<1> QED
  BY <1>2, <1>3, <1>4, <1>5 DEF RetriesInv

\* A packet is lost.
LEMMA RetriesFault ==
  ASSUME TypeInv, RetriesInv, NetworkFault PROVE RetriesInv'
<1> SUFFICES ASSUME NoOther'
             PROVE  /\ pc' # "idle" => pc' # "forced" /\ InStep' /\ Counted'
                    /\ \A m \in Messages : result'[m] = "failed" => Spoilt' >= RetryCount
  BY DEF RetriesInv
<1>1. PICK kind \in {"lose", "repeat"} :
        /\ \/ Disturb(kind, requests) /\ UNCHANGED responses
           \/ Disturb(kind, responses) /\ UNCHANGED requests
        /\ UNCHANGED <<sendVars, listenVars, recvVars>>
  BY DEF NetworkFault
<1>2. NoOther /\ kind = "lose" /\ Spoilt' = Spoilt + 1
  BY <1>1, FaultsGrow DEF Disturb
<1>3. UNCHANGED <<msg, pc, slice, sentTimes, id, result, signal, matched, sessions>>
  BY <1>1 DEF sendVars, listenVars, recvVars
<1>4. /\ \/ requests # <<>> /\ requests' = Tail(requests) /\ responses' = responses
         \/ responses # <<>> /\ responses' = Tail(responses) /\ requests' = requests
      /\ requests \in Seq(RequestSet) /\ responses \in Seq(ResponseSet)
  BY <1>1, <1>2 DEF Disturb, TypeInv, PacketsTyped
<1>5. Elems(requests') \subseteq Elems(requests) /\ Elems(responses') \subseteq Elems(responses)
  BY <1>4, TailElems
<1>6. InOrder(requests, msg) => InOrder(requests', msg)
  BY <1>4, OrderTail
<1>7. Spoilt \in Nat /\ sentTimes \in Nat /\ RetryCount \in Nat
  BY SpoiltTyped, ConstantsAssumption DEF TypeInv, TypeOK
<1>8. InStep => InStep'
  BY <1>3, <1>5, <1>6 DEF InStep
<1>9. Counted => Counted'
  BY <1>2, <1>3, <1>7 DEF Counted
<1> QED
  BY <1>2, <1>3, <1>7, <1>8, <1>9 DEF RetriesInv

LEMMA RetriesStep ==
  ASSUME Defects \subseteq Repairs, TypeInv, Inv, RetriesInv, [Next]_vars PROVE RetriesInv'
<1>1. CASE UNCHANGED vars
  BY <1>1 DEF vars, sendVars, listenVars, recvVars, RetriesInv, InStep, Counted, UnderWay,
              Spoilt, NoOther, Used
<1>2. ~WaitFails
  BY DEF WaitFails, Disturbed, Defects, Repaired
<1>3. CASE ForcedStop
  BY <1>3 DEF ForcedStop, RetriesInv, NoOther, Used
<1>4. CASE NotReady
  <2>1. ~NoOther'
    BY <1>4, FaultsGrow DEF NotReady
  <2> QED
    BY <2>1 DEF RetriesInv
<1> QED
  BY <1>1, <1>2, <1>3, <1>4, RetriesBegin, RetriesSend, RetriesEnd, RetriesListen, RetriesReceive, RetriesClear,
     RetriesFault
  DEF Next, Sender, Receiver

\* A message is given up only after the network has lost a packet or been late retry_count
\* times, however many messages and slices there are, unless it also repeats packets.
THEOREM RetriesAreEnough == Defects \subseteq Repairs => (Spec => []RetriesSuffice)
<1> SUFFICES ASSUME Defects \subseteq Repairs PROVE Spec => []RetriesSuffice
  OBVIOUS
<1>1. Needed \subseteq Repairs
  BY DEF Needed, Defects
<1>2. Spec => [](TypeInv /\ Inv)
  BY <1>1, Invariance
<1>3. Init => RetriesInv
  BY TypeInit, RetriesInit
<1>4. TypeInv /\ Inv /\ RetriesInv /\ [Next]_vars => RetriesInv'
  BY RetriesStep
<1>5. TypeInv /\ RetriesInv => RetriesSuffice
  BY SpoiltTyped, ConstantsAssumption DEF RetriesInv, RetriesSuffice, Spoilt, NoOther
<1> QED
  BY <1>2, <1>3, <1>4, <1>5, PTL DEF Spec

=============================================================================
