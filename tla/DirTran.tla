------------------------------ MODULE DirTran ------------------------------
(***************************************************************************)
(* The direct transmission to SAM and SMP: the control thread starts and   *)
(* ends it with its session, the thread of CDirectTranSrv carries it       *)
(* through, and the thread of CDirTranThread sends what both have put into *)
(* data_send.  A caller of sendMessageWithTimeout waits on an event and    *)
(* reads a result that belong to the unit it has queued.  How a unit is    *)
(* sent is in DirSlices, the threads' own queues in LnxThread.             *)
(***************************************************************************)
EXTENDS Integers, Sequences, FiniteSets

CONSTANTS
  MaxUnits,   \* bound: the units that are queued, sent or still referred to
  MaxQueue,   \* bound: messages nobody waits for that the service thread has not read
  Sessions,   \* whom a session may talk to: a set of sets of Servers
  Repairs     \* the defects below taken to be repaired; {} is the code as it is

(***************************************************************************)
(*  "Binding"      OnTransPacket compares its own empty sender_bind with   *)
(*                 the unit, and so finds no binding for any               *)
(*  "Found"        found_sender_bind stays true: a unit without a binding  *)
(*                 goes where the one before it went                       *)
(*  "Back"         GSNSender returns the id of the last binding after it   *)
(*                 has left the lock: another thread's, perhaps            *)
(*  "RetPara"      ClearRetPara deletes the results nobody waits for any   *)
(*                 more, whether or not their units are still to be        *)
(*                 answered                                                *)
(*  "AfterEvent"   the result is used again after its event was set        *)
(*  "ParaLock"     ret_para is extended, walked and emptied by three       *)
(*                 threads without a lock                                  *)
(*  "ReceiverId"   OnTransPacket closes the receiver that happens to have  *)
(*                 the sender's id                                         *)
(*  "Init_Smp"     Init_Smp posts ON_INIT_SAM when it does not wait        *)
(*  "AskTimer"     OnDeInit_SMP leaves smp_init_timerid running            *)
(*  "HelloTimer"   ParseSMPData sets hello_timer without killing the one   *)
(*                 that runs                                               *)
(*  "LateData"     ParseSMPData sets it also after OnDeInit_SMP            *)
(*  "DeInitHandle" the message of a DeInit whose wait has ended still      *)
(*                 refers to the handle on its stack; repaired, that is    *)
(*                 taken back                                              *)
(*  "TimedWait"    the timed loop of WaitForSingleObject, as in LnxThread  *)
(*  "TryLock"      its try-lock, too: the wait fails while another thread  *)
(*                 is in SetEvent, and that counts as the event            *)
(*  "KillUnlock"   CLnxThread::KillTimer returns with its mutex locked     *)
(*                 after it has deleted a timer: the next one hangs        *)
(***************************************************************************)
Defects == {"Binding", "Found", "Back", "RetPara", "AfterEvent", "ParaLock", "ReceiverId",
            "Init_Smp", "AskTimer", "HelloTimer", "LateData", "DeInitHandle", "TimedWait",
            "TryLock", "KillUnlock"}

Servers == {"SAM", "SMP"}

ASSUME ConstantsAssumption ==
  /\ MaxUnits \in Nat \ {0} /\ MaxQueue \in Nat \ {0}
  /\ Sessions \subseteq (SUBSET Servers) \ {{}}
  /\ Repairs \subseteq Defects

Callers == {"ctl", "srv"}
Units == 1..MaxUnits
Ids == 1..(MaxUnits + 7)   \* enough for all that refer to one
Timers == {"sam", "hello", "ask"}

VARIABLES
  ctl,         \* the control thread: "idle", "init", "session", "sam", "smp", "next", "hung"
  servers,     \* whom its session talks to
  waitHandle,  \* the signal of the wait handle on its stack
  call,        \* of each caller: the sending it is in
  srv,         \* the message the service thread handles, "recv", or "hung"
  srvQueue,    \* the messages it has not read
  inited,      \* sam_or_smp_inited
  handshakeId, initId,       \* handshake_gsn_sender_id, smp_init_data_gsn_sender_id
  timers,      \* the timers whose id is known
  leaked,      \* the timers whose id was overwritten while they ran
  locked,      \* KillTimer has left the service's mutex locked
  destroyHeld, \* destroy_mutex: a thread hangs in OnDeInit
  receivers,   \* the servers whose receiver is registered with the listener
  running_dir,
  data_send,   \* units, in their order
  transPosted, \* an ON_TRANSPACKET_MTYPE is unread; one does what several would
  send_bind,   \* of each sender id, the server
  unit,        \* the units' results and events
  dir,         \* OnTransPacket: "recv", "take", "send", "told"
  cur,         \* the unit it sends
  bound,       \* the server sender_bind stands for, "none" while found_sender_bind is false
  misused,     \* a result or event was used after it was deleted
  staleHandle  \* so was the handle of a DeInit

ctlVars == <<ctl, servers, waitHandle, staleHandle>>
timerVars == <<timers, leaked, locked>>
idVars == <<handshakeId, initId>>
srvVars == <<srv, srvQueue, inited, receivers, timerVars, destroyHeld, idVars>>
queueVars == <<data_send, transPosted, send_bind, unit>>
dirVars == <<dir, cur, bound>>
vars == <<ctlVars, call, srvVars, running_dir, queueVars, dirVars, misused>>

Repaired(x) == x \in Repairs
SeqToSet(s) == {s[i] : i \in DOMAIN s}
Queued(type) == \E i \in DOMAIN srvQueue : srvQueue[i].type = type
Message(type, handle) == [type |-> type, handle |-> handle]
Post(type, handle) == srvQueue' = Append(srvQueue, Message(type, handle))

NoCall == [at |-> "none", to |-> "none", wait |-> FALSE, id |-> 0, unit |-> 0]
NoUnit == [to |-> "none", id |-> 0, ret |-> "none", done |-> FALSE, given |-> FALSE]

-----------------------------------------------------------------------------
(* Units, results and bindings *)

\* Answered: the result is written and the event set, if the caller waits for any.
Answer(us, f) ==
  [u \in Units |-> IF u \in us /\ f[u].ret # "none"
                   THEN [f[u] EXCEPT !.done = TRUE] ELSE f[u]]

\* ClearRetPara: of the results whose callers have given up.
ClearRetPara(f) ==
  [u \in Units |-> IF f[u].given /\ f[u].ret = "live" /\ (Repaired("RetPara") => f[u].done)
                   THEN [f[u] EXCEPT !.ret = "freed"] ELSE f[u]]

Misused(us, f) == misused \/ \E u \in us : f[u].ret = "freed"

\* Another thread than c may be in ret_para: in the next step of each it would be.
OthersInRetPara(c) ==
  \/ c # "dir" /\ dir = "recv" /\ transPosted
  \/ \E d \in Callers \ {c} : call[d].at = "wait"
  \/ c # "ctl" /\ running_dir /\ ctl \in {"session", "next"} /\ call["ctl"] = NoCall
  \/ c # "srv" /\ running_dir /\ srv = "recv" /\ srvQueue # <<>>
     /\ Head(srvQueue).type \in {"DEINIT_SAM", "DEINIT_SMP"}

\* c is in it, too: a result may be signalled or deleted twice, one of those that are only
\* there, if no other.
MisusedInRetPara(c, b) ==
  misused' \in {b} \cup (IF ~Repaired("ParaLock") /\ OthersInRetPara(c) THEN {TRUE} ELSE {})

\* unit' is f, without the units nobody refers to any more.
UnitsBecome(f) ==
  unit' = [u \in Units |->
             IF u \in SeqToSet(data_send') \cup {cur'} \cup {call'[c].unit : c \in Callers}
             THEN f[u] ELSE NoUnit]

\* The ids something will look for; a binding with another one is not kept.
IdsInUse == {unit[u].id : u \in SeqToSet(data_send)} \cup {call[c].id : c \in Callers}
BindingsBecome(f) == send_bind' = [i \in DOMAIN f \cap IdsInUse' |-> f[i]]

\* CloseAllGSNSender, in the thread c.
CloseAllGSNSender(c, f) ==
  /\ data_send' = <<>> /\ send_bind' = <<>>
  /\ MisusedInRetPara(c, Misused(SeqToSet(data_send), f))
  /\ UnitsBecome(ClearRetPara(Answer(SeqToSet(data_send), f)))

\* The queue without us, in its order; f has the places that are left.
Unqueue(us) ==
  \E n \in 0..Len(data_send) : \E f \in [1..n -> DOMAIN data_send] :
    /\ \A i, j \in 1..n : i < j => f[i] < f[j]
    /\ {f[i] : i \in 1..n} = {i \in DOMAIN data_send : data_send[i] \notin us}
    /\ data_send' = [i \in 1..n |-> data_send[f[i]]]

\* CloseGSNSender(id): its queued units are answered, the event first, and its binding
\* goes.
CloseGSNSender(id) ==
  LET us == {u \in SeqToSet(data_send) : unit[u].id = id}
      awaited == \E c \in Callers : call[c].unit \in us IN
    /\ Unqueue(us)
    /\ misused' \in {Misused(us, unit),
                     Misused(us, unit) \/ (awaited /\ ~Repaired("AfterEvent"))}
    /\ UnitsBecome(Answer(us, unit))

Without(f, id) == [i \in DOMAIN f \ {id} |-> f[i]]

\* StopRun
StopRun(c) ==
  /\ running_dir' = FALSE
  /\ IF running_dir THEN CloseAllGSNSender(c, unit)
     ELSE UNCHANGED <<data_send, send_bind, misused, unit>>

\* StopRun and CloseGSNSender of the handshake, as in OnDeInit_SAM and OnDeInit_SMP.
StopRunAndHandshake(c) ==
  /\ running_dir' = FALSE /\ handshakeId' = 0
  /\ IF running_dir THEN CloseAllGSNSender(c, unit)
     ELSE CloseGSNSender(handshakeId) /\ send_bind' = Without(send_bind, handshakeId)

-----------------------------------------------------------------------------
(* Sending: GSNSender, then PostPacketNoResponse or sendMessageWithTimeout *)

\* The ids that nothing refers to, once the sender old is closed.
FreeIds(old) ==
  Ids \ ((({handshakeId, initId} \cup {unit[u].id : u \in SeqToSet(data_send)}) \ {old})
           \cup {call[d].id : d \in Callers})

\* One of them.  first only says which: 1 for the handshake, 2 for the data of SMP.
NewId(old, first) == CHOOSE i \in {j \in FreeIds(old) : j >= first} : TRUE

\* GSNSender, after CloseGSNSender(old) where the caller has one.  A unit must be left for
\* every call that has begun.
GSNSender(c, to, wait, old, first) ==
  LET id == NewId(old, first) IN
    /\ Cardinality({u \in Units : unit[u] # NoUnit})
         + Cardinality({d \in Callers : call[d].at = "bound"}) < MaxUnits
    /\ call' = [call EXCEPT ![c] = [at |-> "bound", to |-> to, wait |-> wait, id |-> id,
                                    unit |-> 0]]
    /\ CloseGSNSender(old)
    /\ BindingsBecome([i \in (DOMAIN send_bind \ {old}) \cup {id} |->
                         IF i = id THEN to ELSE send_bind[i]])

\* What GSNSender returns: the id of the last binding, which another call may have added.
IdsReturned(c) ==
  IF Repaired("Back") THEN {call[c].id} ELSE {call[d].id : d \in Callers} \ {0}

\* What WaitForSingleObject may return; as it is, ETIMEDOUT only together with the signal,
\* 0 also for no reason, and EBUSY when somebody is setting the event.
WaitResults(signal, setting) ==
  (IF Repaired("TimedWait") THEN {IF signal THEN "0" ELSE "ETIMEDOUT"}
   ELSE {"0"} \cup (IF signal THEN {"ETIMEDOUT"} ELSE {}))
  \cup (IF setting /\ ~signal /\ ~Repaired("TryLock") THEN {"EBUSY"} ELSE {})

\* Mutant: the service thread does not read on.
CallEndsInHandler(c, ok) ==
  /\ call' = [call EXCEPT ![c] = NoCall] /\ UNCHANGED <<srv, waitHandle, timerVars>>

\* KillTimer, for each of ts that runs, hangs: in the first one, or in the next.
KillHangs(ts) ==
  /\ ~Repaired("KillUnlock") /\ ts \cap timers # {}
  /\ locked \/ Cardinality(ts \cap timers) > 1

\* The timers that are gone then.  Only hello is ever killed before another one.
KillTimers(ts) ==
  /\ timers' = timers \ (IF ~KillHangs(ts) THEN ts ELSE IF locked THEN {} ELSE {"hello"})
  /\ locked' = (locked \/ (~Repaired("KillUnlock") /\ ts \cap timers # {}))

\* A handler ends with killing ts.
KillsAndReads(ts) == KillTimers(ts) /\ srv' = IF KillHangs(ts) THEN "hung" ELSE "recv"

\* The rest of the handler, after its sending.  HandshakeToSMP, if it failed, may have
\* failed for the third time: it stops its timer and asks for another authentication.
CallEnds(c, ok) ==
  /\ call' = [call EXCEPT ![c] = NoCall]
  /\ UNCHANGED <<waitHandle, leaked>>
  /\ \/ srv' = (IF c = "ctl" THEN srv ELSE "recv") /\ UNCHANGED <<timers, locked>>
     \/ c = "srv" /\ srv = "HELLO_SMP" /\ ~ok /\ KillsAndReads({"hello"})

\* GSNSender has returned.  GetProtocalParamFromSenderHand looks for the binding, and ends
\* the call with false if it is closed by then; the unit is queued with
\* ON_TRANSPACKET_MTYPE, also if its binding is closed after that.  The unit of a caller
\* who waits has a result and an event; the others are done.
SendPacket(c) ==
  /\ call[c].at = "bound"
  /\ UNCHANGED <<ctl, servers, staleHandle, srvQueue, inited, receivers, destroyHeld,
                 running_dir, dirVars, misused>>
  /\ \E id \in IdsReturned(c) :
       /\ handshakeId' = IF c = "srv" /\ srv \in {"HELLO_SAM", "HELLO_SMP"} THEN id
                         ELSE handshakeId
       /\ initId' = IF c = "srv" /\ srv \in {"INIT_SMP", "ASK"} THEN id ELSE initId
       /\ \/ /\ id \notin DOMAIN send_bind
             /\ CallEnds(c, FALSE)
             /\ UNCHANGED <<data_send, transPosted, unit>>
          \/ \E u \in Units :
               /\ unit[u] = NoUnit /\ \A v \in Units : v < u => unit[v] # NoUnit
               /\ data_send' = Append(data_send, u) /\ transPosted' = TRUE
               /\ unit' = [unit EXCEPT ![u] =
                              [to |-> call[c].to, id |-> id, done |-> FALSE, given |-> FALSE,
                               ret |-> IF call[c].wait THEN "live" ELSE "none"]]
               /\ IF call[c].wait
                  THEN /\ call' = [call EXCEPT ![c].at = "wait", ![c].id = 0, ![c].unit = u]
                       /\ UNCHANGED <<srv, waitHandle, timerVars>>
                  ELSE CallEnds(c, TRUE)
       /\ BindingsBecome(send_bind)

\* What wait of c's unit returns: somebody is setting its event who is to answer it.
Waited(c) ==
  LET u == call[c].unit IN
    WaitResults(unit[u].done, u \in SeqToSet(data_send) \/ (dir = "send" /\ cur = u))

\* Mutant: the result is deleted after a time-out as well.
ReturnedDeleting(c) ==
  /\ call[c].at = "wait"
  /\ LET u == call[c].unit IN
       \E r \in Waited(c) :
         /\ CallEnds(c, r # "ETIMEDOUT") /\ UNCHANGED <<data_send, cur>>
         /\ UnitsBecome([unit EXCEPT ![u].ret = "freed"])
         /\ BindingsBecome(send_bind)
  /\ UNCHANGED <<ctl, servers, staleHandle, srvQueue, inited, receivers, destroyHeld, idVars,
                 running_dir, transPosted, dir, bound, misused>>

\* The wait of sendMessageWithTimeout ends.  After a time-out the result is left in
\* ret_para, otherwise it is deleted.
Returned(c) ==
  /\ call[c].at = "wait"
  /\ LET u == call[c].unit IN
       \E r \in Waited(c) :
         /\ CallEnds(c, r # "ETIMEDOUT") /\ UNCHANGED <<data_send, cur>>
         /\ IF r = "ETIMEDOUT"
            THEN UnitsBecome([unit EXCEPT ![u].given = TRUE]) /\ MisusedInRetPara(c, misused)
            ELSE UnitsBecome([unit EXCEPT ![u].ret = "freed"]) /\ UNCHANGED misused
         /\ BindingsBecome(send_bind)
  /\ UNCHANGED <<ctl, servers, staleHandle, srvQueue, inited, receivers, destroyHeld, idVars,
                 running_dir, transPosted, dir, bound>>

-----------------------------------------------------------------------------
(* OnTransPacket *)

\* Mutant: what was queued since the sending was stopped stays there.
TransPacketWhenRunning ==
  /\ dir = "recv" /\ transPosted
  /\ transPosted' = FALSE
  /\ dir' = IF running_dir THEN "take" ELSE dir
  /\ UNCHANGED <<ctlVars, call, srvVars, running_dir, cur, bound, data_send, send_bind, misused>>
  /\ UnitsBecome(ClearRetPara(unit))

TransPacket ==
  /\ dir = "recv" /\ transPosted
  /\ transPosted' = FALSE
  /\ UNCHANGED <<ctlVars, call, srvVars, running_dir, cur, bound>>
  /\ IF running_dir
     THEN /\ dir' = "take"
          /\ UNCHANGED <<data_send, send_bind>> /\ UnitsBecome(ClearRetPara(unit))
          /\ MisusedInRetPara("dir", misused)
     ELSE UNCHANGED dir /\ CloseAllGSNSender("dir", ClearRetPara(unit))

\* Mutant: sender_bind keeps its value when no binding is found.
LastBinding(u) == IF unit[u].id \in DOMAIN send_bind THEN send_bind[unit[u].id] ELSE bound

\* sender_bind, after the search.
Binding(u) ==
  IF Repaired("Binding") /\ unit[u].id \in DOMAIN send_bind THEN send_bind[unit[u].id]
  ELSE IF Repaired("Found") THEN "none" ELSE bound

\* The next unit, sent if it has a binding, answered with 0 if not.
TakeUnit ==
  /\ dir = "take"
  /\ UNCHANGED <<ctlVars, call, srvVars, running_dir, transPosted>>
  /\ IF data_send = <<>>
     THEN /\ dir' = "recv" /\ bound' = "none"
          /\ UNCHANGED <<cur, data_send, send_bind, unit, misused>>
     ELSE LET u == Head(data_send) IN
            /\ data_send' = Tail(data_send) /\ bound' = Binding(u)
            /\ IF bound' = "none"
               THEN /\ UNCHANGED <<dir, cur>>
                    /\ misused' = Misused({u}, unit)
                    /\ UnitsBecome(Answer({u}, unit))
               ELSE /\ dir' = "send" /\ cur' = u
                    /\ UnitsBecome([unit EXCEPT ![u].id = 0]) /\ UNCHANGED misused
            /\ BindingsBecome(send_bind)

\* DoSendPacket returns and the result is told.
DoSendPacket ==
  /\ dir = "send" /\ dir' = "told"
  /\ unit' = Answer({cur}, unit)
  /\ misused' = Misused({cur}, unit)
  /\ UNCHANGED <<ctlVars, call, srvVars, running_dir, data_send, transPosted, send_bind, cur,
                 bound>>

\* After a failure the result is read for the log; then CloseGSNReceiver.
UnitDone ==
  /\ dir = "told"
  /\ misused' \in {misused, IF Repaired("AfterEvent") THEN misused ELSE Misused({cur}, unit)}
  /\ \E lost \in {{}} \cup (IF Repaired("ReceiverId") THEN {} ELSE {{k} : k \in receivers}) :
       receivers' = receivers \ lost
  /\ cur' = 0
  /\ IF running_dir THEN dir' = "take" /\ UNCHANGED bound
     ELSE dir' = "recv" /\ bound' = "none"
  /\ UNCHANGED <<ctlVars, call, srv, srvQueue, inited, timerVars, destroyHeld, idVars,
                 running_dir, data_send, transPosted, send_bind>>
  /\ UnitsBecome(unit)

-----------------------------------------------------------------------------
(* The service thread: DispathMessage *)

Reads(type) ==
  /\ srv = "recv" /\ srvQueue # <<>> /\ Head(srvQueue).type = type
  /\ UNCHANGED <<ctl, servers, dirVars, transPosted>>

\* Mutant: the event of a start is not set.
SetEventOfDeInit ==
  /\ waitHandle' = (waitHandle \/ (Head(srvQueue).handle = "own" /\ ctl # "init"))
  /\ staleHandle' = (staleHandle \/ Head(srvQueue).handle = "stale")

\* SetEvent on the handle that came with the message.
SetEvent ==
  /\ waitHandle' = (waitHandle \/ Head(srvQueue).handle = "own")
  /\ staleHandle' = (staleHandle \/ Head(srvQueue).handle = "stale")

\* Nothing is sent.
NoSending == UNCHANGED <<call, idVars, data_send, send_bind, unit, misused>>

\* The message has been read; OnTimer, called in its handler, posts the timer's.
ReadsAndPosts(type) ==
  srvQueue' = Tail(srvQueue) \o (IF Queued(type) THEN <<>> ELSE <<Message(type, "none")>>)

SetTimer(t) ==
  timers' = timers \cup {t} /\ leaked' = leaked \cup (timers \cap {t}) /\ UNCHANGED locked

\* HandshakeToSAM and HandshakeToSMP, up to the sending.
Handshakes(type, server, wait) ==
  GSNSender("srv", server, wait, handshakeId, 1) /\ srv' = type /\ UNCHANGED idVars

\* With use_handshake_to_sam the first handshake is due at once.
OnInit_SAM ==
  /\ Reads("INIT_SAM") /\ SetEvent /\ NoSending
  /\ running_dir' = TRUE /\ inited' = TRUE
  /\ receivers' = receivers \cup ({"SAM"} \cap servers)
  /\ \/ "SAM" \in servers /\ SetTimer("sam") /\ ReadsAndPosts("HELLO_SAM")
     \/ srvQueue' = Tail(srvQueue) /\ UNCHANGED timerVars
  /\ UNCHANGED <<srv, destroyHeld>>

\* Who waits for OnInit_SMP has not asked for the data now, and the other way round.
OnInit_SMP ==
  /\ Reads("INIT_SMP") /\ SetEvent
  /\ running_dir' = TRUE /\ inited' = TRUE
  /\ receivers' = receivers \cup {"SMP"}
  /\ srvQueue' = Tail(srvQueue)
  /\ IF Head(srvQueue).handle = "none"
     THEN /\ SetTimer("ask")
          /\ GSNSender("srv", "SMP", TRUE, initId, 2) /\ srv' = "INIT_SMP" /\ UNCHANGED idVars
     ELSE NoSending /\ UNCHANGED <<srv, timerVars>>
  /\ UNCHANGED destroyHeld

\* The timers OnDeInit_SAM and OnDeInit_SMP kill.
TimersOf(server) ==
  IF server = "SAM" THEN {"sam"} ELSE {"hello"} \cup (IF Repaired("AskTimer") THEN {"ask"} ELSE {})

\* They hang: one that holds destroy_mutex does, or this one in KillTimer.
EndHangs(server) == destroyHeld \/ KillHangs(TimersOf(server))

\* Mutant: the timers go on.
EndsKeepingTimers(c, server) ==
  /\ StopRunAndHandshake(c)
  /\ receivers' = receivers \ {server} /\ inited' = FALSE
  /\ UNCHANGED <<initId, timers, locked>>

\* OnDeInit_SAM and OnDeInit_SMP in the thread c, up to the event.
Ends(c, server) ==
  /\ StopRunAndHandshake(c)
  /\ receivers' = receivers \ {server} /\ inited' = FALSE
  /\ KillTimers(TimersOf(server))
  /\ UNCHANGED initId

\* Up to where they hang.
EndsHanging(c, server) ==
  /\ destroyHeld' = TRUE
  /\ IF destroyHeld
     THEN NoSending /\ UNCHANGED <<running_dir, receivers, inited, timers, locked>>
     ELSE /\ StopRunAndHandshake(c)
          /\ receivers' = receivers \ {server}
          /\ KillTimers(TimersOf(server))
          /\ UNCHANGED <<call, initId, inited>>

OnDeInit(server) ==
  /\ Reads(IF server = "SAM" THEN "DEINIT_SAM" ELSE "DEINIT_SMP")
  /\ srvQueue' = Tail(srvQueue) /\ UNCHANGED <<call, leaked>>
  /\ IF EndHangs(server)
     THEN EndsHanging("srv", server) /\ srv' = "hung" /\ UNCHANGED <<waitHandle, staleHandle>>
     ELSE Ends("srv", server) /\ SetEvent /\ UNCHANGED <<srv, destroyHeld>>

\* OnTimer: HandshakeToSAM, HandshakeToSMP and AskForSmpInitData.
Handshake(type, server, wait) ==
  /\ Reads(type) /\ srvQueue' = Tail(srvQueue)
  /\ Handshakes(type, server, wait)
  /\ UNCHANGED <<waitHandle, staleHandle, inited, receivers, timerVars, destroyHeld,
                 running_dir>>

HandshakeToSAM == Handshake("HELLO_SAM", "SAM", FALSE)

\* hello_response is what the last ParseSMPData made it.
HandshakeToSMP == \E wait \in BOOLEAN : Handshake("HELLO_SMP", "SMP", wait)

\* After the third time, timer_ask, the control thread is asked to log off instead.
OnAskTimer ==
  /\ Reads("ASK") /\ srvQueue' = Tail(srvQueue)
  /\ \/ /\ srv' = "ASK"
        /\ GSNSender("srv", "SMP", TRUE, initId, 2) /\ UNCHANGED <<timers, locked, idVars>>
     \/ KillsAndReads({"ask"}) /\ NoSending
  /\ UNCHANGED <<waitHandle, staleHandle, inited, receivers, leaked, destroyHeld, running_dir>>

\* ParseSMPData: the data that were asked for, if they can be read.  With a hello_interval
\* the first handshake is due at once.
ParseSMPData ==
  /\ Reads("DATA") /\ NoSending
  /\ \/ srvQueue' = Tail(srvQueue) /\ UNCHANGED <<srv, timerVars>>
     \/ srvQueue' = Tail(srvQueue) /\ KillsAndReads({"ask"}) /\ UNCHANGED leaked
     \/ /\ Repaired("LateData") => inited
        /\ ~KillHangs({"ask"}) /\ UNCHANGED srv
        /\ timers' = (timers \ {"ask"}) \cup {"hello"}
        /\ locked' = (locked \/ (~Repaired("KillUnlock") /\ "ask" \in timers))
        /\ leaked' = leaked \cup (IF Repaired("HelloTimer") THEN {} ELSE timers \cap {"hello"})
        /\ ReadsAndPosts("HELLO_SMP")
  /\ UNCHANGED <<waitHandle, staleHandle, inited, receivers, destroyHeld, running_dir>>

\* What reaches the service thread from outside: its timers, unless their last message or
\* the handler that set them is still being handled, and SMP's data.
Arrives(type) ==
  /\ Cardinality({i \in DOMAIN srvQueue : srvQueue[i].handle = "none"}) < MaxQueue
  /\ Post(type, "none")
  /\ UNCHANGED <<ctlVars, call, srv, inited, receivers, timerVars, destroyHeld, idVars,
                 running_dir, queueVars, dirVars, misused>>

TimerFires ==
  \E t \in timers \cup leaked :
    LET type == IF t = "sam" THEN "HELLO_SAM" ELSE IF t = "hello" THEN "HELLO_SMP" ELSE "ASK" IN
      srv # type /\ ~Queued(type) /\ Arrives(type)

DataFromSmp == "SMP" \in receivers /\ Arrives("DATA")

-----------------------------------------------------------------------------
(* The control thread *)

Ctl(from, to) == ctl = from /\ ctl' = to /\ call["ctl"] = NoCall
SrvUnchanged ==
  UNCHANGED <<call, srv, receivers, timerVars, destroyHeld, idVars, transPosted, dirVars>>

\* The service thread is in SetEvent on the control thread's handle.
SettingHandle == srv = "recv" /\ srvQueue # <<>> /\ Head(srvQueue).handle = "own"

\* The queue when the handle is gone, or taken back.
Disowned(handle) ==
  [i \in DOMAIN srvQueue |->
     IF srvQueue[i].handle # "own" THEN srvQueue[i] ELSE [srvQueue[i] EXCEPT !.handle = handle]]

\* StartDirectTrans for SMP, or for SAM and perhaps SMP: Init_Sam, Init_Smp.  Only the
\* first of them is waited for, and only when the user's addresses were asked for.
StartDirectTrans ==
  \E ss \in Sessions, wait \in BOOLEAN :
    LET handle == IF wait THEN "own" ELSE "none"
        smp == IF Repaired("Init_Smp") THEN "INIT_SMP" ELSE "INIT_SAM"
        first == IF "SAM" \in ss THEN "INIT_SAM" ELSE IF wait THEN "INIT_SMP" ELSE smp IN
      /\ Ctl("idle", IF wait THEN "init" ELSE "session")
      /\ Len(srvQueue) < MaxQueue
      /\ servers' = ss /\ waitHandle' = FALSE
      /\ srvQueue' = Append(srvQueue, Message(first, handle))
                     \o (IF ss = Servers /\ ~wait THEN <<Message(smp, "none")>> ELSE <<>>)
      /\ SrvUnchanged
      /\ UNCHANGED <<staleHandle, inited, running_dir, data_send, send_bind, unit, misused>>

\* The wait of Init_Sam or Init_Smp has no time-out.
InitReturns ==
  /\ Ctl("init", "session") /\ waitHandle' = FALSE
  /\ waitHandle \/ (SettingHandle /\ ~Repaired("TryLock"))
  /\ srvQueue' = (IF waitHandle THEN srvQueue ELSE Disowned("stale"))
                 \o (IF servers # Servers THEN <<>>
                     ELSE <<Message(IF Repaired("Init_Smp") THEN "INIT_SMP" ELSE "INIT_SAM",
                                    "none")>>)
  /\ UNCHANGED <<servers, staleHandle, inited, running_dir, data_send, send_bind, unit,
                 misused>>
  /\ SrvUnchanged

\* SendToSam, SendToSmp.
SendTo ==
  /\ Ctl("session", "session") /\ inited
  /\ UNCHANGED <<servers, waitHandle, staleHandle, srvVars, running_dir, transPosted,
                 dirVars>>
  /\ \E k \in servers : GSNSender("ctl", k, TRUE, 0, 3)

\* DeInit_Sam, DeInit_Smp.
DeInit(server, from, to) ==
  /\ Ctl(from, to) /\ SrvUnchanged
  /\ StopRun("ctl")
  /\ Post(IF server = "SAM" THEN "DEINIT_SAM" ELSE "DEINIT_SMP", "own")
  /\ inited' = FALSE /\ waitHandle' = FALSE
  /\ UNCHANGED <<servers, staleHandle>>

\* After a time-out the control thread runs the handler itself, and leaves the message.
DeInitReturns(server, from, to) ==
  /\ ctl = from /\ call["ctl"] = NoCall
  /\ waitHandle' = FALSE
  /\ UNCHANGED <<staleHandle, call, srv, leaked, transPosted, dirVars>>
  /\ \E r \in WaitResults(waitHandle, SettingHandle) :
       LET hangs == r = "ETIMEDOUT" /\ EndHangs(server) IN
         /\ ctl' = IF hangs THEN "hung" ELSE to
         /\ servers' = IF to = "idle" /\ ~hangs THEN {} ELSE servers
         /\ srvQueue' = IF waitHandle THEN srvQueue
                        ELSE Disowned(IF r # "EBUSY" /\ Repaired("DeInitHandle") THEN "none"
                                      ELSE "stale")
         /\ IF r # "ETIMEDOUT"
            THEN NoSending
                 /\ UNCHANGED <<inited, receivers, timers, locked, destroyHeld, running_dir>>
            ELSE IF hangs THEN EndsHanging("ctl", server)
            ELSE Ends("ctl", server) /\ UNCHANGED destroyHeld

\* KillDirectSrv and ExitExtance_ExitAll.
KillDirectSrv == DeInit("SAM", "session", "sam")
DeInitSmp == DeInit("SMP", "next", "smp")
DeInitSamReturns == DeInitReturns("SAM", "sam", "next")
DeInitSmpReturns == DeInitReturns("SMP", "smp", "idle")

-----------------------------------------------------------------------------
Init ==
  /\ ctl = "idle" /\ servers = {} /\ waitHandle = FALSE
  /\ call = [c \in Callers |-> NoCall]
  /\ srv = "recv" /\ srvQueue = <<>> /\ inited = FALSE
  /\ handshakeId = 0 /\ initId = 0
  /\ timers = {} /\ leaked = {} /\ locked = FALSE /\ destroyHeld = FALSE
  /\ receivers = {} /\ running_dir = FALSE
  /\ data_send = <<>> /\ transPosted = FALSE /\ send_bind = <<>>
  /\ unit = [u \in Units |-> NoUnit]
  /\ dir = "recv" /\ cur = 0 /\ bound = "none"
  /\ misused = FALSE /\ staleHandle = FALSE

Calls(c) == SendPacket(c) \/ Returned(c)
Transmitter == TransPacket \/ TakeUnit \/ DoSendPacket \/ UnitDone
Service == OnInit_SAM \/ OnInit_SMP \/ OnDeInit("SAM") \/ OnDeInit("SMP") \/ HandshakeToSAM
           \/ HandshakeToSMP \/ OnAskTimer \/ ParseSMPData
           \/ Calls("srv")
Control == InitReturns \/ DeInitSmp \/ DeInitSamReturns \/ DeInitSmpReturns \/ Calls("ctl")
Outside == TimerFires \/ DataFromSmp \/ StartDirectTrans \/ SendTo \/ KillDirectSrv

Next == Transmitter \/ Service \/ Control \/ Outside

\* Each thread goes on, and a wait ends, by its event or its time-out; nobody need start
\* anything.
Spec == Init /\ [][Next]_vars /\ WF_vars(Transmitter) /\ WF_vars(Service) /\ WF_vars(Control)

-----------------------------------------------------------------------------
(* Properties *)

TypeOK ==
  /\ ctl \in {"idle", "init", "session", "sam", "next", "smp", "hung"}
  /\ servers \subseteq Servers
  /\ waitHandle \in BOOLEAN /\ inited \in BOOLEAN
  /\ running_dir \in BOOLEAN /\ misused \in BOOLEAN /\ staleHandle \in BOOLEAN
  /\ \A c \in Callers : call[c].at \in {"none", "bound", "wait"}
  /\ srv \in {"recv", "hung"} <=> call["srv"] = NoCall
  /\ timers \subseteq Timers /\ leaked \subseteq Timers /\ receivers \subseteq Servers
  /\ locked \in BOOLEAN /\ destroyHeld \in BOOLEAN
  /\ data_send \in Seq(Units) /\ transPosted \in BOOLEAN /\ cur \in Units \cup {0}
  /\ (dir \in {"send", "told"}) = (cur # 0) /\ bound \in Servers \cup {"none"}

\* Nobody writes a result or sets an event that its caller or ClearRetPara has deleted,
\* whichever of them was first to give up, to stop or to answer; and the handle on the
\* control thread's stack is set only while its DeInit is there.
NothingFreedIsUsed == ~misused /\ ~staleHandle

\* OnTransPacket sends a unit to the server it was queued for, whatever both threads bind
\* and close meanwhile, and answers it unsent only if its binding is closed.
RightServer ==
  [][TakeUnit /\ data_send # <<>> =>
       LET u == Head(data_send) IN
         bound' = IF unit[u].id \in DOMAIN send_bind THEN unit[u].to ELSE "none"]_vars

\* Once the service thread has done what it was told, a session has what it needs, and
\* after its end nothing of it is left: not a timer, not a receiver, nobody sending.
SessionIsCurrent ==
  srv = "recv" /\ srvQueue = <<>> =>
    /\ ctl = "session" => running_dir /\ inited /\ receivers = servers
    /\ ctl = "idle" => /\ ~running_dir /\ ~inited /\ receivers = {}
                       /\ timers \cup leaked = {}

\* What is queued is never left without somebody to send or answer it, though the
\* sending is stopped while a unit is on its way, or between the check of its binding and
\* its queueing.
QueueIsServed ==
  data_send # <<>> => transPosted \/ dir = "take" \/ (dir # "recv" /\ running_dir)

\* The control thread comes back from every start, sending and end.
ControlReturns ==
  ctl \notin {"idle", "session"} \/ call["ctl"] # NoCall
    ~> ctl \in {"idle", "session"} /\ call["ctl"] = NoCall

=============================================================================
