---------------------------- MODULE StateMachine ----------------------------
(***************************************************************************)
(* The 802.1X supplicant of TuanZi: CStateMachineThread, its CStateData    *)
(* and the seven CStateVisual classes of states.cpp, with the three POSIX  *)
(* timers it runs and the System V message queue that feeds it.            *)
(*                                                                         *)
(* The thread executes one message at a time.  A message leads to          *)
(* OnStateMove, which enters a state (Initlize), reports to the control    *)
(* thread and calls the new state's MoveState, which may call OnStateMove  *)
(* again.  The recursion is unfolded into steps (pc), so that timer        *)
(* threads and the control thread interleave with it where they can in     *)
(* the program:                                                            *)
(*                                                                         *)
(*   idle -> move -> init -> visual -> move -> ... -> unwind -> idle       *)
(*                                                                         *)
(* What the code abstracts from here: the contents of frames, the wording  *)
(* of reports, recv_id (a response is built while its request is being     *)
(* handled), and the configuration beyond the [AUTHPARAM] section.         *)
(***************************************************************************)
EXTENDS Integers, Sequences

CONSTANTS
  StartTimeout,   \* [AUTHPARAM] StartTimeout, AuthTimeout, HeldTimeout: seconds,
  AuthTimeout,    \*   0 makes SetTimer fail
  HeldTimeout,
  StartNumber,    \* [AUTHPARAM] StartNumber: EAPOL-Starts per attempt
  QueueLen,       \* bound: messages the thread's queue holds (msg_qbytes)
  MaxInputs,      \* bound: messages the control thread posts in a behaviour
  Offered,        \* bound: the packets and orders it posts
  Vendors,        \* bound: whose NAS sends requests, of "ruijie" and "other"
  Repairs         \* the defects below that are taken to be repaired;
                  \*   {} is the code as it is

(***************************************************************************)
(* Defects of this commit.  The first four each stop the supplicant before *)
(* the rest of its logic runs.  A definition that contains one says so;    *)
(* with the defect's name in Repairs it reads as the surrounding code      *)
(* intends:                                                                *)
(*                                                                         *)
(*  "StartWait"   CStateConnecting::MoveState gives up (reconnect_fail) at *)
(*                once, while connect_timeout is still running             *)
(*  "KillUnlock"  CLnxThread::KillTimer returns with its mutex locked      *)
(*  "Md5Length"   txRspAuth calls strlen on a null pointer                 *)
(*  "ReportState" OnStateMove reports its argument, not the state entered  *)
(*  "LateFailure" OnRecvFailure clears has_auth_success when the control   *)
(*                thread comes to it, also that of a later Success; a      *)
(*                repair clears it where the machine handles the failure   *)
(***************************************************************************)
Defects == {"StartWait", "KillUnlock", "Md5Length", "ReportState", "LateFailure"}

\* The timer flags START_WHILE, AUTH_WHILE and HOLD_WHILE.
Flags == {"START_WHILE", "AUTH_WHILE", "HOLD_WHILE"}

\* What ChangeToEAPOLFrame hands over, up to what parseFrame tells apart.
Requests == {"identity", "md5", "private", "nak", "other"}
Packets == Requests \cup {"success", "failure"}

\* START_STATE_MACHINE, SEND_LOGOFF, SAY_HELLO, STOP_THREAD.
Orders == {"start", "logoff", "hello", "stop"}

\* A message of the queue: a timer flag stands for ON_TIMER with that flag, a
\* packet for PACKET_NOTIFY.
Messages == Flags \cup Packets \cup Orders

ASSUME ConstantsAssumption ==
  /\ StartTimeout \in Nat /\ AuthTimeout \in Nat /\ HeldTimeout \in Nat
  /\ StartNumber \in Nat
  /\ QueueLen \in Nat \ {0}
  /\ MaxInputs \in Nat
  /\ Offered \subseteq Packets \cup Orders
  /\ Vendors \subseteq {"ruijie", "other"}
  /\ Repairs \subseteq Defects

AcquiredTimeout == 45

Entered == {"DISCONNECTED", "CONNECTING", "ACQUIRED", "AUTHENTICATING",
            "AUTHENTICATED", "HOLD", "LOGOFF"}
States == Entered \cup {"INVALID"}
None == "NONE"                         \* -1 as an argument, nullptr as state_visual

VARIABLES
  inbox,    \* the thread's message queue
  pc,       \* where the thread is
  call,     \* the OnStateMove call in progress and what surrounds it
  visual,   \* state_visual: the state object entered last
  d,        \* CStateData
  ctl,      \* the fields of CContextControlThread this thread reads and writes
  handle,   \* those of connect_timer, auth_timer, hold_timer that are not zero
  armed,    \* the number of armed POSIX timers of each flag
  gate,     \* the TIMERPARAM mutexes of a flag: no entry, one unlocked, all locked
  spawned,  \* flags with a SIGEV_THREAD thread that has not called OnTimer yet
  locked,   \* CLnxThread::pthread_mutex is held by a KillTimer that returned
  out,      \* what the last step posted to other threads
  inputs    \* messages the control thread may still post

timerVars == <<handle, armed, gate, locked>>
vars == <<inbox, pc, call, visual, d, ctl, handle, armed, gate, spawned, locked,
          out, inputs>>

PCs == {"idle", "move", "init", "visual", "unwind", "hung", "crashed", "exited"}
Frames == {"eapol_start", "rsp_id", "rsp_md5", "rsp_pap", "nak", "logoff", "hello"}
Notes == Entered \cup {None, "EAP_FAILURE", "FORCE_OFFLINE", "COMPATIBLE_LOGOFF"}

Frame(f) == [to |-> "send", msg |-> f]
Note(n)  == [to |-> "ctrl", msg |-> n]
Posts == [to : {"send"}, msg : Frames] \cup [to : {"ctrl"}, msg : Notes]

CStateData ==
  [state : States, prev_state : States,
   req_id : BOOLEAN, req_auth : BOOLEAN, md5 : BOOLEAN,
   eap_success : BOOLEAN, eap_failure : BOOLEAN,
   disconnected : BOOLEAN, logoff : BOOLEAN, logoff_init : BOOLEAN,
   auth_attempt_count : Nat, hold_count : Nat,
   connect_timeout : Nat, auth_timeout : Nat, hold_timeout : Nat]

ControlFields ==
  [has_auth_success : BOOLEAN, reconnect_fail : BOOLEAN, connect_fail : BOOLEAN,
   nas : {"ruijie", "other"},   \* is_ruijie_nas: who sent the last EAP request
   failures : Nat]     \* EAP_FAILURE messages it has not handled yet

Calls ==
  [arg  : Entered \cup {None},   \* OnStateMove's argument
   to   : Entered \cup {None},   \* the state it entered or is entering
   tail : BOOLEAN,               \* an OnStateMove that has entered a state has
                                 \*   not returned: its last test is to come
   from : Flags \cup {None}]     \* the timer whose ON_TIMER is being handled

NoCall == [arg |-> None, to |-> None, tail |-> FALSE, from |-> None]

Repaired(x) == x \in Repairs

IsRuijieNas == ctl.nas = "ruijie"

-----------------------------------------------------------------------------
(* The predicates of CStateData *)

\* Mutant: a Success undoes a pending logoff.
IsAuthenticatedInLogoff == d.eap_success /\ ~d.disconnected /\ ~d.logoff_init

IsAuthenticated == d.eap_success /\ ~d.disconnected /\ ~d.logoff /\ ~d.logoff_init
IsDisconnected  == d.disconnected
IsHeld          == d.eap_failure /\ ~d.disconnected /\ ~d.logoff /\ ~d.logoff_init
IsLogOff        == d.logoff /\ ~d.logoff_init /\ ~d.disconnected

-----------------------------------------------------------------------------
(* Timers: CLnxThread::SetTimer, KillTimer, OnTimerEnter, OnTimerLeave *)

\* KillTimer on a zero handle returns before it takes the mutex.
Live(K) == K \cap handle

\* KillTimer blocks forever on the mutex an earlier KillTimer left locked.
KillBlocks(K) ==
  /\ ~Repaired("KillUnlock")
  /\ \/ locked /\ Live(K) # {}
     \/ \E f, g \in Live(K) : f # g

\* Kill the timers of K, then SetTimer(f, secs); f = None sets none.  A killed
\* timer's TIMERPARAM stays in the list, so its gate does not change.
Retime(K, f, secs) ==
  /\ handle' = (handle \ K) \cup (IF secs > 0 THEN {f} ELSE {})
  /\ armed' = [g \in Flags |->
                 (IF g \in Live(K) THEN armed[g] - 1 ELSE armed[g])
                 + (IF g = f /\ secs > 0 THEN 1 ELSE 0)]
  /\ gate' = [g \in Flags |-> IF g = f /\ secs > 0 THEN "open" ELSE gate[g]]
  /\ locked' = (locked \/ (~Repaired("KillUnlock") /\ Live(K) # {}))

\* The kills of K up to the one that blocks.  Which live timer comes first is not
\* told apart.
RetimeUntilBlocked(K) ==
  IF locked THEN UNCHANGED timerVars
            ELSE \E f \in Live(K) : Retime({f}, None, 0)

\* A timer of flag f goes off: the kernel starts a thread for it.  The timers are
\* periodic, so an armed one goes off again.  Bound: one such thread at a time.
Expire(f) ==
  /\ armed[f] > 0
  /\ spawned = {}
  /\ pc # "crashed"
  /\ spawned' = {f}
  /\ out' = <<>>
  /\ UNCHANGED <<inbox, pc, call, visual, d, ctl, timerVars, inputs>>

\* Mutant: the mutexes stay locked when the post fails.
NotifyKeepsLocks(f) ==
  /\ f \in spawned
  /\ pc \notin {"exited", "crashed"}
  /\ spawned' = spawned \ {f}
  /\ inbox' = IF gate[f] = "open" /\ Len(inbox) < QueueLen
              THEN Append(inbox, f) ELSE inbox
  /\ gate' = IF gate[f] = "open" THEN [gate EXCEPT ![f] = "busy"] ELSE gate
  /\ out' = <<>>
  /\ UNCHANGED <<pc, call, visual, d, ctl, handle, armed, locked, inputs>>

\* That thread runs CStateMachineThread::OnTimer(f): ON_TIMER is posted if one of
\* the flag's mutexes could be locked, and they are unlocked again if the post fails.
Notify(f) ==
  /\ f \in spawned
  /\ pc \notin {"exited", "crashed"}
  /\ spawned' = spawned \ {f}
  /\ IF gate[f] = "open" /\ Len(inbox) < QueueLen
     THEN /\ inbox' = Append(inbox, f)
          /\ gate' = [gate EXCEPT ![f] = "busy"]
     ELSE UNCHANGED <<inbox, gate>>
  /\ out' = <<>>
  /\ UNCHANGED <<pc, call, visual, d, ctl, handle, armed, locked, inputs>>

-----------------------------------------------------------------------------
(* The control thread: CContextControlThread as this thread sees it *)

MachineAlive == pc \notin {"exited", "crashed"}

\* Mutant: the queue takes any number of messages.
PostAnyway(m) ==
  /\ inbox' = Append(inbox, m)
  /\ out' = <<>>
  /\ UNCHANGED <<pc, call, visual, d, timerVars, spawned>>

\* msgsnd with IPC_NOWAIT: a message that finds the queue full is lost.
Post(m) ==
  /\ inbox' = IF Len(inbox) < QueueLen THEN Append(inbox, m) ELSE inbox
  /\ out' = <<>>
  /\ UNCHANGED <<pc, call, visual, d, timerVars, spawned>>

\* OnPacketReturn: an EAP request also tells whose NAS it is.
OnPacketReturn(p, vendor) ==
  /\ MachineAlive /\ inputs > 0 /\ p \in Offered
  /\ ctl' = IF p \in Requests THEN [ctl EXCEPT !.nas = vendor] ELSE ctl
  /\ inputs' = inputs - 1
  /\ Post(p)

\* StartStateMachine, SayHello, and SendLogOffPacket to a Ruijie NAS.
PostOrder(o) ==
  /\ MachineAlive /\ inputs > 0 /\ o \in Offered \ {"stop"}
  /\ o = "logoff" => IsRuijieNas
  /\ inputs' = inputs - 1
  /\ Post(o)
  /\ UNCHANGED ctl

\* SafeExitThread(0): the control thread posts STOP_THREAD and does nothing else
\* until the thread has ended.  The queue has room (the bound QueueLen is small).
SafeExitThread ==
  /\ MachineAlive /\ inputs > 0 /\ "stop" \in Offered
  /\ Len(inbox) < QueueLen
  /\ inputs' = 0
  /\ Post("stop")
  /\ UNCHANGED ctl

\* SendLogOffPacket to another NAS: txSetLogOff_CompThird writes the machine's
\* state from the control thread, whatever the machine is doing.
SendLogOffCompThird ==
  /\ MachineAlive /\ inputs > 0 /\ "logoff" \in Offered /\ ~IsRuijieNas
  /\ d' = IF visual = None THEN d ELSE [d EXCEPT !.state = "LOGOFF"]
  /\ inputs' = inputs - 1
  /\ out' = <<>>
  /\ UNCHANGED <<inbox, pc, call, visual, ctl, timerVars, spawned>>

\* The EAP_FAILURE message arrives, some time after the machine posted it.
OnRecvFailure ==
  /\ ctl.failures > 0
  /\ ctl' = [ctl EXCEPT !.failures = @ - 1,
                        !.has_auth_success = IF Repaired("LateFailure") THEN @
                                             ELSE FALSE]
  /\ out' = <<>>
  /\ UNCHANGED <<inbox, pc, call, visual, d, timerVars, spawned, inputs>>

-----------------------------------------------------------------------------
(* The messages of the machine's queue: DispathMessage *)

Receive(m) ==
  /\ pc = "idle"
  /\ inbox # <<>> /\ Head(inbox) = m
  /\ inbox' = Tail(inbox)
  /\ UNCHANGED <<spawned, inputs>>

\* OnStateMove(arg), called by a message handler or by a MoveState.
CallOnStateMove(arg) ==
  /\ pc' = "move"
  /\ call' = [call EXCEPT !.arg = arg]

OnStartMachine ==
  /\ Receive("start")
  /\ ctl' = [ctl EXCEPT !.has_auth_success = FALSE, !.reconnect_fail = FALSE,
                        !.connect_fail = FALSE]
  /\ visual' = "DISCONNECTED"
  /\ d' = [d EXCEPT !.logoff = FALSE, !.hold_count = 0, !.logoff_init = FALSE,
                    !.disconnected = TRUE,
                    !.state = "INVALID", !.prev_state = "INVALID"]
  /\ CallOnStateMove(None)
  /\ out' = <<>>
  /\ UNCHANGED timerVars

\* parseFrame and FailNotification.  `reason': the NAS or the service list gave a
\* reason for the failure.  A response to a notification or to a type that is not
\* supported is a NAK frame.
ParseFrame(p, reason) ==
  /\ d' = CASE p = "success"  -> [d EXCEPT !.eap_success = TRUE]
            [] p = "failure"  -> [d EXCEPT !.eap_failure = TRUE,
                                    !.hold_count = IF reason \/ ctl.has_auth_success
                                                   THEN 33 ELSE @]
            [] p = "identity" -> [d EXCEPT !.req_id = TRUE]
            [] p = "md5"      -> [d EXCEPT !.req_auth = TRUE, !.md5 = TRUE]
            [] p = "private"  -> [d EXCEPT !.req_auth = TRUE, !.md5 = FALSE]
            [] OTHER          -> d
  /\ ctl' = CASE p = "success" -> [ctl EXCEPT !.has_auth_success = TRUE]
              [] p = "failure" -> [ctl EXCEPT !.failures = @ + 1,
                                     !.has_auth_success =
                                       IF Repaired("LateFailure") THEN FALSE ELSE @]
              [] OTHER         -> ctl
  /\ out' = CASE p = "nak"     -> <<Frame("nak")>>
              [] p = "failure" -> <<Note("EAP_FAILURE")>>
              [] OTHER         -> <<>>

OnPacketNotify(p, reason) ==
  /\ Receive(p)
  /\ IF visual = None \/ d.state = "LOGOFF" \/ p = "other"
     THEN /\ out' = <<>>
          /\ UNCHANGED <<pc, call, d, ctl>>
     ELSE /\ ParseFrame(p, reason)
          /\ CallOnStateMove(None)
  /\ UNCHANGED <<visual, timerVars>>

\* ON_TIMER: the flag's timeout has run out and its timer is killed, whichever
\* timer of the flag that is by now.
OnTimer(f) ==
  /\ Receive(f)
  /\ d' = CASE f = "START_WHILE" -> [d EXCEPT !.connect_timeout = 0]
            [] f = "AUTH_WHILE"  -> [d EXCEPT !.auth_timeout = 0]
            [] f = "HOLD_WHILE"  -> [d EXCEPT !.hold_timeout = 0]
  /\ call' = [NoCall EXCEPT !.from = f]
  /\ IF KillBlocks({f})
     THEN pc' = "hung" /\ UNCHANGED timerVars
     ELSE pc' = "move" /\ Retime({f}, None, 0)
  /\ out' = <<>>
  /\ UNCHANGED <<visual, ctl>>

OnSayHello ==
  /\ Receive("hello")
  /\ out' = <<Frame("hello")>>
  /\ UNCHANGED <<pc, call, visual, d, ctl, timerVars>>

\* txLogOff: the state is LOGOFF without a LogOff object and its Initlize; the
\* timers go on.
OnSendLogoff ==
  /\ Receive("logoff")
  /\ IF visual = None
     THEN UNCHANGED d /\ out' = <<>>
     ELSE d' = [d EXCEPT !.state = "LOGOFF"] /\ out' = <<Frame("logoff")>>
  /\ UNCHANGED <<pc, call, visual, ctl, timerVars>>

\* CLnxThread::Run returns and LnxEndThread calls KillAllTimer.
StopThread ==
  /\ Receive("stop")
  /\ IF locked /\ ~Repaired("KillUnlock")
     THEN pc' = "hung" /\ UNCHANGED timerVars
     ELSE /\ pc' = "exited"
          /\ handle' = {}
          /\ armed' = [f \in Flags |-> 0]
          /\ gate' = [f \in Flags |-> "none"]
          /\ UNCHANGED locked
  /\ out' = <<>>
  /\ UNCHANGED <<call, visual, d, ctl>>

-----------------------------------------------------------------------------
(* OnStateMove *)

\* The state OnStateMove enters, or None to let the present one decide.
Chosen(arg) ==
  IF IsAuthenticated THEN "AUTHENTICATED"
  ELSE IF IsDisconnected THEN "DISCONNECTED"
  ELSE IF IsHeld THEN "HOLD"
  ELSE IF IsLogOff THEN "LOGOFF"
  ELSE arg

OnStateMove ==
  /\ pc = "move"
  /\ \/ /\ d.state = "LOGOFF"
        /\ pc' = "unwind"
        /\ UNCHANGED <<call, ctl>>
     \/ /\ d.state # "LOGOFF" /\ Chosen(call.arg) = None
        /\ pc' = "visual"
        /\ UNCHANGED <<call, ctl>>
     \/ /\ d.state # "LOGOFF" /\ Chosen(call.arg) # None
        /\ pc' = "init"
        /\ call' = [call EXCEPT !.to = Chosen(call.arg)]
        /\ ctl' = IF IsAuthenticated
                  THEN [ctl EXCEPT !.reconnect_fail = FALSE, !.connect_fail = FALSE]
                  ELSE ctl
  /\ out' = <<>>
  /\ UNCHANGED <<inbox, visual, d, timerVars, spawned, inputs>>

\* STATE_MACHINE_RETURN carries OnStateMove's argument: -1 (None) when a packet or
\* START led to the state.
Report(prev) ==
  IF IsRuijieNas \/ prev # "AUTHENTICATED"
  THEN <<Note(IF Repaired("ReportState") THEN call.to ELSE call.arg)>>
  ELSE <<>>

\* Initlize and the report that follows it.  Every Initlize notes the previous
\* state and the new one first; then it kills the timers of K, sets f, and leaves
\* the data as `entered' says.
Initlize(s, entered, K, f, secs, frames) ==
  /\ pc = "init" /\ call.to = s
  /\ visual' = s
  /\ IF KillBlocks(K)
     THEN /\ pc' = "hung"
          /\ d' = [d EXCEPT !.prev_state = d.state, !.state = s]
          /\ out' = <<>>
          /\ RetimeUntilBlocked(K)
          /\ UNCHANGED call
     ELSE /\ pc' = "visual"
          /\ d' = entered
          /\ out' = frames \o Report(entered.prev_state)
          /\ Retime(K, f, secs)
          /\ call' = [call EXCEPT !.tail = TRUE]
  /\ UNCHANGED <<inbox, ctl, spawned, inputs>>

\* Mutant: what the last attempt left behind is not cleared.
InitDisconnectedKeepsSuccess ==
  Initlize("DISCONNECTED",
           [d EXCEPT !.prev_state = d.state, !.state = "DISCONNECTED",
                     !.eap_failure = FALSE, !.auth_attempt_count = 0,
                     !.logoff_init = FALSE, !.disconnected = FALSE],
           {}, None, 0, <<>>)

InitDisconnected ==
  Initlize("DISCONNECTED",
           [d EXCEPT !.prev_state = d.state, !.state = "DISCONNECTED",
                     !.eap_success = FALSE, !.eap_failure = FALSE,
                     !.auth_attempt_count = 0, !.logoff_init = FALSE,
                     !.disconnected = FALSE],
           {}, None, 0, <<>>)

InitConnecting ==
  Initlize("CONNECTING",
           [d EXCEPT !.prev_state = d.state, !.state = "CONNECTING",
                     !.connect_timeout = StartTimeout,
                     !.auth_attempt_count = @ + 1, !.req_id = FALSE],
           Flags, "START_WHILE", StartTimeout, <<Frame("eapol_start")>>)

\* An authenticated client of another vendor's NAS answers a second identity
\* request without leaving its state.
AnswersInPlace == ~IsRuijieNas /\ d.prev_state = "AUTHENTICATED"

\* Mutant: auth_timer is overwritten without being killed.
InitAcquiredLeaksTimer ==
  Initlize("ACQUIRED",
           [d EXCEPT !.prev_state = d.state, !.state = "ACQUIRED",
                     !.auth_timeout = AcquiredTimeout, !.auth_attempt_count = 0,
                     !.req_id = FALSE, !.req_auth = FALSE],
           {"HOLD_WHILE", "START_WHILE"}, "AUTH_WHILE", AcquiredTimeout,
           <<Frame("rsp_id")>>)

InitAcquired ==
  IF AnswersInPlace
  THEN Initlize("ACQUIRED", [d EXCEPT !.req_id = FALSE, !.req_auth = FALSE],
                {}, None, 0, <<Frame("rsp_id")>>)
  ELSE Initlize("ACQUIRED",
                [d EXCEPT !.prev_state = d.state, !.state = "ACQUIRED",
                          !.auth_timeout = AcquiredTimeout,
                          !.auth_attempt_count = 0,
                          !.req_id = FALSE, !.req_auth = FALSE],
                Flags, "AUTH_WHILE", AcquiredTimeout, <<Frame("rsp_id")>>)

\* txRspAuth measures a string by a null pointer, if KillTimer lets it come that far.
Md5Crashes == d.md5 /\ ~Repaired("Md5Length") /\ ~KillBlocks({"AUTH_WHILE"})

\* txRspAuth answers an MD5 challenge, txRspAuthPAP a private one.
InitAuthenticating ==
  IF Md5Crashes
  THEN /\ pc = "init" /\ call.to = "AUTHENTICATING"
       /\ pc' = "crashed"
       /\ out' = <<>>
       /\ UNCHANGED <<inbox, call, visual, d, ctl, timerVars, spawned, inputs>>
  ELSE Initlize("AUTHENTICATING",
                [d EXCEPT !.prev_state = d.state, !.state = "AUTHENTICATING",
                          !.auth_timeout = AuthTimeout, !.req_auth = FALSE],
                {"AUTH_WHILE"}, "AUTH_WHILE", AuthTimeout,
                <<Frame(IF d.md5 THEN "rsp_md5" ELSE "rsp_pap")>>)

InitAuthenticated ==
  Initlize("AUTHENTICATED",
           [d EXCEPT !.prev_state = d.state, !.state = "AUTHENTICATED",
                     !.eap_success = FALSE, !.eap_failure = FALSE],
           {"START_WHILE", "AUTH_WHILE"}, None, 0, <<>>)

InitHold ==
  Initlize("HOLD",
           [d EXCEPT !.prev_state = d.state, !.state = "HOLD",
                     !.hold_timeout = HeldTimeout,
                     !.hold_count = IF d.state = "AUTHENTICATED" THEN 100 ELSE @ + 1,
                     !.eap_success = FALSE, !.eap_failure = FALSE],
           Flags, "HOLD_WHILE", HeldTimeout, <<>>)

InitLogOff ==
  Initlize("LOGOFF",
           [d EXCEPT !.prev_state = d.state, !.state = "LOGOFF",
                     !.logoff_init = TRUE],
           Flags, None, 0, <<Frame("logoff")>>)

-----------------------------------------------------------------------------
(* MoveState of the seven states *)

InMoveState(s) ==
  /\ pc = "visual" /\ visual = s
  /\ UNCHANGED <<inbox, visual, timerVars, spawned, inputs>>

ReturnFromMoveState == pc' = "unwind" /\ UNCHANGED call

MoveDisconnected ==
  /\ InMoveState("DISCONNECTED")
  /\ CallOnStateMove("CONNECTING")
  /\ out' = <<>> /\ UNCHANGED <<d, ctl>>

\* As it is, the code does not wait for connect_timeout to run out.
WaitsForAnswer == Repaired("StartWait") /\ d.connect_timeout # 0

TriesAgain == d.connect_timeout = 0 /\ d.auth_attempt_count < StartNumber

MoveConnecting ==
  /\ InMoveState("CONNECTING")
  /\ \/ /\ d.req_id
        /\ CallOnStateMove("ACQUIRED")
        /\ UNCHANGED ctl
     \/ /\ ~d.req_id /\ TriesAgain
        /\ CallOnStateMove("CONNECTING")
        /\ UNCHANGED ctl
     \/ /\ ~d.req_id /\ ~TriesAgain /\ WaitsForAnswer
        /\ ReturnFromMoveState
        /\ UNCHANGED ctl
     \/ /\ ~d.req_id /\ ~TriesAgain /\ ~WaitsForAnswer
        /\ ctl' = [ctl EXCEPT !.reconnect_fail = TRUE]
        /\ CallOnStateMove("AUTHENTICATED")
  /\ out' = <<>> /\ UNCHANGED d

\* Mutant: another vendor's client waits whether or not it counts as authenticated.
MoveAcquiredWaitsAnyway ==
  /\ InMoveState("ACQUIRED")
  /\ LET waits == d.auth_timeout # 0 \/ ~IsRuijieNas IN
     \/ d.req_auth /\ CallOnStateMove("AUTHENTICATING") /\ UNCHANGED d
     \/ ~d.req_auth /\ d.req_id /\ CallOnStateMove("ACQUIRED") /\ UNCHANGED d
     \/ ~d.req_auth /\ ~d.req_id /\ waits /\ ReturnFromMoveState /\ UNCHANGED d
     \/ /\ ~d.req_auth /\ ~d.req_id /\ ~waits
        /\ d' = [d EXCEPT !.hold_count = 3]
        /\ CallOnStateMove("HOLD")
  /\ out' = <<>> /\ UNCHANGED ctl

MoveAcquired ==
  /\ InMoveState("ACQUIRED")
  /\ LET waits == d.auth_timeout # 0 \/ (ctl.has_auth_success /\ ~IsRuijieNas) IN
     \/ d.req_auth /\ CallOnStateMove("AUTHENTICATING") /\ UNCHANGED d
     \/ ~d.req_auth /\ d.req_id /\ CallOnStateMove("ACQUIRED") /\ UNCHANGED d
     \/ ~d.req_auth /\ ~d.req_id /\ waits /\ ReturnFromMoveState /\ UNCHANGED d
     \/ /\ ~d.req_auth /\ ~d.req_id /\ ~waits
        /\ d' = [d EXCEPT !.hold_count = 3]
        /\ CallOnStateMove("HOLD")
  /\ out' = <<>> /\ UNCHANGED ctl

\* Mutant: a challenge answered once is waited for without an end.
MoveAuthenticatingWaitsAnyway ==
  /\ InMoveState("AUTHENTICATING")
  /\ \/ d.req_auth /\ CallOnStateMove("AUTHENTICATING")
     \/ ~d.req_auth /\ d.req_id /\ CallOnStateMove("ACQUIRED")
     \/ ~d.req_auth /\ ~d.req_id /\ ReturnFromMoveState
  /\ out' = <<>> /\ UNCHANGED <<d, ctl>>

MoveAuthenticating ==
  /\ InMoveState("AUTHENTICATING")
  /\ LET waits == d.auth_timeout # 0 \/ ctl.has_auth_success IN
     \/ d.req_auth /\ CallOnStateMove("AUTHENTICATING") /\ UNCHANGED d
     \/ ~d.req_auth /\ d.req_id /\ CallOnStateMove("ACQUIRED") /\ UNCHANGED d
     \/ ~d.req_auth /\ ~d.req_id /\ waits /\ ReturnFromMoveState /\ UNCHANGED d
     \/ /\ ~d.req_auth /\ ~d.req_id /\ ~waits
        /\ d' = [d EXCEPT !.hold_count = 3]
        /\ CallOnStateMove("HOLD")
  /\ out' = <<>> /\ UNCHANGED ctl

\* Mutant: an authenticated client does not answer an identity request.
MoveAuthenticatedStays ==
  /\ InMoveState("AUTHENTICATED")
  /\ ReturnFromMoveState
  /\ out' = <<>> /\ UNCHANGED <<d, ctl>>

MoveAuthenticated ==
  /\ InMoveState("AUTHENTICATED")
  /\ \/ d.req_id /\ CallOnStateMove("ACQUIRED")
     \/ ~d.req_id /\ ReturnFromMoveState
  /\ out' = <<>> /\ UNCHANGED <<d, ctl>>

\* hold_count 100: the server refused a client that was authenticated.  Above 2:
\* it refused too often, gave a reason, or did not answer.
MoveHold ==
  /\ InMoveState("HOLD")
  /\ LET final == d.hold_count > 2
         givesUp == /\ d' = IF final THEN [d EXCEPT !.logoff = TRUE] ELSE d
                    /\ ctl' = IF final THEN [ctl EXCEPT !.connect_fail = TRUE] ELSE ctl
                    /\ out' = <<>>
     IN
     \/ /\ d.hold_count = 100
        /\ d' = [d EXCEPT !.logoff = TRUE]
        /\ out' = <<Note(IF IsRuijieNas THEN "FORCE_OFFLINE" ELSE "COMPATIBLE_LOGOFF")>>
        /\ ReturnFromMoveState
        /\ UNCHANGED ctl
     \/ /\ d.hold_count # 100 /\ d.hold_timeout # 0 /\ d.req_id
        /\ givesUp
        /\ CallOnStateMove("ACQUIRED")
     \/ /\ d.hold_count # 100 /\ d.hold_timeout # 0 /\ ~d.req_id
        /\ givesUp
        /\ ReturnFromMoveState
     \/ /\ d.hold_count # 100 /\ d.hold_timeout = 0
        /\ givesUp
        /\ CallOnStateMove("CONNECTING")

\* The way to DISCONNECTED is closed: logoff is set whenever LOGOFF is entered.
MoveLogOff ==
  /\ InMoveState("LOGOFF")
  /\ IF d.logoff THEN ReturnFromMoveState ELSE CallOnStateMove("DISCONNECTED")
  /\ out' = <<>> /\ UNCHANGED <<d, ctl>>

\* Mutants: the handler forgets the failed attempt, or OnTimerLeave.
UnwindForgetsFailure ==
  /\ pc = "unwind"
  /\ gate' = [f \in Flags |->
                IF f = call.from /\ gate[f] = "busy" THEN "open" ELSE gate[f]]
  /\ pc' = "idle" /\ call' = NoCall /\ out' = <<>>
  /\ UNCHANGED <<inbox, visual, d, ctl, handle, armed, locked, spawned, inputs>>
UnwindForgetsTimer ==
  /\ pc = "unwind"
  /\ d' = IF call.tail /\ ctl.reconnect_fail THEN [d EXCEPT !.state = "LOGOFF"] ELSE d
  /\ pc' = "idle" /\ call' = NoCall /\ out' = <<>>
  /\ UNCHANGED <<inbox, visual, ctl, timerVars, spawned, inputs>>

\* The calls of OnStateMove return: an attempt that failed ends in LOGOFF, and a
\* timer's handler lets the timer in again.
Unwind ==
  /\ pc = "unwind"
  /\ d' = IF call.tail /\ ctl.reconnect_fail THEN [d EXCEPT !.state = "LOGOFF"] ELSE d
  /\ gate' = [f \in Flags |->
                IF f = call.from /\ gate[f] = "busy" THEN "open" ELSE gate[f]]
  /\ pc' = "idle"
  /\ call' = NoCall
  /\ out' = <<>>
  /\ UNCHANGED <<inbox, visual, ctl, handle, armed, locked, spawned, inputs>>

-----------------------------------------------------------------------------
Init ==
  /\ inbox = <<>>
  /\ pc = "idle"
  /\ call = NoCall
  /\ visual = None
  /\ d = [state |-> "INVALID", prev_state |-> "INVALID",
          req_id |-> FALSE, req_auth |-> FALSE, md5 |-> FALSE,
          eap_success |-> FALSE, eap_failure |-> FALSE,
          disconnected |-> FALSE, logoff |-> FALSE, logoff_init |-> FALSE,
          auth_attempt_count |-> 0, hold_count |-> 0,
          connect_timeout |-> 0, auth_timeout |-> 0, hold_timeout |-> 0]
  /\ ctl = [has_auth_success |-> FALSE, reconnect_fail |-> FALSE,
            connect_fail |-> FALSE, nas |-> "ruijie", failures |-> 0]
  /\ handle = {}
  /\ armed = [f \in Flags |-> 0]
  /\ gate = [f \in Flags |-> "none"]
  /\ spawned = {}
  /\ locked = FALSE
  /\ out = <<>>
  /\ inputs = MaxInputs

Control ==
  \/ \E p \in Packets, vendor \in Vendors : OnPacketReturn(p, vendor)
  \/ \E o \in Orders : PostOrder(o)
  \/ SafeExitThread
  \/ SendLogOffCompThird
  \/ OnRecvFailure

Dispatch ==
  \/ OnStartMachine
  \/ \E p \in Packets, reason \in BOOLEAN : OnPacketNotify(p, reason)
  \/ \E f \in Flags : OnTimer(f)
  \/ OnSayHello
  \/ OnSendLogoff
  \/ StopThread

Enter ==
  \/ InitDisconnected \/ InitConnecting \/ InitAcquired \/ InitAuthenticating
  \/ InitAuthenticated \/ InitHold \/ InitLogOff

MoveState ==
  \/ MoveDisconnected \/ MoveConnecting \/ MoveAcquired \/ MoveAuthenticating
  \/ MoveAuthenticated \/ MoveHold \/ MoveLogOff

Machine == Dispatch \/ OnStateMove \/ Enter \/ MoveState \/ Unwind

Timer(f) == Expire(f) \/ Notify(f)

Next == Control \/ Machine \/ \E f \in Flags : Timer(f)

\* The scheduler runs the machine's thread and the kernel's timer threads; nothing
\* obliges the control thread or the network.
Fairness == WF_vars(Machine) /\ \A f \in Flags : WF_vars(Expire(f)) /\ WF_vars(Notify(f))

Spec == Init /\ [][Next]_vars /\ Fairness

-----------------------------------------------------------------------------
(* Properties *)

\* The variables stay in their types, and the queue within its bound.
TypeOK ==
  /\ inbox \in Seq(Messages) /\ Len(inbox) <= QueueLen
  /\ pc \in PCs
  /\ call \in Calls
  /\ visual \in Entered \cup {None}
  /\ d \in CStateData
  /\ ctl \in ControlFields
  /\ handle \subseteq Flags
  /\ armed \in [Flags -> Int]
  /\ gate \in [Flags -> {"none", "open", "busy"}]
  /\ spawned \subseteq Flags
  /\ locked \in BOOLEAN
  /\ out \in Seq(Posts)
  /\ inputs \in 0..MaxInputs

\* A POSIX timer is armed exactly while CStateData holds its handle: no path
\* through the states overwrites a handle whose timer still runs (nothing could
\* kill it then) or keeps the handle of a dead one.
TimersOwned == \A f \in Flags : armed[f] = IF f \in handle THEN 1 ELSE 0

\* A state that waits for an answer has a clock running.  A handler that returns
\* leaves CONNECTING and HOLD only with their timer armed, and ACQUIRED and
\* AUTHENTICATING too, except for a client that counts as authenticated (and whose
\* server then fell silent): it must still count so for as long as it waits.  In
\* HOLD the client that was told to go offline (100) is exempt.
WaitIsTimed ==
  pc = "idle" =>
    /\ d.state = "CONNECTING" => d.connect_timeout # 0 /\ armed["START_WHILE"] = 1
    /\ d.state = "HOLD" /\ d.hold_count # 100
         => d.hold_timeout # 0 /\ armed["HOLD_WHILE"] = 1
    /\ d.state \in {"ACQUIRED", "AUTHENTICATING"}
         => IF d.auth_timeout # 0 THEN armed["AUTH_WHILE"] = 1
                                  ELSE ctl.has_auth_success

\* A timer's mutexes are all locked (so that it can no longer post) only while its
\* ON_TIMER is queued or being handled, whatever re-arming happened in between.
GateNotWedged ==
  \A f \in Flags :
    gate[f] = "busy" => call.from = f \/ \E i \in 1..Len(inbox) : inbox[i] = f

\* Between messages no identity request is left without its response, and in the
\* states that expect a challenge none is left without its answer.
RequestsAnswered ==
  pc = "idle" =>
    /\ d.state \in {"CONNECTING", "ACQUIRED", "AUTHENTICATING", "AUTHENTICATED"}
         => ~d.req_id
    /\ d.state \in {"ACQUIRED", "AUTHENTICATING"} => ~d.req_auth

\* A connection attempt that failed (reconnect_fail) passes through AUTHENTICATED,
\* but never stays there: between messages the machine is in LOGOFF, and remains
\* so until the next START clears the flag.
ReconnectFailMeansLogoff ==
  pc = "idle" /\ ctl.reconnect_fail => d.state = "LOGOFF"

\* Once the client is to log off (the server refused it for good, or LOGOFF has
\* been reached), only a START leads to another state.  Exempt is a LOGOFF that the
\* control thread writes between the machine's test of the state and Initlize.
LogoffIsFinal ==
  [][ d.logoff \/ (d.state = "LOGOFF" /\ pc # "init")
      => d'.state \in {d.state, "LOGOFF"} \/ (pc = "idle" /\ d'.disconnected) ]_vars

\* The control thread is told AUTHENTICATED only when the server sent a Success
\* since the last START and the last failure (never because of one left over from
\* before them), or the attempt has failed (the control thread tells the two apart
\* by reconnect_fail).
ReportsTrueSuccess ==
  [][ Note("AUTHENTICATED") \in {out'[i] : i \in DOMAIN out'}
      => ctl.has_auth_success \/ ctl.reconnect_fail ]_vars

\* A connection attempt fails only after its last EAPOL-Start of StartNumber has
\* gone unanswered for StartTimeout seconds.
GivesUpAfterAllTries ==
  [][ ctl'.reconnect_fail /\ ~ctl.reconnect_fail
      => d.connect_timeout = 0 /\ d.auth_attempt_count >= StartNumber ]_vars

\* The machine does not wait forever: it comes to AUTHENTICATED or LOGOFF, or ends,
\* or keeps a client that counts as authenticated and whose server fell silent
\* during a re-authentication.  An attempt that is not authenticated does end.
Settled ==
  \/ d.state \in {"INVALID", "AUTHENTICATED", "LOGOFF"}
  \/ /\ d.state \in {"ACQUIRED", "AUTHENTICATING"} /\ pc = "idle"
     /\ d.auth_timeout = 0 /\ ctl.has_auth_success
  \/ pc = "exited"
Settles == d.state \in {"CONNECTING", "ACQUIRED", "AUTHENTICATING", "HOLD"} ~> Settled

=============================================================================
