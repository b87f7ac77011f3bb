------------------------- MODULE StateMachineSafety -------------------------
(***************************************************************************)
(* Proofs of safety properties of StateMachine that need a strengthening,  *)
(* for every value of the constants.                                       *)
(***************************************************************************)
EXTENDS StateMachineProofs

-----------------------------------------------------------------------------
(* What entering a state does, whichever it is *)

\* The timer gates: only Notify locks one.
LEMMA RetimeGate ==
  ASSUME NEW K, NEW f, NEW secs, Retime(K, f, secs), NEW g \in Flags, gate'[g] = "busy"
  PROVE  gate[g] = "busy"
  BY DEF Retime

LEMMA RetimeUntilBlockedGate ==
  ASSUME NEW K, RetimeUntilBlocked(K), NEW g \in Flags, gate'[g] = "busy"
  PROVE  gate[g] = "busy"
<1>1. CASE locked
  BY <1>1 DEF RetimeUntilBlocked, timerVars
<1>2. CASE ~locked
  <2>1. PICK f \in Live(K) : Retime({f}, None, 0)
    BY <1>2 DEF RetimeUntilBlocked
  <2> QED BY <2>1, RetimeGate
<1> QED BY <1>1, <1>2

LEMMA InitlizeFrame ==
  ASSUME TypeOK, NEW s, NEW entered, NEW K, NEW f, NEW secs, NEW frames,
         Initlize(s, entered, K, f, secs, frames)
  PROVE  /\ pc = "init" /\ UNCHANGED <<inbox, ctl>>
         /\ pc' \in {"visual", "hung"} /\ (pc' = "visual" => call'.tail)
         /\ call'.from = call.from /\ call'.to = call.to
         /\ \A g \in Flags : gate'[g] = "busy" => gate[g] = "busy"
<1>1. call \in Calls
  BY DEF TypeOK
<1>2. CASE KillBlocks(K)
  BY <1>2, RetimeUntilBlockedGate DEF Initlize
<1>3. CASE ~KillBlocks(K)
  <2>1. call' = [call EXCEPT !.tail = TRUE] /\ Retime(K, f, secs)
    BY <1>3 DEF Initlize
  <2>2. call'.tail /\ call'.from = call.from /\ call'.to = call.to
    BY <1>1, <2>1 DEF Calls
  <2> QED BY <1>3, <2>1, <2>2, RetimeGate DEF Initlize
<1> QED BY <1>2, <1>3

LEMMA EnterFrame ==
  ASSUME TypeOK, Enter
  PROVE  /\ pc = "init" /\ UNCHANGED <<inbox, ctl>>
         /\ pc' \in {"visual", "hung", "crashed"} /\ (pc' = "visual" => call'.tail)
         /\ call'.from = call.from /\ call'.to = call.to
         /\ \A g \in Flags : gate'[g] = "busy" => gate[g] = "busy"
<1> USE InitlizeFrame
<1>1. CASE InitDisconnected  BY <1>1 DEF InitDisconnected
<1>2. CASE InitConnecting    BY <1>2 DEF InitConnecting
<1>3. CASE InitAcquired      BY <1>3 DEF InitAcquired
<1>4. CASE InitAuthenticating
  <2>1. CASE Md5Crashes
    BY <1>4, <2>1 DEF InitAuthenticating, timerVars
  <2>2. CASE ~Md5Crashes
    BY <1>4, <2>2 DEF InitAuthenticating
  <2> QED BY <2>1, <2>2
<1>5. CASE InitAuthenticated BY <1>5 DEF InitAuthenticated
<1>6. CASE InitHold          BY <1>6 DEF InitHold
<1>7. CASE InitLogOff        BY <1>7 DEF InitLogOff
<1> QED BY <1>1, <1>2, <1>3, <1>4, <1>5, <1>6, <1>7 DEF Enter

\* MoveState returns, or calls OnStateMove with a state.
LEMMA MoveStateFrame ==
  ASSUME TypeOK, MoveState
  PROVE  /\ pc = "visual" /\ UNCHANGED <<inbox, gate>>
         /\ \/ pc' = "unwind" /\ UNCHANGED call
            \/ pc' = "move" /\ \E s \in Entered : call' = [call EXCEPT !.arg = s]
<1> USE DEF InMoveState, CallOnStateMove, ReturnFromMoveState, Entered, timerVars
<1>1. CASE MoveDisconnected   BY <1>1 DEF MoveDisconnected
<1>2. CASE MoveConnecting     BY <1>2 DEF MoveConnecting
<1>3. CASE MoveAcquired       BY <1>3 DEF MoveAcquired
<1>4. CASE MoveAuthenticating BY <1>4 DEF MoveAuthenticating
<1>5. CASE MoveAuthenticated  BY <1>5 DEF MoveAuthenticated
<1>6. CASE MoveHold           BY <1>6 DEF MoveHold
<1>7. CASE MoveLogOff         BY <1>7 DEF MoveLogOff
<1> QED BY <1>1, <1>2, <1>3, <1>4, <1>5, <1>6, <1>7 DEF MoveState

-----------------------------------------------------------------------------
(* GateNotWedged *)

\* Strengthening: between messages no timer's ON_TIMER is being handled.
GateInv == GateNotWedged /\ (pc = "idle" => call.from = None)

\* m is in the queue.
Queued(m) == \E i \in 1..Len(inbox) : inbox[i] = m

LEMMA AppendKeepsQueued ==
  ASSUME TypeOK, NEW m \in Messages, inbox' = Append(inbox, m)
  PROVE  Queued(m)' /\ \A q : Queued(q) => Queued(q)'
<1>1. inbox \in Seq(Messages)
  BY DEF TypeOK
<1>2. /\ Len(inbox') = Len(inbox) + 1 /\ Len(inbox) \in Nat
      /\ inbox'[Len(inbox) + 1] = m
      /\ \A i \in 1..Len(inbox) : inbox'[i] = inbox[i]
  BY <1>1, AppendProperties
<1> QED BY <1>2 DEF Queued

\* Only the message that is received leaves the queue.
LEMMA ReceiveKeepsQueued ==
  ASSUME TypeOK, NEW m, Receive(m), NEW q, q # m, Queued(q)
  PROVE  Queued(q)'
<1>1. PICK i \in 1..Len(inbox) : inbox[i] = q
  BY DEF Queued
<1>2. /\ inbox \in Seq(Messages) /\ inbox # <<>>
      /\ inbox' = Tail(inbox) /\ inbox[1] = m
  BY DEF TypeOK, Receive
<1>3. /\ Len(inbox') = Len(inbox) - 1 /\ Len(inbox) \in Nat
      /\ \A j \in 1..Len(inbox') : inbox'[j] = inbox[j + 1]
  BY <1>2, HeadTailProperties
<1>4. i # 1
  BY <1>1, <1>2
<1>5. i - 1 \in 1..Len(inbox') /\ inbox'[i - 1] = q
  BY <1>1, <1>3, <1>4
<1> QED BY <1>5 DEF Queued

LEMMA GateControl ==
  ASSUME TypeOK, GateInv, Control
  PROVE  GateInv'
<1>1. UNCHANGED <<gate, call, pc>>
  BY DEF Control, OnPacketReturn, PostOrder, SafeExitThread, SendLogOffCompThird,
         OnRecvFailure, Post, timerVars
<1>2. inbox' = inbox \/ \E m \in Messages : inbox' = Append(inbox, m)
  BY DEF Control, OnPacketReturn, PostOrder, SafeExitThread, SendLogOffCompThird,
         OnRecvFailure, Post, Messages, Orders
<1>3. \A q : Queued(q) => Queued(q)'
  BY <1>2, AppendKeepsQueued DEF Queued
<1> QED BY <1>1, <1>3 DEF GateInv, GateNotWedged, Queued

LEMMA GateTimer ==
  ASSUME TypeOK, GateInv, NEW f \in Flags, Timer(f)
  PROVE  GateInv'
<1>1. CASE Expire(f)
  BY <1>1 DEF Expire, GateInv, GateNotWedged, timerVars
<1>2. CASE Notify(f)
  <2>1. CASE gate[f] = "open" /\ Len(inbox) < QueueLen
    <3>1. /\ inbox' = Append(inbox, f) /\ UNCHANGED <<pc, call>>
          /\ \A g \in Flags : gate'[g] = "busy" => g = f \/ gate[g] = "busy"
      BY <1>2, <2>1 DEF Notify, TypeOK
    <3>2. Queued(f)' /\ \A q : Queued(q) => Queued(q)'
      BY <3>1, FlagsType, AppendKeepsQueued
    <3> QED BY <3>1, <3>2 DEF GateInv, GateNotWedged, Queued
  <2>2. CASE ~(gate[f] = "open" /\ Len(inbox) < QueueLen)
    BY <1>2, <2>2 DEF Notify, GateInv, GateNotWedged
  <2> QED BY <2>1, <2>2
<1> QED BY <1>1, <1>2 DEF Timer

LEMMA GateDispatch ==
  ASSUME TypeOK, GateInv, Dispatch
  PROVE  GateInv'
<1>1. CASE \E f \in Flags : OnTimer(f)
  <2>1. PICK f \in Flags : OnTimer(f)
    BY <1>1
  <2>2. call'.from = f /\ pc' # "idle" /\ pc = "idle" /\ Receive(f)
    BY <2>1 DEF OnTimer, NoCall, Receive
  <2>3. \A g \in Flags : gate'[g] = "busy" => gate[g] = "busy"
    <3>1. CASE KillBlocks({f})
      BY <2>1, <3>1 DEF OnTimer, timerVars
    <3>2. CASE ~KillBlocks({f})
      BY <2>1, <3>2, RetimeGate DEF OnTimer
    <3> QED BY <3>1, <3>2
  <2>4. \A g \in Flags : gate[g] = "busy" => Queued(g)
    BY <2>2, FlagsType DEF GateInv, GateNotWedged, Queued
  <2>5. \A g \in Flags : gate[g] = "busy" => g = f \/ Queued(g)'
    BY <2>2, <2>4, ReceiveKeepsQueued
  <2> QED BY <2>2, <2>3, <2>5 DEF GateInv, GateNotWedged, Queued
<1>2. CASE StopThread
  <2>1. CASE pc' = "exited"
    BY <1>2, <2>1 DEF StopThread, GateInv, GateNotWedged
  <2>2. CASE pc' = "hung"
    <3>1. Receive("stop") /\ UNCHANGED <<gate, call>> /\ pc = "idle"
      BY <1>2, <2>2 DEF StopThread, Receive, timerVars
    <3>2. \A g \in Flags : gate[g] = "busy" => Queued(g)
      BY <3>1, FlagsType DEF GateInv, GateNotWedged, Queued
    <3>3. "stop" \notin Flags
      BY DEF Flags
    <3>4. \A g \in Flags : gate[g] = "busy" => Queued(g)'
      BY <3>1, <3>2, <3>3, ReceiveKeepsQueued
    <3> QED BY <2>2, <3>1, <3>4 DEF GateInv, GateNotWedged, Queued
  <2> QED BY <1>2, <2>1, <2>2 DEF StopThread
\* The other messages are no timer's.
<1>3. ASSUME NEW m, m \notin Flags, Receive(m), UNCHANGED gate,
             call' = call \/ call' = [call EXCEPT !.arg = None]
      PROVE  GateInv'
  <2>1. pc = "idle" /\ call.from = None /\ call \in Calls
    BY <1>3 DEF Receive, GateInv, TypeOK
  <2>2. call'.from = None
    BY <1>3, <2>1 DEF Calls
  <2>3. \A g \in Flags : gate[g] = "busy" => Queued(g)
    BY <2>1, FlagsType DEF GateInv, GateNotWedged, Queued
  <2>4. \A g \in Flags : gate[g] = "busy" => Queued(g)'
    BY <1>3, <2>3, ReceiveKeepsQueued
  <2> QED BY <1>3, <2>2, <2>4 DEF GateInv, GateNotWedged, Queued
<1>4. CASE OnStartMachine
  <2>1. "start" \notin Flags
    BY DEF Flags
  <2> QED BY <1>3, <1>4, <2>1 DEF OnStartMachine, CallOnStateMove, timerVars
<1>5. CASE \E p \in Packets, reason \in BOOLEAN : OnPacketNotify(p, reason)
  <2>1. PICK p \in Packets, reason \in BOOLEAN : OnPacketNotify(p, reason)
    BY <1>5
  <2>2. p \notin Flags
    BY DEF Flags, Packets, Requests
  <2> QED BY <1>3, <2>1, <2>2 DEF OnPacketNotify, CallOnStateMove, timerVars
<1>6. CASE OnSayHello
  <2>1. "hello" \notin Flags
    BY DEF Flags
  <2> QED BY <1>3, <1>6, <2>1 DEF OnSayHello, timerVars
<1>7. CASE OnSendLogoff
  <2>1. "logoff" \notin Flags
    BY DEF Flags
  <2> QED BY <1>3, <1>7, <2>1 DEF OnSendLogoff, timerVars
<1> QED BY <1>1, <1>2, <1>4, <1>5, <1>6, <1>7 DEF Dispatch

LEMMA GateStep ==
  ASSUME TypeOK, GateInv, [Next]_vars
  PROVE  GateInv'
<1>0. call \in Calls
  BY DEF TypeOK
<1>1. CASE Control
  BY <1>1, GateControl
<1>2. CASE Dispatch
  BY <1>2, GateDispatch
<1>3. CASE OnStateMove
  <2>1. call'.from = call.from /\ pc' # "idle" /\ UNCHANGED <<inbox, gate>>
    BY <1>0, <1>3 DEF OnStateMove, Calls, timerVars
  <2> QED BY <2>1 DEF GateInv, GateNotWedged
<1>4. CASE Enter
  BY <1>4, EnterFrame DEF GateInv, GateNotWedged
<1>5. CASE MoveState
  <2>1. call'.from = call.from /\ pc' # "idle" /\ UNCHANGED <<inbox, gate>>
    BY <1>0, <1>5, MoveStateFrame DEF Calls
  <2> QED BY <2>1 DEF GateInv, GateNotWedged
<1>6. CASE Unwind
  <2>1. /\ inbox' = inbox /\ call'.from = None
        /\ \A g \in Flags : gate'[g] = "busy" => gate[g] = "busy" /\ call.from # g
    BY <1>6 DEF Unwind, NoCall
  <2> QED BY <2>1 DEF GateInv, GateNotWedged
<1>7. CASE \E f \in Flags : Timer(f)
  BY <1>7, GateTimer
<1>8. CASE UNCHANGED vars
  BY <1>8 DEF vars, timerVars, GateInv, GateNotWedged
<1> QED BY <1>1, <1>2, <1>3, <1>4, <1>5, <1>6, <1>7, <1>8 DEF Next, Machine

\* A timer's mutexes are all locked only while its ON_TIMER is queued or being
\* handled, in every reachable state, for any queue length (a full queue that
\* loses the ON_TIMER included): no timer is shut out for good.
THEOREM GateNeverWedged == Spec => []GateNotWedged
<1>1. Init => GateInv
  BY DEF Init, GateInv, GateNotWedged, NoCall
<1>2. TypeOK /\ GateInv /\ [Next]_vars => GateInv'
  BY GateStep
<1>3. GateInv => GateNotWedged
  BY DEF GateInv
<1> QED BY <1>1, <1>2, <1>3, TypeCorrect, PTL DEF Spec

-----------------------------------------------------------------------------
(* ReconnectFailMeansLogoff *)

\* Strengthening: on the way from MoveState's failure back to the message loop the
\* thread has still an OnStateMove to return from (tail), which writes LOGOFF, or
\* is LOGOFF already, or is about to enter AUTHENTICATED.
FailureInv ==
  ctl.reconnect_fail =>
    /\ pc = "idle" => d.state = "LOGOFF"
    /\ pc = "move" => call.tail \/ d.state = "LOGOFF" \/ call.arg # None
    /\ pc = "visual" => call.tail
    /\ pc = "unwind" => call.tail \/ d.state = "LOGOFF"

LEMMA FailureControl ==
  ASSUME TypeOK, FailureInv, Control
  PROVE  FailureInv'
<1>1. UNCHANGED <<pc, call>>
  BY DEF Control, OnPacketReturn, PostOrder, SafeExitThread, SendLogOffCompThird,
         OnRecvFailure, Post
<1>2. ctl'.reconnect_fail = ctl.reconnect_fail
  <2>1. ctl \in ControlFields
    BY DEF TypeOK
  <2> QED
    BY <2>1
    DEF Control, OnPacketReturn, PostOrder, SafeExitThread, SendLogOffCompThird,
        OnRecvFailure, Post, ControlFields
<1>3. d' = d \/ d'.state = "LOGOFF"
  BY DEF Control, OnPacketReturn, PostOrder, SafeExitThread, SendLogOffCompThird,
         OnRecvFailure, Post, TypeOK, CStateData
<1> QED BY <1>1, <1>2, <1>3 DEF FailureInv

LEMMA FailureDispatch ==
  ASSUME TypeOK, FailureInv, Dispatch
  PROVE  FailureInv'
<1>1. pc = "idle"
  BY DEF Dispatch, OnStartMachine, OnPacketNotify, OnTimer, OnSayHello, OnSendLogoff,
         StopThread, Receive
<1>2. CASE OnStartMachine
  <2>1. ~ctl'.reconnect_fail
    BY <1>2 DEF OnStartMachine, TypeOK, ControlFields
  <2> QED BY <2>1 DEF FailureInv
<1>3. CASE \E p \in Packets, reason \in BOOLEAN : OnPacketNotify(p, reason)
  <2>1. PICK p \in Packets, reason \in BOOLEAN : OnPacketNotify(p, reason)
    BY <1>3
  <2>2. ctl'.reconnect_fail = ctl.reconnect_fail
    BY <2>1 DEF OnPacketNotify, ParseFrame, TypeOK, ControlFields
  <2>3. CASE d.state = "LOGOFF"
    BY <1>1, <2>1, <2>3 DEF OnPacketNotify, FailureInv
  <2>4. CASE d.state # "LOGOFF"
    BY <1>1, <2>2, <2>4 DEF FailureInv
  <2> QED BY <2>3, <2>4
<1>4. CASE \E f \in Flags : OnTimer(f)
  <2>1. PICK f \in Flags : OnTimer(f)
    BY <1>4
  <2>2. d'.state = d.state /\ ctl' = ctl /\ pc' \in {"hung", "move"}
    BY <2>1 DEF OnTimer, TypeOK, CStateData, Flags
  <2> QED BY <1>1, <2>2 DEF FailureInv
<1>5. CASE OnSayHello
  BY <1>5 DEF OnSayHello, FailureInv
<1>6. CASE OnSendLogoff
  <2>1. d' = d \/ d'.state = "LOGOFF"
    BY <1>6 DEF OnSendLogoff, TypeOK, CStateData
  <2> QED BY <1>6, <2>1 DEF OnSendLogoff, FailureInv
<1>7. CASE StopThread
  BY <1>7 DEF StopThread, FailureInv
<1> QED BY <1>2, <1>3, <1>4, <1>5, <1>6, <1>7 DEF Dispatch

LEMMA FailureMachine ==
  ASSUME TypeOK, FailureInv, OnStateMove \/ MoveState \/ Unwind
  PROVE  FailureInv'
<1>0. call \in Calls /\ ctl \in ControlFields
  BY DEF TypeOK
<1>1. CASE OnStateMove
  <2>1. d' = d /\ (ctl'.reconnect_fail => ctl.reconnect_fail)
    BY <1>0, <1>1 DEF OnStateMove, ControlFields
  <2>2. CASE d.state = "LOGOFF"
    BY <1>1, <2>1, <2>2 DEF OnStateMove, FailureInv
  <2>3. CASE d.state # "LOGOFF" /\ Chosen(call.arg) = None
    <3>1. call.arg = None
      BY <2>3 DEF Chosen, None
    <3> QED BY <1>1, <2>1, <2>3, <3>1 DEF OnStateMove, FailureInv
  <2>4. CASE d.state # "LOGOFF" /\ Chosen(call.arg) # None
    BY <1>1, <2>4 DEF OnStateMove, FailureInv
  <2> QED BY <2>2, <2>3, <2>4
<1>2. CASE MoveState
  <2>1. pc = "visual" /\ d'.state = d.state
    <3>1. d' \in {d, [d EXCEPT !.hold_count = 3], [d EXCEPT !.logoff = TRUE]}
      BY <1>2
      DEF MoveState, MoveDisconnected, MoveConnecting, MoveAcquired,
          MoveAuthenticating, MoveAuthenticated, MoveHold, MoveLogOff
    <3> QED BY <1>2, <3>1, MoveStateFrame DEF TypeOK, CStateData
  <2>2. CASE pc' = "unwind"
    <3>1. call' = call /\ ctl'.reconnect_fail = ctl.reconnect_fail
      BY <1>0, <1>2, <2>2
      DEF MoveState, MoveDisconnected, MoveConnecting, MoveAcquired,
          MoveAuthenticating, MoveAuthenticated, MoveHold, MoveLogOff,
          CallOnStateMove, ReturnFromMoveState, ControlFields
    <3> QED BY <2>1, <2>2, <3>1 DEF FailureInv
  <2>3. CASE pc' = "move"
    <3>1. call'.arg # None
      BY <1>0, <1>2, <2>3, MoveStateFrame DEF Calls, Entered, None
    <3> QED BY <2>3, <3>1 DEF FailureInv
  <2> QED BY <1>2, <2>2, <2>3, MoveStateFrame
<1>3. CASE Unwind
  <2>1. ctl' = ctl /\ pc' = "idle" /\ pc = "unwind"
    BY <1>3 DEF Unwind
  <2>2. ctl.reconnect_fail => d'.state = "LOGOFF"
    BY <1>3 DEF Unwind, FailureInv, TypeOK, CStateData
  <2> QED BY <2>1, <2>2 DEF FailureInv
<1> QED BY <1>1, <1>2, <1>3

\* A connection attempt that has failed never leaves the supplicant waiting in
\* AUTHENTICATED, or anywhere but LOGOFF, between two messages.
THEOREM FailureEndsInLogoff == Spec => []ReconnectFailMeansLogoff
<1>1. Init => FailureInv
  BY DEF Init, FailureInv
<1>2. TypeOK /\ FailureInv /\ [Next]_vars => FailureInv'
  <2> SUFFICES ASSUME TypeOK, FailureInv, [Next]_vars
               PROVE  FailureInv'
    OBVIOUS
  <2>1. CASE Control
    BY <2>1, FailureControl
  <2>2. CASE Dispatch
    BY <2>2, FailureDispatch
  <2>3. CASE OnStateMove \/ MoveState \/ Unwind
    BY <2>3, FailureMachine
  <2>4. CASE Enter
    BY <2>4, EnterFrame DEF FailureInv
  <2>5. CASE \E f \in Flags : Timer(f)
    BY <2>5 DEF Timer, Expire, Notify, FailureInv
  <2>6. CASE UNCHANGED vars
    BY <2>6 DEF vars, FailureInv
  <2> QED BY <2>1, <2>2, <2>3, <2>4, <2>5, <2>6 DEF Next, Machine
<1>3. FailureInv => ReconnectFailMeansLogoff
  BY DEF FailureInv, ReconnectFailMeansLogoff
<1> QED BY <1>1, <1>2, <1>3, TypeCorrect, PTL DEF Spec

-----------------------------------------------------------------------------
(* LogoffIsFinal *)

\* Strengthening: a START's `disconnected' is consumed by entering DISCONNECTED,
\* logoff_init is only set in LOGOFF, and with logoff set OnStateMove has no other
\* state to enter.
LogoffInv ==
  /\ d.disconnected => ~d.logoff /\ pc # "visual"
  /\ d.disconnected /\ pc = "init" => call.to = "DISCONNECTED"
  /\ d.logoff_init => d.state = "LOGOFF" /\ pc # "init"
  /\ d.logoff /\ pc = "init" => call.to = "LOGOFF"

LEMMA LogoffControl ==
  ASSUME TypeOK, LogoffInv, Control
  PROVE  LogoffInv' /\ d'.state \in {d.state, "LOGOFF"}
<1>1. UNCHANGED <<pc, call>>
  BY DEF Control, OnPacketReturn, PostOrder, SafeExitThread, SendLogOffCompThird,
         OnRecvFailure, Post
<1>2. d' = d \/ d' = [d EXCEPT !.state = "LOGOFF"]
  BY DEF Control, OnPacketReturn, PostOrder, SafeExitThread, SendLogOffCompThird,
         OnRecvFailure, Post
<1>3. d \in CStateData
  BY DEF TypeOK
<1>4. CASE d' = d
  BY <1>1, <1>4 DEF LogoffInv
<1>5. CASE d' = [d EXCEPT !.state = "LOGOFF"]
  <2>1. /\ d'.disconnected = d.disconnected /\ d'.logoff = d.logoff
        /\ d'.logoff_init = d.logoff_init /\ d'.state = "LOGOFF"
    BY <1>3, <1>5 DEF CStateData
  <2> QED BY <1>1, <2>1 DEF LogoffInv
<1> QED BY <1>2, <1>4, <1>5

LEMMA LogoffDispatch ==
  ASSUME TypeOK, LogoffInv, Dispatch
  PROVE  /\ LogoffInv'
         /\ d'.state \in {d.state, "LOGOFF"} \/ (pc = "idle" /\ d'.disconnected)
<1>0. d \in CStateData
  BY DEF TypeOK
<1>1. pc = "idle" /\ pc' \notin {"init", "visual"}
  BY DEF Dispatch, OnStartMachine, OnPacketNotify, OnTimer, OnSayHello, OnSendLogoff,
         StopThread, Receive, CallOnStateMove
<1>2. CASE OnStartMachine
  <2>1. d'.disconnected /\ ~d'.logoff /\ ~d'.logoff_init
    BY <1>0, <1>2 DEF OnStartMachine, CStateData
  <2> QED BY <1>1, <2>1 DEF LogoffInv
\* The others leave what LogoffInv is about alone, or enter LOGOFF.
<1>3. CASE /\ d'.disconnected = d.disconnected /\ d'.logoff = d.logoff
           /\ d'.logoff_init = d.logoff_init /\ d'.state \in {d.state, "LOGOFF"}
  BY <1>1, <1>3 DEF LogoffInv
<1>4. CASE \E p \in Packets, reason \in BOOLEAN : OnPacketNotify(p, reason)
  <2>1. PICK p \in Packets, reason \in BOOLEAN : OnPacketNotify(p, reason)
    BY <1>4
  <2>2. /\ d'.disconnected = d.disconnected /\ d'.logoff = d.logoff
        /\ d'.logoff_init = d.logoff_init /\ d'.state = d.state
    BY <1>0, <2>1 DEF OnPacketNotify, ParseFrame, CStateData
  <2> QED BY <1>3, <2>2
<1>5. CASE \E f \in Flags : OnTimer(f)
  BY <1>0, <1>3, <1>5 DEF OnTimer, Flags, CStateData
<1>6. CASE OnSayHello
  BY <1>3, <1>6 DEF OnSayHello
<1>7. CASE OnSendLogoff
  BY <1>0, <1>3, <1>7 DEF OnSendLogoff, CStateData
<1>8. CASE StopThread
  BY <1>3, <1>8 DEF StopThread
<1> QED BY <1>2, <1>4, <1>5, <1>6, <1>7, <1>8 DEF Dispatch

LEMMA LogoffOnStateMove ==
  ASSUME TypeOK, LogoffInv, OnStateMove
  PROVE  LogoffInv' /\ d' = d
<1>0. d \in CStateData /\ call \in Calls
  BY DEF TypeOK
<1>1. d' = d
  BY DEF OnStateMove
<1>2. CASE d.state = "LOGOFF"
  BY <1>1, <1>2 DEF OnStateMove, LogoffInv
<1>3. CASE d.state # "LOGOFF" /\ Chosen(call.arg) = None
  <2>1. ~d.disconnected
    BY <1>3 DEF Chosen, None, IsAuthenticated, IsDisconnected
  <2> QED BY <1>1, <1>3, <2>1 DEF OnStateMove, LogoffInv
<1>4. CASE d.state # "LOGOFF" /\ Chosen(call.arg) # None
  <2>1. call'.to = Chosen(call.arg) /\ pc' = "init"
    BY <1>0, <1>4 DEF OnStateMove, Calls
  <2>2. ~d.logoff_init
    BY <1>4 DEF LogoffInv
  <2>3. d.disconnected => Chosen(call.arg) = "DISCONNECTED"
    BY DEF Chosen, IsAuthenticated, IsDisconnected
  <2>4. d.logoff => Chosen(call.arg) = "LOGOFF"
    BY <2>2 DEF LogoffInv, Chosen, IsAuthenticated, IsDisconnected, IsHeld, IsLogOff
  <2> QED BY <1>1, <2>1, <2>2, <2>3, <2>4 DEF LogoffInv
<1> QED BY <1>2, <1>3, <1>4

\* Entering a state takes the data of LogoffInv along, except that DISCONNECTED
\* consumes `disconnected' and LOGOFF sets logoff_init.
LEMMA InitlizeData ==
  ASSUME TypeOK, LogoffInv, NEW s, NEW entered, NEW K, NEW f, NEW secs, NEW frames,
         Initlize(s, entered, K, f, secs, frames),
         entered.logoff = d.logoff,
         entered.disconnected => d.disconnected /\ s # "DISCONNECTED",
         entered.logoff_init => d.logoff_init \/ s = "LOGOFF",
         entered.state \in {d.state, s},
         s = "LOGOFF" => entered.state = "LOGOFF"
  PROVE  /\ LogoffInv'
         /\ d.logoff => d'.state = "LOGOFF"
<1>0. d \in CStateData /\ pc = "init" /\ call.to = s
  BY DEF TypeOK, Initlize
<1>1. ~d.logoff_init /\ (d.logoff => s = "LOGOFF")
      /\ (d.disconnected => s = "DISCONNECTED" /\ ~d.logoff)
  BY <1>0 DEF LogoffInv
<1>2. CASE KillBlocks(K)
  <2>1. d' = [d EXCEPT !.prev_state = d.state, !.state = s] /\ pc' = "hung"
    BY <1>2 DEF Initlize
  <2>2. /\ d'.disconnected = d.disconnected /\ d'.logoff = d.logoff
        /\ d'.logoff_init = d.logoff_init /\ d'.state = s
    BY <1>0, <2>1 DEF CStateData
  <2> QED BY <1>1, <2>1, <2>2 DEF LogoffInv
<1>3. CASE ~KillBlocks(K)
  <2>1. d' = entered /\ pc' = "visual"
    BY <1>3 DEF Initlize
  <2>2. ~d'.disconnected
    BY <1>1, <2>1
  <2>3. d'.logoff_init => d'.state = "LOGOFF"
    BY <1>1, <2>1
  <2> QED BY <1>1, <2>1, <2>2, <2>3 DEF LogoffInv
<1> QED BY <1>2, <1>3

LEMMA LogoffEnter ==
  ASSUME TypeOK, LogoffInv, Enter
  PROVE  /\ LogoffInv'
         /\ d.logoff => d'.state = "LOGOFF"
<1>0. d \in CStateData
  BY DEF TypeOK
<1>1. CASE InitDisconnected
  <2> DEFINE entered == [d EXCEPT !.prev_state = d.state, !.state = "DISCONNECTED",
                               !.eap_success = FALSE, !.eap_failure = FALSE,
                               !.auth_attempt_count = 0, !.logoff_init = FALSE,
                               !.disconnected = FALSE]
  <2>1. /\ entered.logoff = d.logoff
        /\ entered.disconnected => d.disconnected /\ "DISCONNECTED" # "DISCONNECTED"
        /\ entered.logoff_init => d.logoff_init \/ "DISCONNECTED" = "LOGOFF"
        /\ entered.state \in {d.state, "DISCONNECTED"}
        /\ "DISCONNECTED" = "LOGOFF" => entered.state = "LOGOFF"
    BY <1>0 DEF CStateData
  <2>2. Initlize("DISCONNECTED", entered, {}, None, 0, <<>>)
    BY <1>1 DEF InitDisconnected
  <2> HIDE DEF entered
  <2> QED BY <2>1, <2>2, InitlizeData
<1>2. CASE InitConnecting
  <2> DEFINE entered == [d EXCEPT !.prev_state = d.state, !.state = "CONNECTING",
                               !.connect_timeout = StartTimeout,
                               !.auth_attempt_count = @ + 1, !.req_id = FALSE]
  <2>1. /\ entered.logoff = d.logoff
        /\ entered.disconnected => d.disconnected /\ "CONNECTING" # "DISCONNECTED"
        /\ entered.logoff_init => d.logoff_init \/ "CONNECTING" = "LOGOFF"
        /\ entered.state \in {d.state, "CONNECTING"}
        /\ "CONNECTING" = "LOGOFF" => entered.state = "LOGOFF"
    BY <1>0 DEF CStateData
  <2>2. Initlize("CONNECTING", entered, Flags, "START_WHILE", StartTimeout,
                     <<Frame("eapol_start")>>)
    BY <1>2 DEF InitConnecting
  <2> HIDE DEF entered
  <2> QED BY <2>1, <2>2, InitlizeData
<1>3. CASE InitAuthenticated
  <2> DEFINE entered == [d EXCEPT !.prev_state = d.state, !.state = "AUTHENTICATED",
                               !.eap_success = FALSE, !.eap_failure = FALSE]
  <2>1. /\ entered.logoff = d.logoff
        /\ entered.disconnected => d.disconnected /\ "AUTHENTICATED" # "DISCONNECTED"
        /\ entered.logoff_init => d.logoff_init \/ "AUTHENTICATED" = "LOGOFF"
        /\ entered.state \in {d.state, "AUTHENTICATED"}
        /\ "AUTHENTICATED" = "LOGOFF" => entered.state = "LOGOFF"
    BY <1>0 DEF CStateData
  <2>2. Initlize("AUTHENTICATED", entered, {"START_WHILE", "AUTH_WHILE"}, None, 0, <<>>)
    BY <1>3 DEF InitAuthenticated
  <2> HIDE DEF entered
  <2> QED BY <2>1, <2>2, InitlizeData
<1>4. CASE InitHold
  <2> DEFINE entered == [d EXCEPT !.prev_state = d.state, !.state = "HOLD",
                               !.hold_timeout = HeldTimeout,
                               !.hold_count = IF d.state = "AUTHENTICATED"
                                              THEN 100 ELSE @ + 1,
                               !.eap_success = FALSE, !.eap_failure = FALSE]
  <2>1. /\ entered.logoff = d.logoff
        /\ entered.disconnected => d.disconnected /\ "HOLD" # "DISCONNECTED"
        /\ entered.logoff_init => d.logoff_init \/ "HOLD" = "LOGOFF"
        /\ entered.state \in {d.state, "HOLD"}
        /\ "HOLD" = "LOGOFF" => entered.state = "LOGOFF"
    BY <1>0 DEF CStateData
  <2>2. Initlize("HOLD", entered, Flags, "HOLD_WHILE", HeldTimeout, <<>>)
    BY <1>4 DEF InitHold
  <2> HIDE DEF entered
  <2> QED BY <2>1, <2>2, InitlizeData
<1>5. CASE InitLogOff
  <2> DEFINE entered == [d EXCEPT !.prev_state = d.state, !.state = "LOGOFF",
                               !.logoff_init = TRUE]
  <2>1. /\ entered.logoff = d.logoff
        /\ entered.disconnected => d.disconnected /\ "LOGOFF" # "DISCONNECTED"
        /\ entered.logoff_init => d.logoff_init \/ "LOGOFF" = "LOGOFF"
        /\ entered.state \in {d.state, "LOGOFF"}
        /\ "LOGOFF" = "LOGOFF" => entered.state = "LOGOFF"
    BY <1>0 DEF CStateData
  <2>2. Initlize("LOGOFF", entered, Flags, None, 0, <<Frame("logoff")>>)
    BY <1>5 DEF InitLogOff
  <2> HIDE DEF entered
  <2> QED BY <2>1, <2>2, InitlizeData
<1>6. CASE InitAcquired
  <2>1. CASE AnswersInPlace
    <3> DEFINE entered == [d EXCEPT !.req_id = FALSE, !.req_auth = FALSE]
    <3>1. /\ entered.logoff = d.logoff
          /\ entered.disconnected => d.disconnected /\ "ACQUIRED" # "DISCONNECTED"
          /\ entered.logoff_init => d.logoff_init \/ "ACQUIRED" = "LOGOFF"
          /\ entered.state \in {d.state, "ACQUIRED"}
          /\ "ACQUIRED" = "LOGOFF" => entered.state = "LOGOFF"
      BY <1>0 DEF CStateData
    <3>2. Initlize("ACQUIRED", entered, {}, None, 0, <<Frame("rsp_id")>>)
      BY <1>6, <2>1 DEF InitAcquired
    <3> HIDE DEF entered
    <3> QED BY <3>1, <3>2, InitlizeData
  <2>2. CASE ~AnswersInPlace
    <3> DEFINE entered == [d EXCEPT !.prev_state = d.state, !.state = "ACQUIRED",
                                 !.auth_timeout = AcquiredTimeout,
                                 !.auth_attempt_count = 0,
                                 !.req_id = FALSE, !.req_auth = FALSE]
    <3>1. /\ entered.logoff = d.logoff
          /\ entered.disconnected => d.disconnected /\ "ACQUIRED" # "DISCONNECTED"
          /\ entered.logoff_init => d.logoff_init \/ "ACQUIRED" = "LOGOFF"
          /\ entered.state \in {d.state, "ACQUIRED"}
          /\ "ACQUIRED" = "LOGOFF" => entered.state = "LOGOFF"
      BY <1>0 DEF CStateData
    <3>2. Initlize("ACQUIRED", entered, Flags, "AUTH_WHILE", AcquiredTimeout,
                       <<Frame("rsp_id")>>)
      BY <1>6, <2>2 DEF InitAcquired
    <3> HIDE DEF entered
    <3> QED BY <3>1, <3>2, InitlizeData
  <2> QED BY <2>1, <2>2
<1>7. CASE InitAuthenticating
  <2>1. CASE Md5Crashes
    <3>1. d' = d /\ pc = "init" /\ call.to = "AUTHENTICATING" /\ pc' = "crashed"
      BY <1>7, <2>1 DEF InitAuthenticating
    <3> QED BY <3>1 DEF LogoffInv
  <2>2. CASE ~Md5Crashes
    <3> DEFINE entered == [d EXCEPT !.prev_state = d.state, !.state = "AUTHENTICATING",
                                 !.auth_timeout = AuthTimeout, !.req_auth = FALSE]
    <3>1. /\ entered.logoff = d.logoff
          /\ entered.disconnected => d.disconnected /\ "AUTHENTICATING" # "DISCONNECTED"
          /\ entered.logoff_init => d.logoff_init \/ "AUTHENTICATING" = "LOGOFF"
          /\ entered.state \in {d.state, "AUTHENTICATING"}
          /\ "AUTHENTICATING" = "LOGOFF" => entered.state = "LOGOFF"
      BY <1>0 DEF CStateData
    <3>2. Initlize("AUTHENTICATING", entered, {"AUTH_WHILE"}, "AUTH_WHILE", AuthTimeout,
                       <<Frame(IF d.md5 THEN "rsp_md5" ELSE "rsp_pap")>>)
      BY <1>7, <2>2 DEF InitAuthenticating
    <3> HIDE DEF entered
    <3> QED BY <3>1, <3>2, InitlizeData
  <2> QED BY <2>1, <2>2
<1> QED BY <1>1, <1>2, <1>3, <1>4, <1>5, <1>6, <1>7 DEF Enter

\* MoveHold sets logoff, in HOLD and not in LOGOFF; nothing else changes here.
LEMMA LogoffMoveState ==
  ASSUME TypeOK, LogoffInv, MoveState
  PROVE  LogoffInv' /\ d'.state = d.state
<1>1. d' \in {d, [d EXCEPT !.hold_count = 3], [d EXCEPT !.logoff = TRUE]}
  BY DEF MoveState, MoveDisconnected, MoveConnecting, MoveAcquired,
         MoveAuthenticating, MoveAuthenticated, MoveHold, MoveLogOff
<1>2. /\ d'.state = d.state /\ d'.disconnected = d.disconnected
      /\ d'.logoff_init = d.logoff_init
  BY <1>1 DEF TypeOK, CStateData
<1>3. pc = "visual" /\ pc' \in {"unwind", "move"}
  BY MoveStateFrame
<1> QED BY <1>2, <1>3 DEF LogoffInv

LEMMA LogoffStep ==
  ASSUME TypeOK, LogoffInv, [Next]_vars
  PROVE  /\ LogoffInv'
         /\ d.logoff \/ (d.state = "LOGOFF" /\ pc # "init")
            => d'.state \in {d.state, "LOGOFF"} \/ (pc = "idle" /\ d'.disconnected)
<1>1. CASE Control
  BY <1>1, LogoffControl
<1>2. CASE Dispatch
  BY <1>2, LogoffDispatch
<1>3. CASE OnStateMove
  BY <1>3, LogoffOnStateMove
<1>4. CASE Enter
  <2>1. pc = "init"
    BY <1>4, EnterFrame
  <2> QED BY <1>4, <2>1, LogoffEnter
<1>5. CASE MoveState
  BY <1>5, LogoffMoveState
<1>6. CASE Unwind
  <2>1. d' = d \/ d' = [d EXCEPT !.state = "LOGOFF"]
    BY <1>6 DEF Unwind
  <2>2. /\ d'.disconnected = d.disconnected /\ d'.logoff = d.logoff
        /\ d'.logoff_init = d.logoff_init /\ d'.state \in {d.state, "LOGOFF"}
    BY <2>1 DEF TypeOK, CStateData
  <2> QED BY <1>6, <2>2 DEF Unwind, LogoffInv
<1>7. CASE \E f \in Flags : Timer(f)
  BY <1>7 DEF Timer, Expire, Notify, LogoffInv
<1>8. CASE UNCHANGED vars
  BY <1>8 DEF vars, LogoffInv
<1> QED BY <1>1, <1>2, <1>3, <1>4, <1>5, <1>6, <1>7, <1>8 DEF Next, Machine

\* Once the client is to log off, only a START leads to another state: no answer
\* of the server, no timer and no order of the control thread does.
THEOREM LogoffStaysFinal == Spec => LogoffIsFinal
<1> DEFINE Step == d.logoff \/ (d.state = "LOGOFF" /\ pc # "init")
                   => d'.state \in {d.state, "LOGOFF"} \/ (pc = "idle" /\ d'.disconnected)
<1>1. Init => LogoffInv
  BY DEF Init, LogoffInv
<1>2. TypeOK /\ LogoffInv /\ [Next]_vars => LogoffInv'
  BY LogoffStep
<1>3. TypeOK /\ LogoffInv /\ [Next]_vars => [Step]_vars
  BY LogoffStep
<1> QED BY <1>1, <1>2, <1>3, TypeCorrect, PTL DEF Spec, LogoffIsFinal

-----------------------------------------------------------------------------
(* RequestsAnswered, and the clocks of WaitIsTimed *)

\* Strengthening of RequestsAnswered: it holds when the handler is about to return,
\* because the state object that returns is the state's own, or CStateAcquired's,
\* which answered in place.
Answered ==
  /\ d.state \in {"CONNECTING", "ACQUIRED", "AUTHENTICATING", "AUTHENTICATED"}
       => ~d.req_id
  /\ d.state \in {"ACQUIRED", "AUTHENTICATING"} => ~d.req_auth
Shown == d.state \notin {"INVALID", "LOGOFF"} => visual \in {d.state, "ACQUIRED"}
AnswerInv == Shown /\ (pc \in {"idle", "unwind"} => Answered)

\* Strengthening of WaitIsTimed: a timeout that has not run out has its timer, also
\* while a message is handled; CONNECTING is never entered from AUTHENTICATED, and
\* who enters HOLD from there is told to go offline before another message comes.
\* So nobody answers in place in those two states, and their own object returns.
Clocked ==
  /\ d.state = "CONNECTING" /\ d.connect_timeout # 0 => "START_WHILE" \in handle
  /\ d.state = "HOLD" /\ d.hold_timeout # 0 => "HOLD_WHILE" \in handle
  /\ d.state \in {"ACQUIRED", "AUTHENTICATING"} /\ d.auth_timeout # 0
       => "AUTH_WHILE" \in handle
Origins ==
  /\ pc = "move" /\ call.arg = "CONNECTING" => d.state # "AUTHENTICATED"
  /\ pc = "init" /\ call.to = "CONNECTING" => d.state # "AUTHENTICATED"
  /\ d.state = "CONNECTING" => d.prev_state # "AUTHENTICATED"
  /\ d.state \in {"CONNECTING", "HOLD"} => visual = d.state
Refused ==
  d.state = "HOLD" /\ d.prev_state = "AUTHENTICATED"
    => d.logoff \/ (pc = "visual" /\ d.hold_count = 100)
Waits ==
  /\ d.state = "CONNECTING" => d.connect_timeout # 0
  /\ d.state = "HOLD" /\ d.hold_count # 100 => d.hold_timeout # 0
WaitInv ==
  pc \notin {"hung", "crashed", "exited"} =>
    /\ Clocked /\ Origins /\ Refused
    /\ pc \in {"idle", "unwind"} => Waits

LEMMA WaitControl ==
  ASSUME TypeOK, AnswerInv, WaitInv, Control \/ UNCHANGED vars
  PROVE  AnswerInv' /\ WaitInv'
<1>1. UNCHANGED <<pc, call, visual, handle>>
  BY DEF Control, OnPacketReturn, PostOrder, SafeExitThread, SendLogOffCompThird,
         OnRecvFailure, Post, timerVars, vars
<1>2. d' = d \/ d' = [d EXCEPT !.state = "LOGOFF"]
  BY DEF Control, OnPacketReturn, PostOrder, SafeExitThread, SendLogOffCompThird,
         OnRecvFailure, Post, vars
<1>3. CASE d' = d
  BY <1>1, <1>3 DEF AnswerInv, Shown, Answered, WaitInv, Clocked, Origins, Refused, Waits
<1>4. CASE d' = [d EXCEPT !.state = "LOGOFF"]
  <2>1. d'.state = "LOGOFF"
    BY <1>4 DEF TypeOK, CStateData
  <2> QED
    BY <2>1 DEF AnswerInv, Shown, Answered, WaitInv, Clocked, Origins, Refused, Waits
<1> QED BY <1>2, <1>3, <1>4

LEMMA WaitTimer ==
  ASSUME AnswerInv, WaitInv, NEW f \in Flags, Timer(f)
  PROVE  AnswerInv' /\ WaitInv'
<1>1. UNCHANGED <<pc, call, visual, d, handle>>
  BY DEF Timer, Expire, Notify, timerVars
<1> QED
  BY <1>1 DEF AnswerInv, Shown, Answered, WaitInv, Clocked, Origins, Refused, Waits

\* A handler starts from a machine that waits: a timer that runs out takes its
\* timeout with it, and a packet's OnStateMove has no state to enter as argument.
LEMMA WaitDispatch ==
  ASSUME TypeOK, AnswerInv, WaitInv, Dispatch
  PROVE  AnswerInv' /\ WaitInv'
<1>0. d \in CStateData /\ call \in Calls
  BY DEF TypeOK
<1>1. pc = "idle" /\ Clocked /\ Origins /\ Refused /\ Waits /\ Shown /\ Answered
  BY DEF Dispatch, OnStartMachine, OnPacketNotify, OnTimer, OnSayHello, OnSendLogoff,
         StopThread, Receive, WaitInv, AnswerInv
<1>2. CASE OnStartMachine
  <2>1. d'.state = "INVALID" /\ pc' = "move" /\ call'.arg = None
    BY <1>0, <1>2 DEF OnStartMachine, CallOnStateMove, CStateData, Calls
  <2> QED BY <2>1 DEF AnswerInv, Shown, WaitInv, Clocked, Origins, Refused
<1>3. CASE \E p \in Packets, reason \in BOOLEAN : OnPacketNotify(p, reason)
  <2>1. PICK p \in Packets, reason \in BOOLEAN : OnPacketNotify(p, reason)
    BY <1>3
  <2>2. CASE visual = None \/ d.state = "LOGOFF" \/ p = "other"
    <3>1. UNCHANGED <<pc, call, visual, d, handle>>
      BY <2>1, <2>2 DEF OnPacketNotify, timerVars
    <3> QED
      BY <3>1
      DEF AnswerInv, Shown, Answered, WaitInv, Clocked, Origins, Refused, Waits
  <2>3. CASE ~(visual = None \/ d.state = "LOGOFF" \/ p = "other")
    <3>1. /\ pc' = "move" /\ call'.arg = None /\ visual' = visual /\ handle' = handle
          /\ ParseFrame(p, reason)
      BY <1>0, <2>1, <2>3 DEF OnPacketNotify, CallOnStateMove, Calls, timerVars
    <3>2. /\ d'.state = d.state /\ d'.prev_state = d.prev_state
          /\ d'.logoff = d.logoff /\ d'.connect_timeout = d.connect_timeout
          /\ d'.auth_timeout = d.auth_timeout /\ d'.hold_timeout = d.hold_timeout
      BY <1>0, <3>1 DEF ParseFrame, CStateData
    <3> QED
      BY <1>1, <3>1, <3>2
      DEF AnswerInv, Shown, WaitInv, Clocked, Origins, Refused, None
  <2> QED BY <2>2, <2>3
<1>4. CASE \E f \in Flags : OnTimer(f)
  <2>1. PICK f \in Flags : OnTimer(f)
    BY <1>4
  <2>2. /\ pc' \in {"hung", "move"} /\ visual' = visual /\ call'.arg = None
        /\ pc' = "move" => handle' = handle \ {f}
    BY <2>1 DEF OnTimer, Retime, NoCall
  <2>3. /\ d'.state = d.state /\ d'.prev_state = d.prev_state /\ d'.logoff = d.logoff
        /\ d'.connect_timeout = IF f = "START_WHILE" THEN 0 ELSE d.connect_timeout
        /\ d'.auth_timeout = IF f = "AUTH_WHILE" THEN 0 ELSE d.auth_timeout
        /\ d'.hold_timeout = IF f = "HOLD_WHILE" THEN 0 ELSE d.hold_timeout
    BY <1>0, <2>1 DEF OnTimer, Flags, CStateData
  <2> QED
    BY <1>1, <2>2, <2>3 DEF AnswerInv, Shown, WaitInv, Clocked, Origins, Refused, None
<1>5. CASE OnSayHello
  <2>1. UNCHANGED <<pc, call, visual, d, handle>>
    BY <1>5 DEF OnSayHello, timerVars
  <2> QED
    BY <2>1 DEF AnswerInv, Shown, Answered, WaitInv, Clocked, Origins, Refused, Waits
<1>6. CASE OnSendLogoff
  <2>1. UNCHANGED <<pc, call, visual, handle>> /\ (d' = d \/ d'.state = "LOGOFF")
    BY <1>0, <1>6 DEF OnSendLogoff, CStateData, timerVars
  <2> QED
    BY <1>1, <2>1
    DEF AnswerInv, Shown, Answered, WaitInv, Clocked, Origins, Refused, Waits
<1>7. CASE StopThread
  <2>1. pc' \in {"hung", "exited"} /\ UNCHANGED <<visual, d>>
    BY <1>7 DEF StopThread
  <2> QED BY <1>1, <2>1 DEF AnswerInv, Shown, WaitInv
<1> QED BY <1>2, <1>3, <1>4, <1>5, <1>6, <1>7 DEF Dispatch

LEMMA WaitOnStateMove ==
  ASSUME TypeOK, LogoffInv, AnswerInv, WaitInv, OnStateMove
  PROVE  AnswerInv' /\ WaitInv'
<1>0. call \in Calls /\ d \in CStateData
  BY DEF TypeOK
<1>1. UNCHANGED <<visual, d, handle>> /\ pc = "move"
  BY DEF OnStateMove, timerVars
<1>2. Clocked /\ Origins /\ Refused /\ Shown
  BY <1>1 DEF WaitInv, AnswerInv
<1>3. CASE d.state = "LOGOFF"
  <2>1. pc' = "unwind"
    BY <1>3 DEF OnStateMove
  <2> QED
    BY <1>1, <1>3, <2>1
    DEF AnswerInv, Shown, Answered, WaitInv, Clocked, Origins, Refused, Waits
<1>4. CASE d.state # "LOGOFF" /\ Chosen(call.arg) = None
  <2>1. pc' = "visual" /\ call' = call
    BY <1>4 DEF OnStateMove
  <2> QED
    BY <1>1, <1>2, <2>1 DEF AnswerInv, Shown, WaitInv, Clocked, Origins, Refused
<1>5. CASE d.state # "LOGOFF" /\ Chosen(call.arg) # None
  <2>1. pc' = "init" /\ call'.to = Chosen(call.arg)
    BY <1>0, <1>5 DEF OnStateMove, Calls
  <2>2. Chosen(call.arg) = "CONNECTING" => call.arg = "CONNECTING"
    BY DEF Chosen
  <2> QED
    BY <1>1, <1>2, <2>1, <2>2 DEF AnswerInv, Shown, WaitInv, Clocked, Origins, Refused
<1> QED BY <1>3, <1>4, <1>5

\* A state that is entered anew gets its timer with its timeout.
LEMMA EnteredAnew ==
  ASSUME TypeOK, NEW s, NEW entered, NEW K, NEW f, NEW secs \in Nat, NEW frames,
         Initlize(s, entered, K, f, secs, frames),
         entered.state = s, entered.prev_state = d.state,
         s = "CONNECTING"
           => /\ d.state # "AUTHENTICATED"
              /\ entered.connect_timeout = secs /\ f = "START_WHILE",
         s = "HOLD"
           => /\ d.state = "AUTHENTICATED" => entered.hold_count = 100
              /\ entered.hold_timeout = secs /\ f = "HOLD_WHILE",
         s \in {"ACQUIRED", "AUTHENTICATING"}
           => entered.auth_timeout = secs /\ f = "AUTH_WHILE"
  PROVE  AnswerInv' /\ WaitInv'
<1>0. d \in CStateData
  BY DEF TypeOK
<1>1. CASE KillBlocks(K)
  <2>1. d'.state = s /\ visual' = s /\ pc' = "hung"
    BY <1>0, <1>1 DEF Initlize, CStateData
  <2> QED BY <2>1 DEF AnswerInv, Shown, WaitInv
<1>2. CASE ~KillBlocks(K)
  <2>1. d' = entered /\ visual' = s /\ pc' = "visual"
        /\ (secs # 0 => f \in handle')
    BY <1>2 DEF Initlize, Retime
  <2> QED BY <2>1 DEF AnswerInv, Shown, WaitInv, Clocked, Origins, Refused
<1> QED BY <1>1, <1>2

LEMMA WaitEnter ==
  ASSUME TypeOK, LogoffInv, AnswerInv, WaitInv, Enter
  PROVE  AnswerInv' /\ WaitInv'
<1> USE ConstantsAssumption DEF ConstantsAssumption
<1>0. d \in CStateData /\ pc = "init" /\ AcquiredTimeout \in Nat /\ 0 \in Nat
  BY EnterFrame DEF TypeOK, AcquiredTimeout
<1>1. Clocked /\ Origins /\ Refused /\ Shown
  BY <1>0 DEF WaitInv, AnswerInv
<1>2. CASE InitDisconnected
  <2> DEFINE entered == [d EXCEPT !.prev_state = d.state, !.state = "DISCONNECTED",
                               !.eap_success = FALSE, !.eap_failure = FALSE,
                               !.auth_attempt_count = 0, !.logoff_init = FALSE,
                               !.disconnected = FALSE]
  <2>1. entered.state = "DISCONNECTED" /\ entered.prev_state = d.state
    BY <1>0 DEF CStateData
  <2>2. Initlize("DISCONNECTED", entered, {}, None, 0, <<>>)
    BY <1>2 DEF InitDisconnected
  <2> HIDE DEF entered
  <2> QED BY <1>0, <2>1, <2>2, EnteredAnew
<1>3. CASE InitConnecting
  <2> DEFINE entered == [d EXCEPT !.prev_state = d.state, !.state = "CONNECTING",
                               !.connect_timeout = StartTimeout,
                               !.auth_attempt_count = @ + 1, !.req_id = FALSE]
  <2>1. /\ entered.state = "CONNECTING" /\ entered.prev_state = d.state
        /\ entered.connect_timeout = StartTimeout
    BY <1>0 DEF CStateData
  <2>2. Initlize("CONNECTING", entered, Flags, "START_WHILE", StartTimeout,
                     <<Frame("eapol_start")>>)
    BY <1>3 DEF InitConnecting
  <2>3. d.state # "AUTHENTICATED"
    BY <1>0, <1>1, <2>2 DEF Initlize, Origins
  <2> HIDE DEF entered
  <2> QED BY <2>1, <2>2, <2>3, EnteredAnew
<1>4. CASE InitAcquired
  <2>1. CASE AnswersInPlace
    <3> DEFINE entered == [d EXCEPT !.req_id = FALSE, !.req_auth = FALSE]
    <3>1. /\ entered.state = d.state /\ entered.prev_state = d.prev_state
          /\ entered.logoff = d.logoff /\ entered.connect_timeout = d.connect_timeout
          /\ entered.auth_timeout = d.auth_timeout
          /\ entered.hold_timeout = d.hold_timeout
      BY <1>0 DEF CStateData
    <3>2. Initlize("ACQUIRED", entered, {}, None, 0, <<Frame("rsp_id")>>)
      BY <1>4, <2>1 DEF InitAcquired
    <3>3. d.prev_state = "AUTHENTICATED" /\ call.to = "ACQUIRED"
      BY <2>1, <3>2 DEF AnswersInPlace, Initlize
    <3>4. d.state \notin {"CONNECTING", "HOLD"}
      BY <1>0, <1>1, <3>3 DEF Origins, Refused, LogoffInv
    <3> HIDE DEF entered
    <3>5. ~KillBlocks({})
      BY DEF KillBlocks, Live
    <3>6. d' = entered /\ visual' = "ACQUIRED" /\ pc' = "visual" /\ handle' = handle
      BY <3>2, <3>5 DEF Initlize, Retime
    <3> QED
      BY <1>1, <3>1, <3>4, <3>6
      DEF AnswerInv, Shown, WaitInv, Clocked, Origins, Refused
  <2>2. CASE ~AnswersInPlace
    <3> DEFINE entered == [d EXCEPT !.prev_state = d.state, !.state = "ACQUIRED",
                                 !.auth_timeout = AcquiredTimeout,
                                 !.auth_attempt_count = 0,
                                 !.req_id = FALSE, !.req_auth = FALSE]
    <3>1. /\ entered.state = "ACQUIRED" /\ entered.prev_state = d.state
          /\ entered.auth_timeout = AcquiredTimeout
      BY <1>0 DEF CStateData
    <3>2. Initlize("ACQUIRED", entered, Flags, "AUTH_WHILE", AcquiredTimeout,
                       <<Frame("rsp_id")>>)
      BY <1>4, <2>2 DEF InitAcquired
    <3> HIDE DEF entered
    <3> QED BY <1>0, <3>1, <3>2, EnteredAnew
  <2> QED BY <2>1, <2>2
<1>5. CASE InitAuthenticating
  <2>1. CASE Md5Crashes
    <3>1. UNCHANGED <<visual, d>> /\ pc' = "crashed"
      BY <1>5, <2>1 DEF InitAuthenticating
    <3> QED BY <1>1, <3>1 DEF AnswerInv, Shown, WaitInv
  <2>2. CASE ~Md5Crashes
    <3> DEFINE entered == [d EXCEPT !.prev_state = d.state, !.state = "AUTHENTICATING",
                                 !.auth_timeout = AuthTimeout, !.req_auth = FALSE]
    <3>1. /\ entered.state = "AUTHENTICATING" /\ entered.prev_state = d.state
          /\ entered.auth_timeout = AuthTimeout
      BY <1>0 DEF CStateData
    <3>2. Initlize("AUTHENTICATING", entered, {"AUTH_WHILE"}, "AUTH_WHILE", AuthTimeout,
                       <<Frame(IF d.md5 THEN "rsp_md5" ELSE "rsp_pap")>>)
      BY <1>5, <2>2 DEF InitAuthenticating
    <3> HIDE DEF entered
    <3> QED BY <3>1, <3>2, EnteredAnew
  <2> QED BY <2>1, <2>2
<1>6. CASE InitAuthenticated
  <2> DEFINE entered == [d EXCEPT !.prev_state = d.state, !.state = "AUTHENTICATED",
                               !.eap_success = FALSE, !.eap_failure = FALSE]
  <2>1. entered.state = "AUTHENTICATED" /\ entered.prev_state = d.state
    BY <1>0 DEF CStateData
  <2>2. Initlize("AUTHENTICATED", entered, {"START_WHILE", "AUTH_WHILE"}, None, 0, <<>>)
    BY <1>6 DEF InitAuthenticated
  <2> HIDE DEF entered
  <2> QED BY <1>0, <2>1, <2>2, EnteredAnew
<1>7. CASE InitHold
  <2> DEFINE entered == [d EXCEPT !.prev_state = d.state, !.state = "HOLD",
                               !.hold_timeout = HeldTimeout,
                               !.hold_count = IF d.state = "AUTHENTICATED"
                                              THEN 100 ELSE @ + 1,
                               !.eap_success = FALSE, !.eap_failure = FALSE]
  <2>1. /\ entered.state = "HOLD" /\ entered.prev_state = d.state
        /\ entered.hold_timeout = HeldTimeout
        /\ d.state = "AUTHENTICATED" => entered.hold_count = 100
    BY <1>0 DEF CStateData
  <2>2. Initlize("HOLD", entered, Flags, "HOLD_WHILE", HeldTimeout, <<>>)
    BY <1>7 DEF InitHold
  <2> HIDE DEF entered
  <2> QED BY <2>1, <2>2, EnteredAnew
<1>8. CASE InitLogOff
  <2> DEFINE entered == [d EXCEPT !.prev_state = d.state, !.state = "LOGOFF",
                               !.logoff_init = TRUE]
  <2>1. entered.state = "LOGOFF" /\ entered.prev_state = d.state
    BY <1>0 DEF CStateData
  <2>2. Initlize("LOGOFF", entered, Flags, None, 0, <<Frame("logoff")>>)
    BY <1>8 DEF InitLogOff
  <2> HIDE DEF entered
  <2> QED BY <1>0, <2>1, <2>2, EnteredAnew
<1> QED BY <1>2, <1>3, <1>4, <1>5, <1>6, <1>7, <1>8 DEF Enter

\* The state object that returns leaves nothing unanswered and, in CONNECTING and
\* HOLD, a timeout to wait for; the one that calls CONNECTING is not AUTHENTICATED's.
LEMMA WaitMoveState ==
  ASSUME TypeOK, AnswerInv, WaitInv, MoveState
  PROVE  AnswerInv' /\ WaitInv'
<1>0. d \in CStateData /\ call \in Calls
  BY DEF TypeOK
<1>1. /\ pc = "visual" /\ pc' \in {"unwind", "move"}
  BY MoveStateFrame
<1>2. UNCHANGED <<visual, handle>>
  BY DEF MoveState, MoveDisconnected, MoveConnecting, MoveAcquired,
         MoveAuthenticating, MoveAuthenticated, MoveHold, MoveLogOff, InMoveState,
         timerVars
<1>3. Clocked /\ Origins /\ Refused /\ Shown
  BY <1>1 DEF WaitInv, AnswerInv
<1>4. d' \in {d, [d EXCEPT !.hold_count = 3], [d EXCEPT !.logoff = TRUE]}
  BY DEF MoveState, MoveDisconnected, MoveConnecting, MoveAcquired,
         MoveAuthenticating, MoveAuthenticated, MoveHold, MoveLogOff
<1>5. /\ d'.state = d.state /\ d'.prev_state = d.prev_state
      /\ d'.req_id = d.req_id /\ d'.req_auth = d.req_auth
      /\ d'.connect_timeout = d.connect_timeout
      /\ d'.auth_timeout = d.auth_timeout /\ d'.hold_timeout = d.hold_timeout
  BY <1>0, <1>4 DEF CStateData
<1>6. Shown' /\ Clocked'
  BY <1>2, <1>3, <1>5 DEF Shown, Clocked
<1>7. Origins'
  <2>1. pc' = "move" /\ call'.arg = "CONNECTING"
          => visual \in {"DISCONNECTED", "CONNECTING", "HOLD"}
    BY <1>0
    DEF MoveState, MoveDisconnected, MoveConnecting, MoveAcquired,
        MoveAuthenticating, MoveAuthenticated, MoveHold, MoveLogOff, InMoveState,
        CallOnStateMove, ReturnFromMoveState, Calls
  <2> QED BY <1>1, <1>2, <1>3, <1>5, <2>1 DEF Origins, Shown
<1>8. Refused'
  <2> SUFFICES ASSUME d.state = "HOLD", d.prev_state = "AUTHENTICATED"
               PROVE  d'.logoff
    BY <1>5 DEF Refused
  <2>1. visual = "HOLD"
    BY <1>3 DEF Origins
  <2>2. MoveHold
    BY <2>1
    DEF MoveState, MoveDisconnected, MoveConnecting, MoveAcquired,
        MoveAuthenticating, MoveAuthenticated, MoveLogOff, InMoveState
  <2>3. CASE d.logoff
    BY <1>0, <2>2, <2>3 DEF MoveHold, CStateData
  <2>4. CASE d.hold_count = 100
    BY <1>0, <2>2, <2>4 DEF MoveHold, CStateData
  <2> QED BY <1>3, <2>3, <2>4 DEF Refused
<1>9. CASE pc' = "move"
  BY <1>6, <1>7, <1>8, <1>9 DEF AnswerInv, WaitInv
<1>10. CASE pc' = "unwind"
  <2>1. Answered' /\ Waits'
    <3>1. MoveDisconnected => FALSE
      BY <1>10 DEF MoveDisconnected, CallOnStateMove
    <3>2. CASE MoveConnecting
      BY <1>3, <1>5, <1>10, <3>2
      DEF MoveConnecting, InMoveState, CallOnStateMove, WaitsForAnswer, Shown, Answered,
          Waits
    <3>3. CASE MoveAcquired
      BY <1>3, <1>5, <1>10, <3>3
      DEF MoveAcquired, InMoveState, CallOnStateMove, Origins, Answered, Waits
    <3>4. CASE MoveAuthenticating
      BY <1>3, <1>5, <1>10, <3>4
      DEF MoveAuthenticating, InMoveState, CallOnStateMove, Shown, Answered, Waits
    <3>5. CASE MoveAuthenticated
      BY <1>3, <1>5, <1>10, <3>5
      DEF MoveAuthenticated, InMoveState, CallOnStateMove, Shown, Answered, Waits
    <3>6. CASE MoveHold
      <4>1. d.hold_timeout # 0 \/ d'.hold_count = 100
        BY <1>0, <1>10, <3>6 DEF MoveHold, CallOnStateMove, CStateData
      <4> QED
        BY <1>3, <1>5, <3>6, <4>1 DEF MoveHold, InMoveState, Shown, Answered, Waits
    <3>7. CASE MoveLogOff
      BY <1>3, <1>5, <3>7 DEF MoveLogOff, InMoveState, Shown, Answered, Waits
    <3> QED BY <3>1, <3>2, <3>3, <3>4, <3>5, <3>6, <3>7 DEF MoveState
  <2> QED BY <1>6, <1>7, <1>8, <1>10, <2>1 DEF AnswerInv, WaitInv
<1> QED BY <1>1, <1>9, <1>10

LEMMA WaitUnwind ==
  ASSUME TypeOK, AnswerInv, WaitInv, Unwind
  PROVE  AnswerInv' /\ WaitInv'
<1>1. /\ pc = "unwind" /\ pc' = "idle" /\ UNCHANGED <<visual, handle>>
      /\ call'.arg = None
      /\ d' = d \/ d' = [d EXCEPT !.state = "LOGOFF"]
  BY DEF Unwind, NoCall
<1>2. d' = d \/ d'.state = "LOGOFF"
  BY <1>1 DEF TypeOK, CStateData
<1> QED
  BY <1>1, <1>2
  DEF AnswerInv, Shown, Answered, WaitInv, Clocked, Origins, Refused, Waits

LEMMA WaitStep ==
  ASSUME TypeOK, LogoffInv, AnswerInv, WaitInv, [Next]_vars
  PROVE  AnswerInv' /\ WaitInv'
<1>1. CASE Control \/ UNCHANGED vars
  BY <1>1, WaitControl
<1>2. CASE Dispatch
  BY <1>2, WaitDispatch
<1>3. CASE OnStateMove
  BY <1>3, WaitOnStateMove
<1>4. CASE Enter
  BY <1>4, WaitEnter
<1>5. CASE MoveState
  BY <1>5, WaitMoveState
<1>6. CASE Unwind
  BY <1>6, WaitUnwind
<1>7. CASE \E f \in Flags : Timer(f)
  BY <1>7, WaitTimer
<1> QED BY <1>1, <1>2, <1>3, <1>4, <1>5, <1>6, <1>7 DEF Next, Machine

LEMMA WaitInit == Init => AnswerInv /\ WaitInv
  BY DEF Init, AnswerInv, Shown, Answered, WaitInv, Clocked, Origins, Refused, Waits

\* Between two messages every identity request has got its response and every
\* challenge its answer, in the states that expect one, whichever NAS asks and
\* whether or not its request was answered without leaving the state.
THEOREM AllRequestsAnswered == Spec => []RequestsAnswered
<1>1. Init => LogoffInv
  BY DEF Init, LogoffInv
<1>2. TypeOK /\ LogoffInv /\ [Next]_vars => LogoffInv'
  BY LogoffStep
<1>3. TypeOK /\ LogoffInv /\ AnswerInv /\ WaitInv /\ [Next]_vars => AnswerInv' /\ WaitInv'
  BY WaitStep
<1>4. AnswerInv => RequestsAnswered
  BY DEF AnswerInv, Answered, RequestsAnswered
<1> QED BY <1>1, <1>2, <1>3, <1>4, WaitInit, TypeCorrect, PTL DEF Spec

-----------------------------------------------------------------------------
(* ReportsTrueSuccess *)

Told == ctl.has_auth_success \/ ctl.reconnect_fail

\* A Success is not acted on: a START has come, and DISCONNECTED is entered first,
\* which forgets it, or the client is to log off.
Blocked == d.disconnected \/ d.logoff \/ d.logoff_init

\* Strengthening: a Success that is to be acted on is one the control thread knows
\* of, and the handler that found it acts on it before the next message, which may be
\* a failure.  An attempt that gave up is on its way to AUTHENTICATED with
\* reconnect_fail set.
TruthInv ==
  /\ "failure" \notin Offered => ~Queued("failure") /\ ctl.failures = 0
  /\ d.eap_success =>
       /\ ctl.has_auth_success \/ Blocked
       /\ pc = "init" => Blocked \/ call.to = "AUTHENTICATED"
       /\ pc = "visual" => Blocked
       /\ pc \in {"unwind", "idle"} => Blocked \/ d.state = "LOGOFF"
  /\ pc \in {"move", "init"} /\ call.arg = "AUTHENTICATED" => Told
  /\ pc = "init" /\ call.to = "AUTHENTICATED" => Told

\* What the queue holds after a post was there before, or is the message posted.
LEMMA PostQueues ==
  ASSUME TypeOK, NEW m \in Messages, inbox' \in {inbox, Append(inbox, m)},
         NEW q, q # m, Queued(q)'
  PROVE  Queued(q)
<1>1. inbox \in Seq(Messages)
  BY DEF TypeOK
<1>2. CASE inbox' = inbox
  BY <1>2 DEF Queued
<1>3. CASE inbox' = Append(inbox, m)
  <2>1. /\ Len(inbox') = Len(inbox) + 1 /\ Len(inbox) \in Nat
        /\ inbox'[Len(inbox) + 1] = m
        /\ \A i \in 1..Len(inbox) : inbox'[i] = inbox[i]
    BY <1>1, <1>3, AppendProperties
  <2>2. PICK i \in 1..(Len(inbox) + 1) : inbox'[i] = q
    BY <2>1 DEF Queued
  <2>3. i \in 1..Len(inbox)
    BY <2>1, <2>2
  <2> QED BY <2>1, <2>2, <2>3 DEF Queued
<1> QED BY <1>2, <1>3

\* Receiving takes a message that was queued and adds none.
LEMMA ReceiveQueues ==
  ASSUME TypeOK, NEW m, Receive(m)
  PROVE  Queued(m) /\ \A q : Queued(q)' => Queued(q)
<1>1. /\ inbox \in Seq(Messages) /\ inbox # <<>>
      /\ inbox' = Tail(inbox) /\ inbox[1] = m
  BY DEF TypeOK, Receive
<1>2. /\ Len(inbox') = Len(inbox) - 1 /\ Len(inbox) \in Nat /\ Len(inbox) # 0
      /\ \A j \in 1..Len(inbox') : inbox'[j] = inbox[j + 1]
  BY <1>1, HeadTailProperties
<1>3. \A q : Queued(q)' => Queued(q)
  <2> SUFFICES ASSUME NEW q, Queued(q)'
               PROVE  Queued(q)
    OBVIOUS
  <2>1. PICK j \in 1..Len(inbox') : inbox'[j] = q
    BY DEF Queued
  <2>2. j + 1 \in 1..Len(inbox) /\ inbox[j + 1] = q
    BY <1>2, <2>1
  <2> QED BY <2>2 DEF Queued
<1>4. 1 \in 1..Len(inbox)
  BY <1>2
<1> QED BY <1>1, <1>3, <1>4 DEF Queued

LEMMA TruthControl ==
  ASSUME TypeOK, TruthInv, Control, "LateFailure" \in Repairs \/ "failure" \notin Offered
  PROVE  TruthInv'
<1>0. ctl \in ControlFields /\ d \in CStateData
  BY DEF TypeOK
<1>1. UNCHANGED <<pc, call>>
  BY DEF Control, OnPacketReturn, PostOrder, SafeExitThread, SendLogOffCompThird,
         OnRecvFailure, Post
\* OnRecvFailure would clear has_auth_success, but it is repaired or no failure comes.
<1>2. "failure" \notin Offered => ~Queued("failure")' /\ ctl'.failures = 0
  <2> SUFFICES ASSUME "failure" \notin Offered
               PROVE  ~Queued("failure")' /\ ctl'.failures = 0
    OBVIOUS
  <2>1. \E m \in Messages : m # "failure" /\ inbox' \in {inbox, Append(inbox, m)}
    <3>1. "stop" \in Messages /\ Packets \cup Orders \subseteq Messages
      BY DEF Messages, Orders
    <3>2. CASE \E p \in Packets, vendor \in Vendors : OnPacketReturn(p, vendor)
      BY <3>1, <3>2 DEF OnPacketReturn, Post
    <3>3. CASE \E o \in Orders : PostOrder(o)
      BY <3>1, <3>3 DEF PostOrder, Post
    <3>4. CASE SafeExitThread \/ SendLogOffCompThird \/ OnRecvFailure
      BY <3>1, <3>4 DEF SafeExitThread, SendLogOffCompThird, OnRecvFailure, Post
    <3> QED BY <3>2, <3>3, <3>4 DEF Control
  <2>2. ~Queued("failure")'
    BY <2>1, PostQueues DEF TruthInv
  <2>3. ctl.failures = 0 /\ ~OnRecvFailure
    BY DEF OnRecvFailure, TruthInv
  <2> QED
    BY <1>0, <2>2, <2>3
    DEF Control, OnPacketReturn, PostOrder, SafeExitThread, SendLogOffCompThird,
        ControlFields
<1>3. /\ ctl'.has_auth_success = ctl.has_auth_success
      /\ ctl'.reconnect_fail = ctl.reconnect_fail
  <2>1. CASE OnRecvFailure
    <3>1. "LateFailure" \in Repairs
      BY <2>1 DEF OnRecvFailure, TruthInv
    <3> QED BY <1>0, <2>1, <3>1 DEF OnRecvFailure, Repaired, ControlFields
  <2>2. CASE ~OnRecvFailure
    BY <1>0, <2>2
    DEF Control, OnPacketReturn, PostOrder, SafeExitThread, SendLogOffCompThird,
        ControlFields
  <2> QED BY <2>1, <2>2
<1>4. d'.eap_success = d.eap_success /\ (Blocked <=> Blocked') /\ d'.state \in {d.state, "LOGOFF"}
  <2>1. d' = d \/ d' = [d EXCEPT !.state = "LOGOFF"]
    BY DEF Control, OnPacketReturn, PostOrder, SafeExitThread, SendLogOffCompThird,
           OnRecvFailure, Post
  <2> QED BY <1>0, <2>1 DEF CStateData, Blocked
<1> QED BY <1>1, <1>2, <1>3, <1>4 DEF TruthInv, Told

LEMMA TruthDispatch ==
  ASSUME TypeOK, TruthInv, Dispatch
  PROVE  TruthInv' /\ Note("AUTHENTICATED") \notin {out'[i] : i \in DOMAIN out'}
<1>0. ctl \in ControlFields /\ d \in CStateData /\ call \in Calls
  BY DEF TypeOK
<1>1. \A f \in Frames : Frame(f) # Note("AUTHENTICATED")
  BY DEF Frame, Note
<1>2. ASSUME NEW m, Receive(m)
      PROVE  /\ pc = "idle"
             /\ "failure" \notin Offered => m # "failure" /\ ~Queued("failure")'
  BY <1>2, ReceiveQueues DEF TruthInv, Receive
<1>3. CASE OnStartMachine
  <2>1. d'.disconnected /\ ctl'.failures = ctl.failures /\ call'.arg = None
        /\ pc' = "move" /\ out' = <<>>
    BY <1>0, <1>3 DEF OnStartMachine, CallOnStateMove, ControlFields, CStateData, Calls
  <2> QED BY <1>2, <1>3, <2>1 DEF TruthInv, Blocked, None, OnStartMachine
<1>4. CASE \E p \in Packets, reason \in BOOLEAN : OnPacketNotify(p, reason)
  <2>1. PICK p \in Packets, reason \in BOOLEAN : OnPacketNotify(p, reason)
    BY <1>4
  <2>2. /\ Receive(p) /\ pc = "idle"
        /\ "failure" \notin Offered => p # "failure" /\ ~Queued("failure")'
    BY <1>2, <2>1 DEF OnPacketNotify
  <2>3. CASE visual = None \/ d.state = "LOGOFF" \/ p = "other"
    BY <2>1, <2>2, <2>3 DEF OnPacketNotify, TruthInv, Told, Blocked
  <2>4. CASE ~(visual = None \/ d.state = "LOGOFF" \/ p = "other")
    <3>1. ParseFrame(p, reason) /\ pc' = "move" /\ call'.arg = None
      BY <1>0, <2>1, <2>4 DEF OnPacketNotify, CallOnStateMove, Calls
    <3>2. /\ p # "failure" => /\ ctl'.failures = ctl.failures
                              /\ ctl.has_auth_success => ctl'.has_auth_success
          /\ p = "success" => ctl'.has_auth_success
          /\ Blocked <=> Blocked'
          /\ d'.eap_success = (d.eap_success \/ p = "success")
      BY <1>0, <3>1 DEF ParseFrame, ControlFields, CStateData, Blocked
    \* A failure finds no Success that is still to be acted on.
    <3>3. p = "failure" /\ d.eap_success => Blocked
      BY <2>2, <2>4 DEF TruthInv
    <3>4. d'.eap_success => ctl'.has_auth_success \/ Blocked'
      BY <3>2, <3>3 DEF TruthInv
    <3>5. out' = <<>> \/ out' = <<Frame("nak")>> \/ out' = <<Note("EAP_FAILURE")>>
      BY <3>1 DEF ParseFrame
    <3>6. /\ Frame("nak") # Note("AUTHENTICATED")
          /\ Note("EAP_FAILURE") # Note("AUTHENTICATED")
      BY DEF Frame, Note
    <3>7. Note("AUTHENTICATED") \notin {out'[i] : i \in DOMAIN out'}
      BY <3>5, <3>6
    <3> QED BY <2>2, <3>1, <3>2, <3>4, <3>7 DEF TruthInv, None
  <2> QED BY <2>3, <2>4
<1>5. CASE \E f \in Flags : OnTimer(f)
  <2>1. PICK f \in Flags : OnTimer(f)
    BY <1>5
  <2>2. /\ call'.arg = None /\ UNCHANGED ctl /\ out' = <<>> /\ Receive(f)
        /\ pc' \in {"hung", "move"}
        /\ d'.eap_success = d.eap_success /\ (Blocked <=> Blocked')
    BY <1>0, <2>1 DEF OnTimer, NoCall, Flags, CStateData, Blocked
  <2> QED BY <1>2, <2>2 DEF TruthInv, None
<1>6. CASE OnSayHello
  <2>1. Frame("hello") # Note("AUTHENTICATED")
    BY DEF Frame, Note
  <2>2. Note("AUTHENTICATED") \notin {out'[i] : i \in DOMAIN out'}
    BY <1>6, <2>1 DEF OnSayHello
  <2> QED BY <1>2, <1>6, <2>2 DEF OnSayHello, TruthInv, Blocked
<1>7. CASE OnSendLogoff
  <2>1. Frame("logoff") # Note("AUTHENTICATED")
    BY DEF Frame, Note
  <2>2. Note("AUTHENTICATED") \notin {out'[i] : i \in DOMAIN out'}
    BY <1>7, <2>1 DEF OnSendLogoff
  <2>3. d'.eap_success = d.eap_success /\ (Blocked <=> Blocked') /\ d'.state \in {d.state, "LOGOFF"}
    BY <1>0, <1>7 DEF OnSendLogoff, CStateData, Blocked
  <2> QED BY <1>2, <1>7, <2>2, <2>3 DEF OnSendLogoff, TruthInv
<1>8. CASE StopThread
  BY <1>2, <1>8 DEF StopThread, TruthInv, Blocked
<1> QED BY <1>3, <1>4, <1>5, <1>6, <1>7, <1>8 DEF Dispatch

LEMMA TruthOnStateMove ==
  ASSUME TypeOK, TruthInv, OnStateMove
  PROVE  TruthInv'
<1>0. ctl \in ControlFields /\ call \in Calls
  BY DEF TypeOK
<1>1. /\ pc = "move" /\ UNCHANGED <<inbox, d>> /\ call'.arg = call.arg
      /\ ctl'.has_auth_success = ctl.has_auth_success /\ ctl'.failures = ctl.failures
  BY <1>0 DEF OnStateMove, ControlFields, Calls
<1>2. /\ "failure" \notin Offered => ~Queued("failure")' /\ ctl'.failures = 0
      /\ d'.eap_success => ctl'.has_auth_success \/ Blocked'
  BY <1>1 DEF TruthInv, Queued, Blocked
<1>3. d.eap_success /\ ~IsAuthenticated => Blocked
  BY DEF IsAuthenticated, Blocked
<1>4. CASE pc' = "init"
  <2>1. call'.to = Chosen(call.arg)
        /\ (ctl'.reconnect_fail = (ctl.reconnect_fail /\ ~IsAuthenticated))
    BY <1>0, <1>4 DEF OnStateMove, ControlFields, Calls
  <2>2. CASE IsAuthenticated
    <3>1. ctl.has_auth_success /\ Chosen(call.arg) = "AUTHENTICATED"
      BY <2>2 DEF IsAuthenticated, TruthInv, Chosen, Blocked
    <3> QED BY <1>1, <1>2, <1>4, <2>1, <3>1 DEF TruthInv, Told
  <2>3. CASE ~IsAuthenticated
    <3>1. Chosen(call.arg) = "AUTHENTICATED" => call.arg = "AUTHENTICATED"
      BY <2>3 DEF Chosen
    <3>2. d'.eap_success => Blocked'
      BY <1>1, <1>3, <2>3 DEF Blocked
    <3> QED BY <1>1, <1>2, <1>4, <2>1, <2>3, <3>1, <3>2 DEF TruthInv, Told
  <2> QED BY <2>2, <2>3
<1>5. CASE pc' = "unwind"
  <2>1. d.state = "LOGOFF"
    BY <1>5 DEF OnStateMove
  <2> QED BY <1>1, <1>2, <1>5, <2>1 DEF TruthInv
<1>6. CASE pc' = "visual"
  <2>1. Chosen(call.arg) = None
    BY <1>6 DEF OnStateMove
  <2>2. ~IsAuthenticated
    BY <2>1 DEF Chosen, None
  <2>3. d'.eap_success => Blocked'
    BY <1>1, <1>3, <2>2 DEF Blocked
  <2> QED BY <1>1, <1>2, <1>6, <2>3 DEF TruthInv
<1> QED BY <1>4, <1>5, <1>6 DEF OnStateMove

\* The elements of a sequence that starts with a and goes on with b or ends.
LEMMA AfterOne ==
  ASSUME NEW a, NEW b
  PROVE  /\ \A k : k \in DOMAIN (<<a>> \o <<>>) => (<<a>> \o <<>>)[k] = a
         /\ \A k : k \in DOMAIN (<<a>> \o <<b>>) => (<<a>> \o <<b>>)[k] \in {a, b}
<1>1. <<a>> \in Seq({a, b}) /\ <<b>> \in Seq({a, b})
  OBVIOUS
<1>2. <<a>> \o <<>> = <<a>>
  BY <1>1, ConcatEmptySeq
<1>3. <<a>> \o <<b>> \in Seq({a, b})
  BY <1>1, ConcatProperties
<1>4. \A k : k \in DOMAIN <<a>> => <<a>>[k] = a
  OBVIOUS
<1> QED BY <1>2, <1>3, <1>4, ElementOfSeq, LenProperties

\* The report names the state entered or, as the code is, OnStateMove's argument.
LEMMA InitlizeReports ==
  ASSUME NEW s, NEW entered, NEW K, NEW f, NEW secs, NEW frames,
         frames = <<>> \/ \E x : frames = <<Frame(x)>>,
         Initlize(s, entered, K, f, secs, frames),
         Note("AUTHENTICATED") \in {out'[i] : i \in DOMAIN out'}
  PROVE  "AUTHENTICATED" \in {call.arg, call.to}
<1>1. PICK i \in DOMAIN out' : out'[i] = Note("AUTHENTICATED")
  OBVIOUS
<1>2. ~KillBlocks(K) /\ out' = frames \o Report(entered.prev_state)
  BY <1>1 DEF Initlize
<1>3. PICK n \in {call.arg, call.to} :
        Report(entered.prev_state) = <<>> \/ Report(entered.prev_state) = <<Note(n)>>
  BY DEF Report
<1>4. \A k : k \in DOMAIN out' => out'[k] = Note(n) \/ \E x : out'[k] = Frame(x)
  <2>1. CASE frames = <<>>
    <3>1. out' = <<>> \/ out' = <<Note(n)>>
      BY <1>2, <1>3, <2>1
    <3> QED BY <3>1
  <2>2. CASE \E x : frames = <<Frame(x)>>
    <3>1. PICK x : frames = <<Frame(x)>>
      BY <2>2
    <3>2. out' = <<Frame(x)>> \o <<>> \/ out' = <<Frame(x)>> \o <<Note(n)>>
      BY <1>2, <1>3, <3>1
    <3> QED BY <3>2, AfterOne
  <2> QED BY <2>1, <2>2
<1>5. \A x : Frame(x) # Note("AUTHENTICATED")
  BY DEF Frame, Note
<1>6. Note(n) = Note("AUTHENTICATED")
  BY <1>1, <1>4, <1>5
<1> QED BY <1>6 DEF Note

LEMMA EnterReports ==
  ASSUME Enter, Note("AUTHENTICATED") \in {out'[i] : i \in DOMAIN out'}
  PROVE  "AUTHENTICATED" \in {call.arg, call.to}
<1> USE InitlizeReports
<1>1. CASE InitDisconnected  BY <1>1 DEF InitDisconnected
<1>2. CASE InitConnecting    BY <1>2 DEF InitConnecting
<1>3. CASE InitAcquired      BY <1>3 DEF InitAcquired
<1>4. CASE InitAuthenticating
  <2>1. CASE Md5Crashes
    BY <1>4, <2>1 DEF InitAuthenticating
  <2>2. CASE ~Md5Crashes
    BY <1>4, <2>2 DEF InitAuthenticating
  <2> QED BY <2>1, <2>2
<1>5. CASE InitAuthenticated BY <1>5 DEF InitAuthenticated
<1>6. CASE InitHold          BY <1>6 DEF InitHold
<1>7. CASE InitLogOff        BY <1>7 DEF InitLogOff
<1> QED BY <1>1, <1>2, <1>3, <1>4, <1>5, <1>6, <1>7 DEF Enter

\* Entering a state brings no Success, AUTHENTICATED acts on the last one, and only
\* DISCONNECTED, which forgets it, ends what blocks it.
LEMMA EnterKeepsSuccess ==
  ASSUME TypeOK, Enter, d'.eap_success
  PROVE  /\ d.eap_success /\ (Blocked => Blocked')
         /\ pc' = "visual" => call.to # "AUTHENTICATED"
<1>0. d \in CStateData
  BY DEF TypeOK
<1> USE DEF Blocked
<1>1. CASE InitDisconnected
  <2>1. ~KillBlocks({})
    BY DEF KillBlocks, Live
  <2> QED BY <1>0, <1>1, <2>1 DEF InitDisconnected, Initlize, CStateData
<1>2. CASE InitConnecting
  <2>1. d' \in {[d EXCEPT !.prev_state = d.state, !.state = "CONNECTING"],
              [d EXCEPT !.prev_state = d.state, !.state = "CONNECTING",
                        !.connect_timeout = StartTimeout,
                        !.auth_attempt_count = @ + 1, !.req_id = FALSE]}
    BY <1>2 DEF InitConnecting, Initlize
  <2>2. call.to = "CONNECTING"
    BY <1>2 DEF InitConnecting, Initlize
  <2> QED BY <1>0, <2>1, <2>2 DEF CStateData
<1>3. CASE InitAcquired
  <2>1. d' \in {[d EXCEPT !.prev_state = d.state, !.state = "ACQUIRED"],
              [d EXCEPT !.req_id = FALSE, !.req_auth = FALSE],
              [d EXCEPT !.prev_state = d.state, !.state = "ACQUIRED",
                        !.auth_timeout = AcquiredTimeout, !.auth_attempt_count = 0,
                        !.req_id = FALSE, !.req_auth = FALSE]}
    <3>1. CASE AnswersInPlace
      <4>1. ~KillBlocks({})
        BY DEF KillBlocks, Live
      <4> QED BY <1>3, <3>1, <4>1 DEF InitAcquired, Initlize
    <3>2. CASE ~AnswersInPlace
      BY <1>3, <3>2 DEF InitAcquired, Initlize
    <3> QED BY <3>1, <3>2
  <2>2. call.to = "ACQUIRED"
    BY <1>3 DEF InitAcquired, Initlize
  <2> QED BY <1>0, <2>1, <2>2 DEF CStateData
<1>4. CASE InitAuthenticating
  <2>1. CASE Md5Crashes
    BY <1>4, <2>1 DEF InitAuthenticating
  <2>2. CASE ~Md5Crashes
    <3>1. d' \in {[d EXCEPT !.prev_state = d.state, !.state = "AUTHENTICATING"],
                [d EXCEPT !.prev_state = d.state, !.state = "AUTHENTICATING",
                          !.auth_timeout = AuthTimeout, !.req_auth = FALSE]}
      BY <1>4, <2>2 DEF InitAuthenticating, Initlize
    <3>2. call.to = "AUTHENTICATING"
      BY <1>4, <2>2 DEF InitAuthenticating, Initlize
    <3> QED BY <1>0, <3>1, <3>2 DEF CStateData
  <2> QED BY <2>1, <2>2
<1>5. CASE InitAuthenticated
  <2>1. d' \in {[d EXCEPT !.prev_state = d.state, !.state = "AUTHENTICATED"],
              [d EXCEPT !.prev_state = d.state, !.state = "AUTHENTICATED",
                        !.eap_success = FALSE, !.eap_failure = FALSE]}
    BY <1>5 DEF InitAuthenticated, Initlize
  <2>2. pc' = "visual" => ~d'.eap_success
    BY <1>0, <1>5 DEF InitAuthenticated, Initlize, CStateData
  <2> QED BY <1>0, <2>1, <2>2 DEF CStateData
<1>6. CASE InitHold
  <2>1. d' \in {[d EXCEPT !.prev_state = d.state, !.state = "HOLD"],
              [d EXCEPT !.prev_state = d.state, !.state = "HOLD",
                        !.hold_timeout = HeldTimeout,
                        !.hold_count = IF d.state = "AUTHENTICATED" THEN 100 ELSE @ + 1,
                        !.eap_success = FALSE, !.eap_failure = FALSE]}
    BY <1>6 DEF InitHold, Initlize
  <2>2. call.to = "HOLD"
    BY <1>6 DEF InitHold, Initlize
  <2> QED BY <1>0, <2>1, <2>2 DEF CStateData
<1>7. CASE InitLogOff
  <2>1. d' \in {[d EXCEPT !.prev_state = d.state, !.state = "LOGOFF"],
              [d EXCEPT !.prev_state = d.state, !.state = "LOGOFF",
                        !.logoff_init = TRUE]}
    BY <1>7 DEF InitLogOff, Initlize
  <2>2. call.to = "LOGOFF"
    BY <1>7 DEF InitLogOff, Initlize
  <2> QED BY <1>0, <2>1, <2>2 DEF CStateData
<1> QED BY <1>1, <1>2, <1>3, <1>4, <1>5, <1>6, <1>7 DEF Enter

LEMMA TruthEnter ==
  ASSUME TypeOK, TruthInv, Enter
  PROVE  /\ TruthInv'
         /\ Note("AUTHENTICATED") \in {out'[i] : i \in DOMAIN out'} => Told
<1>1. pc = "init" /\ pc' \in {"visual", "hung", "crashed"} /\ UNCHANGED <<inbox, ctl>>
  BY EnterFrame
<1>2. "failure" \notin Offered => ~Queued("failure")' /\ ctl'.failures = 0
  BY <1>1 DEF TruthInv, Queued
<1>3. TruthInv'
  BY <1>1, <1>2, EnterKeepsSuccess DEF TruthInv
<1>4. "AUTHENTICATED" \in {call.arg, call.to} => Told
  BY <1>1 DEF TruthInv
<1> QED BY <1>3, <1>4, EnterReports

LEMMA TruthMoveState ==
  ASSUME TypeOK, TruthInv, MoveState
  PROVE  TruthInv' /\ Note("AUTHENTICATED") \notin {out'[i] : i \in DOMAIN out'}
<1>0. ctl \in ControlFields /\ d \in CStateData /\ call \in Calls
  BY DEF TypeOK
<1>1. pc = "visual" /\ pc' \in {"unwind", "move"} /\ inbox' = inbox
  BY MoveStateFrame
<1>2. d'.eap_success = d.eap_success /\ (Blocked => Blocked')
  <2>1. d' \in {d, [d EXCEPT !.hold_count = 3], [d EXCEPT !.logoff = TRUE]}
    BY DEF MoveState, MoveDisconnected, MoveConnecting, MoveAcquired,
           MoveAuthenticating, MoveAuthenticated, MoveHold, MoveLogOff
  <2> QED BY <1>0, <2>1 DEF CStateData, Blocked
<1>3. ctl'.has_auth_success = ctl.has_auth_success /\ ctl'.failures = ctl.failures
  BY <1>0
  DEF MoveState, MoveDisconnected, MoveConnecting, MoveAcquired, MoveAuthenticating,
      MoveAuthenticated, MoveHold, MoveLogOff, ControlFields
<1>4. pc' = "move" /\ call'.arg = "AUTHENTICATED" => ctl'.reconnect_fail
  BY <1>0
  DEF MoveState, MoveDisconnected, MoveConnecting, MoveAcquired, MoveAuthenticating,
      MoveAuthenticated, MoveHold, MoveLogOff, CallOnStateMove, ReturnFromMoveState,
      ControlFields, Calls
<1>5. \/ out' = <<>>
      \/ \E n \in {"FORCE_OFFLINE", "COMPATIBLE_LOGOFF"} : out' = <<Note(n)>>
  BY DEF MoveState, MoveDisconnected, MoveConnecting, MoveAcquired, MoveAuthenticating,
         MoveAuthenticated, MoveHold, MoveLogOff
<1>6. \A n \in {"FORCE_OFFLINE", "COMPATIBLE_LOGOFF"} : Note(n) # Note("AUTHENTICATED")
  BY DEF Note
<1>7. Note("AUTHENTICATED") \notin {out'[i] : i \in DOMAIN out'}
  BY <1>5, <1>6
<1>8. "failure" \notin Offered => ~Queued("failure")' /\ ctl'.failures = 0
  BY <1>1, <1>3 DEF TruthInv, Queued
<1> QED BY <1>1, <1>2, <1>3, <1>4, <1>7, <1>8 DEF TruthInv, Told

LEMMA TruthOthers ==
  ASSUME TypeOK, TruthInv, Unwind \/ (\E f \in Flags : Timer(f)) \/ UNCHANGED vars
  PROVE  TruthInv'
<1>1. CASE Unwind
  <2>1. /\ d'.eap_success = d.eap_success /\ (Blocked <=> Blocked')
        /\ d'.state \in {d.state, "LOGOFF"}
    BY <1>1 DEF Unwind, TypeOK, CStateData, Blocked
  <2> QED BY <1>1, <2>1 DEF Unwind, TruthInv, Queued
<1>2. CASE \E f \in Flags : Timer(f)
  <2>1. PICK f \in Flags : Timer(f)
    BY <1>2
  <2>2. UNCHANGED <<pc, call, d, ctl>> /\ inbox' \in {inbox, Append(inbox, f)}
    BY <2>1 DEF Timer, Expire, Notify
  <2>3. f \in Messages /\ f # "failure"
    BY DEF Flags, Messages
  <2> QED BY <2>2, <2>3, PostQueues DEF TruthInv, Told, Blocked
<1>3. CASE UNCHANGED vars
  BY <1>3 DEF vars, TruthInv, Told, Blocked, Queued
<1> QED BY <1>1, <1>2, <1>3

\* In one step the invariant is kept, and AUTHENTICATED is reported for a reason.
LEMMA TruthStep ==
  ASSUME "LateFailure" \in Repairs \/ "failure" \notin Offered, TypeOK, TruthInv, [Next]_vars
  PROVE  /\ TruthInv'
         /\ UNCHANGED vars \/ (Note("AUTHENTICATED") \in {out'[i] : i \in DOMAIN out'}
                                => ctl.has_auth_success \/ ctl.reconnect_fail)
<1>1. CASE Control
  <2>1. out' = <<>>
    BY <1>1 DEF Control, OnPacketReturn, PostOrder, SafeExitThread,
                SendLogOffCompThird, OnRecvFailure, Post
  <2> QED BY <1>1, <2>1, TruthControl
<1>2. CASE Dispatch
  BY <1>2, TruthDispatch
<1>3. CASE OnStateMove
  <2>1. out' = <<>>
    BY <1>3 DEF OnStateMove
  <2> QED BY <1>3, <2>1, TruthOnStateMove
<1>4. CASE Enter
  BY <1>4, TruthEnter DEF Told
<1>5. CASE MoveState
  BY <1>5, TruthMoveState
<1>6. CASE Unwind \/ \E f \in Flags : Timer(f)
  <2>1. out' = <<>>
    BY <1>6 DEF Unwind, Timer, Expire, Notify
  <2> QED BY <1>6, <2>1, TruthOthers
<1>7. CASE UNCHANGED vars
  BY <1>7, TruthOthers
<1> QED BY <1>1, <1>2, <1>3, <1>4, <1>5, <1>6, <1>7 DEF Next, Machine

LEMMA TruthInit == Init => TruthInv
<1>1. Init => ~Queued("failure")
  BY DEF Init, Queued
<1> QED BY <1>1 DEF Init, TruthInv

\* AUTHENTICATED is reported to the control thread only for a Success since the last
\* START and the last EAP failure, or for an attempt that failed: a Success from before
\* them is never taken for a new one.  The control thread must not undo the Success with
\* its late answer to a failure: that is repaired, or there is no failure.
THEOREM ReportsAreTrue ==
  ASSUME "LateFailure" \in Repairs \/ "failure" \notin Offered
  PROVE  Spec => ReportsTrueSuccess
<1> DEFINE Step == Note("AUTHENTICATED") \in {out'[i] : i \in DOMAIN out'}
                     => ctl.has_auth_success \/ ctl.reconnect_fail
<1>1. TypeOK /\ TruthInv /\ [Next]_vars => TruthInv' /\ [Step]_vars
  BY TruthStep
<1> QED BY <1>1, TruthInit, TypeCorrect, PTL DEF Spec, ReportsTrueSuccess

-----------------------------------------------------------------------------
(* WaitIsTimed *)

\* Strengthening: a client whose time has run out waits on only while it counts as
\* authenticated, and already so when its state object returns.
Trusted ==
  /\ pc \in {"idle", "unwind"} /\ d.auth_timeout = 0
  /\ d.state \in {"ACQUIRED", "AUTHENTICATING"}
  => ctl.has_auth_success

\* Nobody but START and a failure the machine handles takes has_auth_success back.
LEMMA TrustedStep ==
  ASSUME TypeOK, AnswerInv, Trusted, [Next]_vars,
         "LateFailure" \in Repairs \/ ~OnRecvFailure
  PROVE  Trusted'
<1>0. d \in CStateData /\ ctl \in ControlFields
  BY DEF TypeOK
<1>1. CASE Control \/ UNCHANGED vars
  <2>1. /\ UNCHANGED pc
        /\ d' = d \/ d' = [d EXCEPT !.state = "LOGOFF"]
    BY <1>1 DEF Control, OnPacketReturn, PostOrder, SafeExitThread,
                SendLogOffCompThird, OnRecvFailure, Post, vars
  <2>2. ctl'.has_auth_success = ctl.has_auth_success
    <3>1. CASE OnRecvFailure
      <4>1. ctl' = [ctl EXCEPT !.failures = @ - 1]
        BY <1>0, <3>1 DEF OnRecvFailure, Repaired, ControlFields
      <4> QED BY <1>0, <4>1 DEF ControlFields
    <3>2. CASE ~OnRecvFailure
      BY <1>0, <1>1, <3>2
      DEF Control, OnPacketReturn, PostOrder, SafeExitThread, SendLogOffCompThird,
          ControlFields, vars
    <3> QED BY <3>1, <3>2
  <2>3. d' = d \/ d'.state = "LOGOFF"
    BY <1>0, <2>1 DEF CStateData
  <2> QED BY <2>1, <2>2, <2>3 DEF Trusted
<1>2. CASE Dispatch
  <2>1. CASE pc' \in {"idle", "unwind"}
    <3>1. /\ pc = "idle" /\ ctl' = ctl
          /\ d' = d \/ d' = [d EXCEPT !.state = "LOGOFF"]
      BY <1>2, <2>1
      DEF Dispatch, OnStartMachine, OnPacketNotify, OnTimer, OnSayHello, OnSendLogoff,
          StopThread, Receive, CallOnStateMove
    <3>2. d' = d \/ d'.state = "LOGOFF"
      BY <1>0, <3>1 DEF CStateData
    <3> QED BY <3>1, <3>2 DEF Trusted
  <2> QED BY <2>1 DEF Trusted
<1>3. CASE OnStateMove
  BY <1>3 DEF OnStateMove, Trusted
<1>4. CASE Enter
  BY <1>4, EnterFrame DEF Trusted
<1>5. CASE MoveState
  <2>1. CASE pc' = "unwind" /\ d'.state \in {"ACQUIRED", "AUTHENTICATING"}
    <3>1. d' = d \/ \E k \in {3} : d' = [d EXCEPT !.hold_count = k]
                 \/ d' = [d EXCEPT !.logoff = TRUE]
      BY <1>5
      DEF MoveState, MoveDisconnected, MoveConnecting, MoveAcquired, MoveAuthenticating,
          MoveAuthenticated, MoveHold, MoveLogOff
    <3>2. d'.state = d.state /\ d'.auth_timeout = d.auth_timeout
      BY <1>0, <3>1 DEF CStateData
    <3>3. visual \in {d.state, "ACQUIRED"}
      BY <2>1, <3>2 DEF AnswerInv, Shown
    <3>4. MoveAcquired \/ MoveAuthenticating
      BY <1>5, <2>1, <3>2, <3>3
      DEF MoveState, MoveDisconnected, MoveConnecting, MoveAuthenticated, MoveHold,
          MoveLogOff, InMoveState
    <3>5. ctl' = ctl /\ (d.auth_timeout # 0 \/ ctl.has_auth_success)
      BY <2>1, <3>4 DEF MoveAcquired, MoveAuthenticating, CallOnStateMove
    <3> QED BY <3>2, <3>5 DEF Trusted
  <2>2. CASE ~(pc' = "unwind" /\ d'.state \in {"ACQUIRED", "AUTHENTICATING"})
    BY <1>5, <2>2, MoveStateFrame DEF Trusted
  <2> QED BY <2>1, <2>2
<1>6. CASE Unwind
  <2>1. pc = "unwind" /\ ctl' = ctl
        /\ (d' = d \/ d' = [d EXCEPT !.state = "LOGOFF"])
    BY <1>6 DEF Unwind
  <2>2. d' = d \/ d'.state = "LOGOFF"
    BY <1>0, <2>1 DEF CStateData
  <2> QED BY <2>1, <2>2 DEF Trusted
<1>7. CASE \E f \in Flags : Timer(f)
  BY <1>7 DEF Timer, Expire, Notify, Trusted
<1> QED BY <1>1, <1>2, <1>3, <1>4, <1>5, <1>6, <1>7 DEF Next, Machine

LEMMA WaitSafety == Spec => [](AnswerInv /\ WaitInv)
<1>1. Init => LogoffInv
  BY DEF Init, LogoffInv
<1>2. TypeOK /\ LogoffInv /\ [Next]_vars => LogoffInv'
  BY LogoffStep
<1>3. TypeOK /\ LogoffInv /\ AnswerInv /\ WaitInv /\ [Next]_vars => AnswerInv' /\ WaitInv'
  BY WaitStep
<1> QED BY <1>1, <1>2, <1>3, WaitInit, TypeCorrect, PTL DEF Spec

LEMMA TrustedInit == Init => Trusted
  BY DEF Init, Trusted

\* No state waits without an end: whenever the thread goes back to its queue,
\* CONNECTING and HOLD have their timer armed, and ACQUIRED and AUTHENTICATING too
\* unless the client counts as authenticated, for all timeouts of the configuration,
\* 0 included, and whatever ran out meanwhile.  The control thread must not take
\* that back while the client waits: its late answer to an EAP failure is repaired,
\* or there is none.
THEOREM EveryWaitIsTimed ==
  ASSUME "LateFailure" \in Repairs \/ "failure" \notin Offered
  PROVE  Spec => []WaitIsTimed
<1>1. TimersOwned /\ WaitInv /\ Trusted => WaitIsTimed
  <2> SUFFICES ASSUME TimersOwned, WaitInv, Trusted, pc = "idle"
               PROVE  WaitIsTimed
    BY DEF WaitIsTimed
  <2>1. \A f \in Flags : f \in handle => armed[f] = 1
    BY DEF TimersOwned
  <2> QED
    BY <2>1 DEF WaitInv, Clocked, Waits, Trusted, WaitIsTimed, Flags
<1>2. CASE "LateFailure" \in Repairs
  <2>1. TypeOK /\ AnswerInv /\ Trusted /\ [Next]_vars => Trusted'
    BY <1>2, TrustedStep
  <2> QED
    BY <1>1, <2>1, WaitSafety, TrustedInit, TypeCorrect, TimersAreOwned, PTL DEF Spec
<1>3. CASE "failure" \notin Offered
  <2>1. TypeOK /\ TruthInv /\ [Next]_vars => TruthInv'
    BY <1>3, TruthStep
  <2>2. TypeOK /\ TruthInv /\ AnswerInv /\ Trusted /\ [Next]_vars => Trusted'
    BY TrustedStep DEF TruthInv, OnRecvFailure
  <2> QED
    BY <1>1, <2>1, <2>2, WaitSafety, TrustedInit, TruthInit, TypeCorrect, TimersAreOwned,
       PTL DEF Spec
<1> QED BY <1>2, <1>3

=============================================================================
