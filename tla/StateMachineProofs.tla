------------------------- MODULE StateMachineProofs -------------------------
(***************************************************************************)
(* Proofs about StateMachine for every value of its constants: any         *)
(* timeouts, queue length and number of inputs, and any set of repairs,    *)
(* the code as it is (Repairs = {}) included.                              *)
(***************************************************************************)
EXTENDS StateMachine, SequenceTheorems, TLAPS

-----------------------------------------------------------------------------
(* Type correctness *)

LEMMA FlagsType == Flags \subseteq Messages /\ None \notin Flags
  BY DEF Flags, Messages, None

LEMMA PostsType ==
  /\ \A f \in Frames : Frame(f) \in Posts
  /\ \A n \in Notes : Note(n) \in Posts
  BY DEF Frame, Note, Posts

\* The timer variables that a run of kills and a SetTimer leave.
LEMMA RetimeType ==
  ASSUME TypeOK, NEW K \in SUBSET Flags, NEW f \in Flags \cup {None},
         NEW secs \in Nat, f = None => secs = 0, Retime(K, f, secs)
  PROVE  /\ handle' \subseteq Flags
         /\ armed' \in [Flags -> Int]
         /\ gate' \in [Flags -> {"none", "open", "busy"}]
         /\ locked' \in BOOLEAN
<1>1. handle' \subseteq Flags
  BY DEF TypeOK, Retime
<1>2. armed' \in [Flags -> Int]
  BY DEF TypeOK, Retime
<1>3. gate' \in [Flags -> {"none", "open", "busy"}]
  BY DEF TypeOK, Retime
<1>4. locked' \in BOOLEAN
  BY DEF TypeOK, Retime
<1> QED BY <1>1, <1>2, <1>3, <1>4

LEMMA RetimeUntilBlockedType ==
  ASSUME TypeOK, NEW K \in SUBSET Flags, RetimeUntilBlocked(K)
  PROVE  /\ handle' \subseteq Flags
         /\ armed' \in [Flags -> Int]
         /\ gate' \in [Flags -> {"none", "open", "busy"}]
         /\ locked' \in BOOLEAN
<1>1. CASE locked
  BY <1>1 DEF RetimeUntilBlocked, TypeOK, timerVars
<1>2. CASE ~locked
  <2>1. PICK f \in Live(K) : Retime({f}, None, 0)
    BY <1>2 DEF RetimeUntilBlocked
  <2>2. {f} \in SUBSET Flags /\ 0 \in Nat
    BY DEF Live
  <2> QED BY <2>1, <2>2, RetimeType
<1> QED BY <1>1, <1>2

\* Entering a state changes two fields of CStateData.
LEMMA MovedType ==
  ASSUME NEW e \in CStateData, NEW s \in Entered
  PROVE  /\ [e EXCEPT !.state = s] \in CStateData
         /\ [e EXCEPT !.prev_state = e.state, !.state = s] \in CStateData
<1>1. s \in States /\ e.state \in States
  BY DEF CStateData, States
<1>2. [e EXCEPT !.state = s] \in CStateData
  BY <1>1 DEF CStateData
<1>3. [e EXCEPT !.prev_state = e.state, !.state = s] \in CStateData
  BY <1>1 DEF CStateData
<1> QED BY <1>2, <1>3

LEMMA InitlizeType ==
  ASSUME TypeOK, NEW s \in Entered, NEW entered \in CStateData,
         NEW K \in SUBSET Flags, NEW f \in Flags \cup {None}, NEW secs \in Nat,
         f = None => secs = 0,
         NEW frames \in Seq(Posts), Initlize(s, entered, K, f, secs, frames)
  PROVE  TypeOK'
<1>1. CASE KillBlocks(K)
  <2>1. d' \in CStateData
    <3>1. d' = [d EXCEPT !.prev_state = d.state, !.state = s]
      BY <1>1 DEF Initlize
    <3>2. d \in CStateData
      BY DEF TypeOK
    <3> QED BY <3>1, <3>2, MovedType
  <2>2. out' \in Seq(Posts)
    BY <1>1 DEF Initlize
  <2> QED
    BY <1>1, <2>1, <2>2, RetimeUntilBlockedType DEF Initlize, TypeOK, PCs
<1>2. CASE ~KillBlocks(K)
  <2>1. Report(entered.prev_state) \in Seq(Posts)
    BY PostsType DEF Report, TypeOK, Calls, Notes
  <2>2. out' \in Seq(Posts)
    <3>1. out' = frames \o Report(entered.prev_state)
      BY <1>2 DEF Initlize
    <3> QED BY <2>1, <3>1, ConcatProperties
  <2>3. call' \in Calls
    <3>1. call \in Calls
      BY DEF TypeOK
    <3>2. call' = [call EXCEPT !.tail = TRUE]
      BY <1>2 DEF Initlize
    <3> QED BY <3>1, <3>2 DEF Calls
  <2> QED
    BY <1>2, <2>2, <2>3, RetimeType DEF Initlize, TypeOK, PCs
<1> QED BY <1>1, <1>2

\* The queue after msgsnd, and after msgrcv.
LEMMA PostType ==
  ASSUME TypeOK, NEW m \in Messages, Post(m)
  PROVE  inbox' \in Seq(Messages) /\ Len(inbox') <= QueueLen
<1>1. inbox \in Seq(Messages) /\ Len(inbox) <= QueueLen
  BY DEF TypeOK
<1>2. CASE Len(inbox) < QueueLen
  <2>1. inbox' = Append(inbox, m)
    BY <1>2 DEF Post
  <2>2. inbox' \in Seq(Messages) /\ Len(inbox') = Len(inbox) + 1
    BY <1>1, <2>1, AppendProperties
  <2> QED BY <1>1, <1>2, <2>2, ConstantsAssumption DEF ConstantsAssumption
<1>3. CASE ~(Len(inbox) < QueueLen)
  BY <1>1, <1>3 DEF Post
<1> QED BY <1>2, <1>3

LEMMA ReceiveType ==
  ASSUME TypeOK, NEW m, Receive(m)
  PROVE  inbox' \in Seq(Messages) /\ Len(inbox') <= QueueLen
<1>1. inbox \in Seq(Messages) /\ inbox # <<>> /\ inbox' = Tail(inbox)
      /\ Len(inbox) <= QueueLen
  BY DEF TypeOK, Receive
<1>2. inbox' \in Seq(Messages) /\ Len(inbox') = Len(inbox) - 1 /\ Len(inbox) \in Nat
  BY <1>1, HeadTailProperties
<1> QED BY <1>1, <1>2, ConstantsAssumption DEF ConstantsAssumption

LEMMA ControlType ==
  ASSUME TypeOK, Control
  PROVE  TypeOK'
<1> USE ConstantsAssumption DEF ConstantsAssumption
<1>1. CASE \E p \in Packets, vendor \in Vendors : OnPacketReturn(p, vendor)
  <2>1. PICK p \in Packets, vendor \in Vendors : OnPacketReturn(p, vendor)
    BY <1>1
  <2>2. p \in Messages /\ Post(p)
    BY <2>1 DEF Messages, OnPacketReturn
  <2>3. ctl' \in ControlFields
    <3>1. vendor \in {"ruijie", "other"} /\ ctl \in ControlFields
      BY DEF TypeOK
    <3>2. ctl' = [ctl EXCEPT !.nas = vendor] \/ ctl' = ctl
      BY <2>1 DEF OnPacketReturn
    <3> QED BY <3>1, <3>2 DEF ControlFields
  <2>4. inputs' \in 0..MaxInputs
    BY <2>1 DEF OnPacketReturn, TypeOK
  <2> QED
    BY <2>1, <2>2, <2>3, <2>4, PostType DEF Post, TypeOK, timerVars
<1>2. CASE \E o \in Orders : PostOrder(o)
  <2>1. PICK o \in Orders : PostOrder(o)
    BY <1>2
  <2>2. o \in Messages /\ Post(o)
    BY <2>1 DEF Messages, PostOrder
  <2>3. inputs' \in 0..MaxInputs
    BY <2>1 DEF PostOrder, TypeOK
  <2> QED
    BY <2>1, <2>2, <2>3, PostType DEF PostOrder, Post, TypeOK, timerVars
<1>3. CASE SafeExitThread
  <2>1. "stop" \in Messages /\ Post("stop")
    BY <1>3 DEF Messages, Orders, SafeExitThread
  <2> QED
    BY <1>3, <2>1, PostType DEF SafeExitThread, Post, TypeOK, timerVars
<1>4. CASE SendLogOffCompThird
  <2>1. d' \in CStateData
    BY <1>4 DEF SendLogOffCompThird, TypeOK, CStateData, States, Entered
  <2> QED BY <1>4, <2>1 DEF SendLogOffCompThird, TypeOK, timerVars
<1>5. CASE OnRecvFailure
  <2>1. ctl' \in ControlFields
    <3>1. ctl \in ControlFields /\ ctl.failures > 0
      BY <1>5 DEF OnRecvFailure, TypeOK
    <3>2. ctl.failures - 1 \in Nat
      BY <3>1 DEF ControlFields
    <3> DEFINE still == IF Repaired("LateFailure") THEN ctl.has_auth_success ELSE FALSE
    <3>3. ctl' = [ctl EXCEPT !.failures = ctl.failures - 1, !.has_auth_success = still]
      BY <1>5 DEF OnRecvFailure
    <3>4. still \in BOOLEAN
      BY <3>1 DEF ControlFields
    <3> HIDE DEF still
    <3> QED BY <3>1, <3>2, <3>3, <3>4 DEF ControlFields
  <2> QED BY <1>5, <2>1 DEF OnRecvFailure, TypeOK, timerVars
<1> QED BY <1>1, <1>2, <1>3, <1>4, <1>5 DEF Control

LEMMA TimerType ==
  ASSUME TypeOK, NEW f \in Flags, Timer(f)
  PROVE  TypeOK'
<1>1. CASE Expire(f)
  BY <1>1 DEF Expire, TypeOK, timerVars
<1>2. CASE Notify(f)
  <2>1. inbox' \in Seq(Messages) /\ Len(inbox') <= QueueLen
    <3>1. inbox \in Seq(Messages) /\ Len(inbox) <= QueueLen /\ f \in Messages
      BY FlagsType DEF TypeOK
    <3>2. CASE gate[f] = "open" /\ Len(inbox) < QueueLen
      <4>1. inbox' = Append(inbox, f)
        BY <1>2, <3>2 DEF Notify
      <4>2. inbox' \in Seq(Messages) /\ Len(inbox') = Len(inbox) + 1
        BY <3>1, <4>1, AppendProperties
      <4> QED BY <3>1, <3>2, <4>2, ConstantsAssumption DEF ConstantsAssumption
    <3>3. CASE ~(gate[f] = "open" /\ Len(inbox) < QueueLen)
      BY <1>2, <3>1, <3>3 DEF Notify
    <3> QED BY <3>2, <3>3
  <2>2. gate' \in [Flags -> {"none", "open", "busy"}]
    BY <1>2 DEF Notify, TypeOK
  <2> QED BY <1>2, <2>1, <2>2 DEF Notify, TypeOK
<1> QED BY <1>1, <1>2 DEF Timer

LEMMA DispatchType ==
  ASSUME TypeOK, Dispatch
  PROVE  TypeOK'
<1> USE PostsType
<1>1. CASE OnStartMachine
  <2>1. d' \in CStateData
    BY <1>1 DEF OnStartMachine, TypeOK, CStateData, States
  <2>2. ctl' \in ControlFields
    BY <1>1 DEF OnStartMachine, TypeOK, ControlFields
  <2>3. call' \in Calls
    BY <1>1 DEF OnStartMachine, CallOnStateMove, TypeOK, Calls
  <2> QED
    BY <1>1, <2>1, <2>2, <2>3, ReceiveType
    DEF OnStartMachine, CallOnStateMove, Receive, TypeOK, timerVars, Entered, PCs
<1>2. CASE \E p \in Packets, reason \in BOOLEAN : OnPacketNotify(p, reason)
  <2>1. PICK p \in Packets, reason \in BOOLEAN : OnPacketNotify(p, reason)
    BY <1>2
  <2>2. CASE visual = None \/ d.state = "LOGOFF" \/ p = "other"
    <3>1. inbox' \in Seq(Messages) /\ Len(inbox') <= QueueLen
      BY <2>1, ReceiveType DEF OnPacketNotify
    <3>2. out' = <<>> /\ UNCHANGED <<pc, call, visual, d, ctl, timerVars, spawned, inputs>>
      BY <2>1, <2>2 DEF OnPacketNotify, Receive
    <3> QED BY <3>1, <3>2 DEF TypeOK, timerVars
  <2>3. CASE ~(visual = None \/ d.state = "LOGOFF" \/ p = "other")
    <3> ParseFrame(p, reason)
      BY <2>1, <2>3 DEF OnPacketNotify
    <3>1. d' \in CStateData
      <4>1. d \in CStateData
        BY DEF TypeOK
      <4> QED BY <4>1 DEF ParseFrame, CStateData, Packets, Requests
    <3>2. ctl' \in ControlFields
      <4>1. ctl \in ControlFields
        BY DEF TypeOK
      <4>2. CASE p = "success"
        BY <4>1, <4>2 DEF ParseFrame, ControlFields
      <4>3. CASE p = "failure"
        <5> DEFINE still == IF Repaired("LateFailure") THEN FALSE ELSE ctl.has_auth_success
        <5> ctl' = [ctl EXCEPT !.failures = @ + 1, !.has_auth_success = still]
          BY <4>3 DEF ParseFrame
        <5>1. ctl' = [ctl EXCEPT !.failures = ctl.failures + 1,
                                 !.has_auth_success = still]
          OBVIOUS
        <5>2. still \in BOOLEAN
          BY <4>1 DEF ControlFields
        <5>3. ctl.failures + 1 \in Nat
          BY <4>1 DEF ControlFields
        <5> HIDE DEF still
        <5> QED BY <4>1, <5>1, <5>2, <5>3 DEF ControlFields
      <4>4. CASE p \notin {"success", "failure"}
        BY <4>1, <4>4 DEF ParseFrame
      <4> QED BY <4>2, <4>3, <4>4
    <3>3. call' \in Calls
      BY <2>1, <2>3 DEF OnPacketNotify, CallOnStateMove, TypeOK, Calls
    <3>4. out' \in Seq(Posts)
      <4>1. Frame("nak") \in Posts /\ Note("EAP_FAILURE") \in Posts
        BY DEF Frames, Notes
      <4> QED BY <2>1, <2>3, <4>1 DEF OnPacketNotify, ParseFrame
    <3> QED
      BY <2>1, <2>3, <3>1, <3>2, <3>3, <3>4, ReceiveType
      DEF OnPacketNotify, CallOnStateMove, Receive, TypeOK, timerVars, PCs
  <2> QED BY <2>2, <2>3
<1>3. CASE \E f \in Flags : OnTimer(f)
  <2>1. PICK f \in Flags : OnTimer(f)
    BY <1>3
  <2>2. d' \in CStateData
    BY <2>1 DEF OnTimer, TypeOK, CStateData, Flags
  <2>3. call' \in Calls
    BY <2>1 DEF OnTimer, NoCall, Calls
  <2>4. {f} \in SUBSET Flags /\ 0 \in Nat /\ None \in Flags \cup {None}
    OBVIOUS
  <2>7. /\ inbox' \in Seq(Messages) /\ Len(inbox') <= QueueLen
        /\ out' = <<>> /\ UNCHANGED <<visual, ctl, spawned, inputs>>
    BY <2>1, ReceiveType DEF OnTimer, Receive
  <2>5. CASE KillBlocks({f})
    <3>1. pc' = "hung" /\ UNCHANGED timerVars
      BY <2>1, <2>5 DEF OnTimer
    <3> QED BY <2>2, <2>3, <2>7, <3>1 DEF TypeOK, timerVars, PCs
  <2>6. CASE ~KillBlocks({f})
    <3>1. pc' = "move" /\ Retime({f}, None, 0)
      BY <2>1, <2>6 DEF OnTimer
    <3>2. /\ handle' \subseteq Flags
          /\ armed' \in [Flags -> Int]
          /\ gate' \in [Flags -> {"none", "open", "busy"}]
          /\ locked' \in BOOLEAN
      BY <2>4, <3>1, RetimeType
    <3> QED BY <2>2, <2>3, <2>7, <3>1, <3>2 DEF TypeOK, PCs
  <2> QED BY <2>5, <2>6
<1>4. CASE OnSayHello
  <2>1. Frame("hello") \in Posts
    BY DEF Frames
  <2> QED BY <1>4, <2>1, ReceiveType DEF OnSayHello, Receive, TypeOK, timerVars
<1>5. CASE OnSendLogoff
  <2>1. Frame("logoff") \in Posts
    BY DEF Frames
  <2>2. d' \in CStateData
    <3>1. d' = d \/ d' = [d EXCEPT !.state = "LOGOFF"]
      BY <1>5 DEF OnSendLogoff
    <3>2. d \in CStateData /\ "LOGOFF" \in Entered
      BY DEF TypeOK, Entered
    <3> QED BY <3>1, <3>2, MovedType
  <2>3. out' \in Seq(Posts)
    <3>1. out' = <<>> \/ out' = <<Frame("logoff")>>
      BY <1>5 DEF OnSendLogoff
    <3>2. <<>> \in Seq(Posts) /\ <<Frame("logoff")>> \in Seq(Posts)
      BY <2>1
    <3> QED BY <3>1, <3>2
  <2>4. /\ inbox' \in Seq(Messages) /\ Len(inbox') <= QueueLen
        /\ UNCHANGED <<pc, call, visual, ctl, timerVars, spawned, inputs>>
    BY <1>5, ReceiveType DEF OnSendLogoff, Receive
  <2> QED BY <2>2, <2>3, <2>4 DEF TypeOK, timerVars
<1>6. CASE StopThread
  BY <1>6, ReceiveType DEF StopThread, Receive, TypeOK, timerVars, PCs
<1> QED BY <1>1, <1>2, <1>3, <1>4, <1>5, <1>6 DEF Dispatch

LEMMA OnStateMoveType ==
  ASSUME TypeOK, OnStateMove
  PROVE  TypeOK'
<1>1. Chosen(call.arg) \in Entered \cup {None}
  BY DEF Chosen, TypeOK, Calls, Entered
<1>2. ctl' \in ControlFields
  BY DEF OnStateMove, TypeOK, ControlFields
<1>3. call' \in Calls
  <2>1. call \in Calls
    BY DEF TypeOK
  <2>2. call' = call \/ call' = [call EXCEPT !.to = Chosen(call.arg)]
    BY DEF OnStateMove
  <2> QED BY <1>1, <2>1, <2>2 DEF Calls
<1>4. pc' \in PCs
  BY DEF OnStateMove, PCs
<1>5. out' = <<>> /\ UNCHANGED <<inbox, visual, d, timerVars, spawned, inputs>>
  BY DEF OnStateMove
<1> QED BY <1>2, <1>3, <1>4, <1>5 DEF TypeOK, timerVars

LEMMA EnterType ==
  ASSUME TypeOK, Enter
  PROVE  TypeOK'
<1> USE ConstantsAssumption DEF ConstantsAssumption
<1>1. /\ d \in CStateData
      /\ Flags \in SUBSET Flags /\ {} \in SUBSET Flags
      /\ {"AUTH_WHILE"} \in SUBSET Flags
      /\ {"START_WHILE", "AUTH_WHILE"} \in SUBSET Flags
      /\ None \in Flags \cup {None} /\ 0 \in Nat /\ <<>> \in Seq(Posts)
      /\ {"START_WHILE", "AUTH_WHILE", "HOLD_WHILE"} \subseteq Flags
      /\ None \notin {"START_WHILE", "AUTH_WHILE", "HOLD_WHILE"}
  BY DEF TypeOK, Flags, None
<1>2. \A f \in Frames : <<Frame(f)>> \in Seq(Posts)
  BY PostsType
<1>3. CASE InitDisconnected
  <2> DEFINE entered == [d EXCEPT !.prev_state = d.state, !.state = "DISCONNECTED",
                               !.eap_success = FALSE, !.eap_failure = FALSE,
                               !.auth_attempt_count = 0, !.logoff_init = FALSE,
                               !.disconnected = FALSE]
  <2>1. entered \in CStateData
    BY <1>1 DEF CStateData, States, Entered
  <2>2. Initlize("DISCONNECTED", entered, {}, None, 0, <<>>)
    BY <1>3 DEF InitDisconnected
  <2> HIDE DEF entered
  <2> QED BY <1>1, <1>2, <2>1, <2>2, InitlizeType DEF Entered
<1>4. CASE InitConnecting
  <2> DEFINE entered == [d EXCEPT !.prev_state = d.state, !.state = "CONNECTING",
                               !.connect_timeout = StartTimeout,
                               !.auth_attempt_count = d.auth_attempt_count + 1,
                               !.req_id = FALSE]
  <2>3. d.auth_attempt_count + 1 \in Nat
    BY <1>1 DEF CStateData
  <2>1. entered \in CStateData
    BY <1>1, <2>3 DEF CStateData, States, Entered
  <2>2. Initlize("CONNECTING", entered, Flags, "START_WHILE", StartTimeout, <<Frame("eapol_start")>>)
    BY <1>4 DEF InitConnecting
  <2> HIDE DEF entered
  <2> QED BY <1>1, <1>2, <2>1, <2>2, InitlizeType DEF Entered, Frames
<1>5. CASE InitAcquired
  <2>1. CASE AnswersInPlace
    <3> DEFINE entered == [d EXCEPT !.req_id = FALSE, !.req_auth = FALSE]
    <3>1. entered \in CStateData
      BY <1>1 DEF CStateData
    <3>2. Initlize("ACQUIRED", entered, {}, None, 0, <<Frame("rsp_id")>>)
      BY <1>5, <2>1 DEF InitAcquired
    <3> HIDE DEF entered
    <3> QED BY <1>1, <1>2, <3>1, <3>2, InitlizeType DEF Entered, Frames
  <2>2. CASE ~AnswersInPlace
    <3> DEFINE entered == [d EXCEPT !.prev_state = d.state, !.state = "ACQUIRED",
                                 !.auth_timeout = AcquiredTimeout,
                                 !.auth_attempt_count = 0,
                                 !.req_id = FALSE, !.req_auth = FALSE]
    <3>1. entered \in CStateData
      BY <1>1 DEF CStateData, States, Entered, AcquiredTimeout
    <3>2. Initlize("ACQUIRED", entered, Flags, "AUTH_WHILE", AcquiredTimeout,
                   <<Frame("rsp_id")>>)
      BY <1>5, <2>2 DEF InitAcquired
    <3> HIDE DEF entered
    <3> QED
      BY <1>1, <1>2, <3>1, <3>2, InitlizeType
      DEF Entered, Frames, AcquiredTimeout
  <2> QED BY <2>1, <2>2
<1>6. CASE InitAuthenticating
  <2>1. CASE Md5Crashes
    BY <1>6, <2>1 DEF InitAuthenticating, TypeOK, timerVars, PCs
  <2>2. CASE ~Md5Crashes
    <3> DEFINE entered == [d EXCEPT !.prev_state = d.state, !.state = "AUTHENTICATING",
                                 !.auth_timeout = AuthTimeout, !.req_auth = FALSE]
               frame == IF d.md5 THEN "rsp_md5" ELSE "rsp_pap"
    <3>1. entered \in CStateData
      BY <1>1 DEF CStateData, States, Entered
    <3>2. frame \in Frames
      BY DEF Frames
    <3>3. Initlize("AUTHENTICATING", entered, {"AUTH_WHILE"}, "AUTH_WHILE", AuthTimeout,
                   <<Frame(frame)>>)
      BY <1>6, <2>2 DEF InitAuthenticating
    <3> HIDE DEF entered, frame
    <3> QED BY <1>1, <1>2, <3>1, <3>2, <3>3, InitlizeType DEF Entered
  <2> QED BY <2>1, <2>2
<1>7. CASE InitAuthenticated
  <2> DEFINE entered == [d EXCEPT !.prev_state = d.state, !.state = "AUTHENTICATED",
                               !.eap_success = FALSE, !.eap_failure = FALSE]
  <2>1. entered \in CStateData
    BY <1>1 DEF CStateData, States, Entered
  <2>2. Initlize("AUTHENTICATED", entered, {"START_WHILE", "AUTH_WHILE"}, None, 0, <<>>)
    BY <1>7 DEF InitAuthenticated
  <2> HIDE DEF entered
  <2> QED BY <1>1, <1>2, <2>1, <2>2, InitlizeType DEF Entered
<1>8. CASE InitHold
  <2> DEFINE count == IF d.state = "AUTHENTICATED" THEN 100 ELSE d.hold_count + 1
             entered == [d EXCEPT !.prev_state = d.state, !.state = "HOLD",
                               !.hold_timeout = HeldTimeout,
                               !.hold_count = count,
                               !.eap_success = FALSE, !.eap_failure = FALSE]
  <2>3. count \in Nat
    BY <1>1 DEF CStateData
  <2>2. Initlize("HOLD", entered, Flags, "HOLD_WHILE", HeldTimeout, <<>>)
    BY <1>8 DEF InitHold
  <2> HIDE DEF count
  <2>1. entered \in CStateData
    BY <1>1, <2>3 DEF CStateData, States, Entered
  <2> HIDE DEF entered
  <2> QED BY <1>1, <1>2, <2>1, <2>2, InitlizeType DEF Entered
<1>9. CASE InitLogOff
  <2> DEFINE entered == [d EXCEPT !.prev_state = d.state, !.state = "LOGOFF",
                               !.logoff_init = TRUE]
  <2>1. entered \in CStateData
    BY <1>1 DEF CStateData, States, Entered
  <2>2. Initlize("LOGOFF", entered, Flags, None, 0, <<Frame("logoff")>>)
    BY <1>9 DEF InitLogOff
  <2> HIDE DEF entered
  <2> QED BY <1>1, <1>2, <2>1, <2>2, InitlizeType DEF Entered, Frames
<1> QED BY <1>3, <1>4, <1>5, <1>6, <1>7, <1>8, <1>9 DEF Enter

LEMMA MoveStateType ==
  ASSUME TypeOK, MoveState
  PROVE  TypeOK'
<1>1. /\ d \in CStateData /\ ctl \in ControlFields /\ call \in Calls
      /\ \A s \in Entered : [call EXCEPT !.arg = s] \in Calls
  BY DEF TypeOK, Calls
<1>2. /\ Note("FORCE_OFFLINE") \in Posts /\ Note("COMPATIBLE_LOGOFF") \in Posts
      /\ <<>> \in Seq(Posts)
  BY PostsType DEF Notes
\* What the seven have in common, and where they go.
<1>3. /\ UNCHANGED <<inbox, visual, timerVars, spawned, inputs>>
      /\ pc' \in {"move", "unwind"}
      /\ call' = call \/ \E s \in Entered : call' = [call EXCEPT !.arg = s]
  <2> USE DEF InMoveState, CallOnStateMove, ReturnFromMoveState, Entered
  <2>1. CASE MoveDisconnected  BY <2>1 DEF MoveDisconnected
  <2>2. CASE MoveConnecting    BY <2>2 DEF MoveConnecting
  <2>3. CASE MoveAcquired      BY <2>3 DEF MoveAcquired
  <2>4. CASE MoveAuthenticating BY <2>4 DEF MoveAuthenticating
  <2>5. CASE MoveAuthenticated BY <2>5 DEF MoveAuthenticated
  <2>6. CASE MoveHold          BY <2>6 DEF MoveHold
  <2>7. CASE MoveLogOff        BY <2>7 DEF MoveLogOff
  <2> QED BY <2>1, <2>2, <2>3, <2>4, <2>5, <2>6, <2>7 DEF MoveState
<1>4. /\ d' \in {d, [d EXCEPT !.hold_count = 3], [d EXCEPT !.logoff = TRUE]}
      /\ ctl' \in {ctl, [ctl EXCEPT !.reconnect_fail = TRUE],
                   [ctl EXCEPT !.connect_fail = TRUE]}
      /\ out' = <<>> \/ \E n \in {"FORCE_OFFLINE", "COMPATIBLE_LOGOFF"} : out' = <<Note(n)>>
  <2>1. CASE MoveDisconnected  BY <2>1 DEF MoveDisconnected
  <2>2. CASE MoveConnecting    BY <2>2 DEF MoveConnecting
  <2>3. CASE MoveAcquired      BY <2>3 DEF MoveAcquired
  <2>4. CASE MoveAuthenticating BY <2>4 DEF MoveAuthenticating
  <2>5. CASE MoveAuthenticated BY <2>5 DEF MoveAuthenticated
  <2>6. CASE MoveHold          BY <2>6 DEF MoveHold
  <2>7. CASE MoveLogOff        BY <2>7 DEF MoveLogOff
  <2> QED BY <2>1, <2>2, <2>3, <2>4, <2>5, <2>6, <2>7 DEF MoveState
<1>5. d' \in CStateData
  <2>1. CASE d' = d
    BY <1>1, <2>1
  <2>2. CASE d' = [d EXCEPT !.hold_count = 3]
    BY <1>1, <2>2 DEF CStateData
  <2>3. CASE d' = [d EXCEPT !.logoff = TRUE]
    BY <1>1, <2>3 DEF CStateData
  <2> QED BY <1>4, <2>1, <2>2, <2>3
<1>6. ctl' \in ControlFields
  BY <1>1, <1>4 DEF ControlFields
<1>7. out' \in Seq(Posts)
  <2>1. <<Note("FORCE_OFFLINE")>> \in Seq(Posts)
        /\ <<Note("COMPATIBLE_LOGOFF")>> \in Seq(Posts)
    BY <1>2
  <2> QED BY <1>2, <1>4, <2>1
<1>8. call' \in Calls
  BY <1>1, <1>3
<1> QED BY <1>3, <1>5, <1>6, <1>7, <1>8 DEF TypeOK, timerVars, PCs

LEMMA UnwindType ==
  ASSUME TypeOK, Unwind
  PROVE  TypeOK'
<1>1. d' \in CStateData
  BY DEF Unwind, TypeOK, CStateData, States, Entered
<1>2. gate' \in [Flags -> {"none", "open", "busy"}]
  BY DEF Unwind, TypeOK
<1>3. call' \in Calls
  BY DEF Unwind, NoCall, Calls
<1> QED BY <1>1, <1>2, <1>3 DEF Unwind, TypeOK, PCs

LEMMA InitType == Init => TypeOK
<1> SUFFICES ASSUME Init PROVE TypeOK
  OBVIOUS
<1>1. d \in CStateData
  BY DEF Init, CStateData, States
<1>2. ctl \in ControlFields
  BY DEF Init, ControlFields
<1>3. call \in Calls
  BY DEF Init, NoCall, Calls
<1>4. inbox \in Seq(Messages) /\ out \in Seq(Posts) /\ Len(inbox) <= QueueLen
  BY ConstantsAssumption DEF Init, ConstantsAssumption
<1>5. inputs \in 0..MaxInputs
  BY ConstantsAssumption DEF Init, ConstantsAssumption
<1>6. armed \in [Flags -> Int] /\ gate \in [Flags -> {"none", "open", "busy"}]
  BY DEF Init
<1>7. pc \in PCs /\ visual \in Entered \cup {None} /\ handle \subseteq Flags
      /\ spawned \subseteq Flags /\ locked \in BOOLEAN
  BY DEF Init, PCs
<1> QED BY <1>1, <1>2, <1>3, <1>4, <1>5, <1>6, <1>7 DEF TypeOK

\* Every step of the system keeps the types.
LEMMA NextType ==
  ASSUME TypeOK, [Next]_vars
  PROVE  TypeOK'
<1>1. CASE Control
  BY <1>1, ControlType
<1>2. CASE Dispatch
  BY <1>2, DispatchType
<1>3. CASE OnStateMove
  BY <1>3, OnStateMoveType
<1>4. CASE Enter
  BY <1>4, EnterType
<1>5. CASE MoveState
  BY <1>5, MoveStateType
<1>6. CASE Unwind
  BY <1>6, UnwindType
<1>7. CASE \E f \in Flags : Timer(f)
  BY <1>7, TimerType
<1>8. CASE UNCHANGED vars
  BY <1>8 DEF vars, timerVars, TypeOK
<1> QED BY <1>1, <1>2, <1>3, <1>4, <1>5, <1>6, <1>7, <1>8 DEF Next, Machine

\* The variables of the supplicant stay in their types and its queue within its
\* bound, whatever messages, timers and orders arrive.
THEOREM TypeCorrect == Spec => []TypeOK
<1>1. Init => TypeOK
  BY InitType
<1>2. TypeOK /\ [Next]_vars => TypeOK'
  BY NextType
<1> QED BY <1>1, <1>2, PTL DEF Spec

-----------------------------------------------------------------------------
(* TimersOwned: with TypeOK it is inductive as it stands *)

\* Killing K first, SetTimer(f) never meets a timer of f that still runs.
LEMMA RetimeOwned ==
  ASSUME TypeOK, TimersOwned, NEW K \in SUBSET Flags, NEW f \in K \cup {None},
         NEW secs \in Nat, f = None => secs = 0, Retime(K, f, secs)
  PROVE  TimersOwned'
<1> SUFFICES ASSUME NEW g \in Flags
             PROVE  armed'[g] = IF g \in handle' THEN 1 ELSE 0
  BY DEF TimersOwned
<1>1. armed[g] = IF g \in handle THEN 1 ELSE 0
  BY DEF TimersOwned
<1>2. armed'[g] = (IF g \in Live(K) THEN armed[g] - 1 ELSE armed[g])
                  + (IF g = f /\ secs > 0 THEN 1 ELSE 0)
  BY DEF Retime
<1>3. g \in handle' <=> (g \in handle /\ g \notin K) \/ (secs > 0 /\ g = f)
  BY DEF Retime
<1>4. CASE g \in K
  BY <1>1, <1>2, <1>3, <1>4 DEF Live
<1>5. CASE g \notin K
  <2>1. ~(secs > 0 /\ g = f)
    BY <1>5
  <2> QED BY <1>1, <1>2, <1>3, <1>5, <2>1 DEF Live
<1> QED BY <1>4, <1>5

LEMMA RetimeUntilBlockedOwned ==
  ASSUME TypeOK, TimersOwned, NEW K \in SUBSET Flags, RetimeUntilBlocked(K)
  PROVE  TimersOwned'
<1>1. CASE locked
  BY <1>1 DEF RetimeUntilBlocked, timerVars, TimersOwned
<1>2. CASE ~locked
  <2>1. PICK f \in Live(K) : Retime({f}, None, 0)
    BY <1>2 DEF RetimeUntilBlocked
  <2>2. {f} \in SUBSET Flags /\ None \in {f} \cup {None} /\ 0 \in Nat
    BY DEF Live
  <2> QED BY <2>1, <2>2, RetimeOwned
<1> QED BY <1>1, <1>2

LEMMA InitlizeOwned ==
  ASSUME TypeOK, TimersOwned, NEW s, NEW entered, NEW K \in SUBSET Flags,
         NEW f \in K \cup {None}, NEW secs \in Nat, f = None => secs = 0,
         NEW frames, Initlize(s, entered, K, f, secs, frames)
  PROVE  TimersOwned'
<1>1. CASE KillBlocks(K)
  BY <1>1, RetimeUntilBlockedOwned DEF Initlize
<1>2. CASE ~KillBlocks(K)
  BY <1>2, RetimeOwned DEF Initlize
<1> QED BY <1>1, <1>2

LEMMA EnterOwned ==
  ASSUME TypeOK, TimersOwned, Enter
  PROVE  TimersOwned'
<1> USE ConstantsAssumption DEF ConstantsAssumption
<1>1. /\ Flags \in SUBSET Flags /\ {} \in SUBSET Flags
      /\ {"AUTH_WHILE"} \in SUBSET Flags
      /\ {"START_WHILE", "AUTH_WHILE"} \in SUBSET Flags
      /\ "START_WHILE" \in Flags /\ "AUTH_WHILE" \in Flags /\ "HOLD_WHILE" \in Flags
      /\ None \notin Flags /\ 0 \in Nat
  BY DEF Flags, None
<1>2. CASE InitDisconnected
  BY <1>1, <1>2, InitlizeOwned DEF InitDisconnected
<1>3. CASE InitConnecting
  BY <1>1, <1>3, InitlizeOwned DEF InitConnecting
<1>4. CASE InitAcquired
  BY <1>1, <1>4, InitlizeOwned DEF InitAcquired, AcquiredTimeout
<1>5. CASE InitAuthenticating
  <2>1. CASE Md5Crashes
    BY <1>5, <2>1 DEF InitAuthenticating, timerVars, TimersOwned
  <2>2. CASE ~Md5Crashes
    BY <1>1, <1>5, <2>2, InitlizeOwned DEF InitAuthenticating
  <2> QED BY <2>1, <2>2
<1>6. CASE InitAuthenticated
  BY <1>1, <1>6, InitlizeOwned DEF InitAuthenticated
<1>7. CASE InitHold
  BY <1>1, <1>7, InitlizeOwned DEF InitHold
<1>8. CASE InitLogOff
  BY <1>1, <1>8, InitlizeOwned DEF InitLogOff
<1> QED BY <1>2, <1>3, <1>4, <1>5, <1>6, <1>7, <1>8 DEF Enter

LEMMA DispatchOwned ==
  ASSUME TypeOK, TimersOwned, Dispatch
  PROVE  TimersOwned'
<1>1. CASE \E f \in Flags : OnTimer(f)
  <2>1. PICK f \in Flags : OnTimer(f)
    BY <1>1
  <2>2. CASE KillBlocks({f})
    BY <2>1, <2>2 DEF OnTimer, timerVars, TimersOwned
  <2>3. CASE ~KillBlocks({f})
    <3>1. Retime({f}, None, 0)
      BY <2>1, <2>3 DEF OnTimer
    <3>2. {f} \in SUBSET Flags /\ None \in {f} \cup {None} /\ 0 \in Nat
      OBVIOUS
    <3> QED BY <3>1, <3>2, RetimeOwned
  <2> QED BY <2>2, <2>3
<1>2. CASE StopThread
  BY <1>2 DEF StopThread, timerVars, TimersOwned
<1>3. CASE OnStartMachine
  BY <1>3 DEF OnStartMachine, timerVars, TimersOwned
<1>4. CASE \E p \in Packets, reason \in BOOLEAN : OnPacketNotify(p, reason)
  BY <1>4 DEF OnPacketNotify, timerVars, TimersOwned
<1>5. CASE OnSayHello
  BY <1>5 DEF OnSayHello, timerVars, TimersOwned
<1>6. CASE OnSendLogoff
  BY <1>6 DEF OnSendLogoff, timerVars, TimersOwned
<1> QED BY <1>1, <1>2, <1>3, <1>4, <1>5, <1>6 DEF Dispatch

\* The steps that touch no timer.
LEMMA OthersKeepTimers ==
  ASSUME Control \/ OnStateMove \/ MoveState \/ Unwind \/ (\E f \in Flags : Timer(f))
         \/ UNCHANGED vars
  PROVE  UNCHANGED <<handle, armed>>
<1> USE DEF timerVars
<1>1. CASE Control
  BY <1>1
  DEF Control, OnPacketReturn, PostOrder, SafeExitThread, SendLogOffCompThird,
      OnRecvFailure, Post
<1>2. CASE OnStateMove
  BY <1>2 DEF OnStateMove
<1>3. CASE MoveState
  BY <1>3
  DEF MoveState, InMoveState, MoveDisconnected, MoveConnecting, MoveAcquired,
      MoveAuthenticating, MoveAuthenticated, MoveHold, MoveLogOff
<1>4. CASE Unwind
  BY <1>4 DEF Unwind
<1>5. CASE \E f \in Flags : Timer(f)
  BY <1>5 DEF Timer, Expire, Notify
<1>6. CASE UNCHANGED vars
  BY <1>6 DEF vars
<1> QED BY <1>1, <1>2, <1>3, <1>4, <1>5, <1>6

\* A POSIX timer is armed exactly while CStateData holds its handle, in every
\* reachable state: no timer is lost, whatever path the states take.
THEOREM TimersAreOwned == Spec => []TimersOwned
<1>1. Init => TimersOwned
  BY DEF Init, TimersOwned
<1>2. TypeOK /\ TimersOwned /\ [Next]_vars => TimersOwned'
  <2> SUFFICES ASSUME TypeOK, TimersOwned, [Next]_vars
               PROVE  TimersOwned'
    OBVIOUS
  <2>1. CASE Enter
    BY <2>1, EnterOwned
  <2>2. CASE Dispatch
    BY <2>2, DispatchOwned
  <2>3. CASE UNCHANGED <<handle, armed>>
    BY <2>3 DEF TimersOwned
  <2> QED BY <2>1, <2>2, <2>3, OthersKeepTimers DEF Next, Machine
<1> QED BY <1>1, <1>2, TypeCorrect, PTL DEF Spec

=============================================================================
