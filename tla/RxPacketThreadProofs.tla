------------------------ MODULE RxPacketThreadProofs ------------------------
(***************************************************************************)
(* The types of RxPacketThread and its two safety properties, for every    *)
(* set of failures and every set of repairs that has the named ones.       *)
(***************************************************************************)
EXTENDS RxPacketThread, TLAPS

\* The handle, place by place.
HandlePlaced ==
  /\ rx \notin {"clear", "lastclear", "exited", "ended"} => pcap_handle # "closed"
  /\ ctl \in {"delete", "done"} => rx = "ended"

TypeInv == TypeOK /\ HandlePlaced

LEMMA TypeInit == Init => TypeInv
  BY DEF Init, TypeInv, TypeOK, HandlePlaced, RxPlaces, Capturing, Places, Resting

LEMMA PlacesNamed ==
  /\ {"reopen", "look", "dispatch", "close", "clear", "sleep", "recv", "open", "opened", "test",
      "finish", "lastclose", "lastclear", "set", "exited", "ended"} = RxPlaces
  /\ {"idle", "session", "failed", "done", "starting", "sender", "stopping", "timedout", "left",
      "close", "exiting", "terminate", "delete"} = Places
  BY DEF RxPlaces, Capturing, Places, Resting

\* The capturing thread's steps keep the types, and close the handle only in CloseAdapter.
LEMMA TypeOKReceiver ==
  ASSUME TypeInv, Receiver \/ PcapDispatch
  PROVE  TypeOK'
<1> USE PlacesNamed DEF TypeInv, TypeOK, ctlVars
<1>1. CASE ReadStart
  BY <1>1 DEF ReadStart
<1>2. CASE OpenAdapter
  BY <1>2 DEF OpenAdapter, InitAdapter
<1>3. CASE ClearStopped
  BY <1>3 DEF ClearStopped
<1>4. CASE TestStopped
  BY <1>4 DEF TestStopped, HandlePlaced
<1>5. CASE Reopen
  BY <1>5 DEF Reopen, InitAdapter
<1>6. CASE CloseAdapter
  <2>1. CASE PcapClose("close", "clear")
    BY <2>1 DEF PcapClose
  <2>2. CASE HandleCleared("clear", "sleep")
    BY <2>2 DEF HandleCleared
  <2> QED
    BY <1>6, <2>1, <2>2 DEF CloseAdapter
<1>7. CASE Finish
  BY <1>7 DEF Finish, HandlePlaced
<1>8. CASE CloseAtTheEnd
  <2>1. CASE PcapClose("lastclose", "lastclear")
    BY <2>1 DEF PcapClose
  <2>2. CASE HandleCleared("lastclear", "set")
    BY <2>2 DEF HandleCleared
  <2> QED
    BY <1>8, <2>1, <2>2 DEF CloseAtTheEnd
<1>9. CASE SetEvent
  BY <1>9 DEF SetEvent
<1>10. CASE ReadStop
  BY <1>10 DEF ReadStop
<1>11. CASE PcapDispatch
  BY <1>11 DEF PcapDispatch
<1> QED
  BY <1>1, <1>2, <1>3, <1>4, <1>5, <1>6, <1>7, <1>8, <1>9, <1>10, <1>11 DEF Receiver

LEMMA HandleReceiver ==
  ASSUME TypeInv, Receiver \/ PcapDispatch
  PROVE  HandlePlaced'
<1> USE DEF TypeInv, TypeOK, HandlePlaced, ctlVars
<1>1. CASE ReadStart
  BY <1>1 DEF ReadStart
<1>2. CASE OpenAdapter
  BY <1>2 DEF OpenAdapter, InitAdapter
<1>3. CASE ClearStopped
  BY <1>3 DEF ClearStopped
<1>4. CASE TestStopped
  BY <1>4 DEF TestStopped, HandlePlaced
<1>5. CASE Reopen
  BY <1>5 DEF Reopen, InitAdapter
<1>6. CASE CloseAdapter
  BY <1>6 DEF CloseAdapter, PcapClose, HandleCleared
<1>7. CASE Finish
  BY <1>7 DEF Finish, HandlePlaced
<1>8. CASE CloseAtTheEnd
  BY <1>8 DEF CloseAtTheEnd, PcapClose, HandleCleared
<1>9. CASE SetEvent
  BY <1>9 DEF SetEvent
<1>10. CASE ReadStop
  BY <1>10 DEF ReadStop
<1>11. CASE PcapDispatch
  BY <1>11 DEF PcapDispatch
<1> QED
  BY <1>1, <1>2, <1>3, <1>4, <1>5, <1>6, <1>7, <1>8, <1>9, <1>10, <1>11 DEF Receiver

\* The control thread's steps keep them, too, and delete the object after the thread.
LEMMA TypeOKControl ==
  ASSUME TypeInv, Authenticate_InitAll \/ DeAuthenticate_ExitAll \/ ExitExtance_ExitAll \/ Proceed
           \/ Timeout
  PROVE  TypeOK'
<1> USE PlacesNamed DEF TypeInv, TypeOK, rxVars
<1>1. CASE Authenticate_InitAll
  BY <1>1 DEF Authenticate_InitAll
<1>2. CASE DeAuthenticate_ExitAll
  BY <1>2 DEF DeAuthenticate_ExitAll, StopRxPacketThread
<1>3. CASE ExitExtance_ExitAll
  BY <1>3 DEF ExitExtance_ExitAll, StopRxPacketThread
<1>4. CASE StartReturns
  BY <1>4 DEF StartReturns
<1>5. CASE SetSenderAdapter
  BY <1>5 DEF SetSenderAdapter, StopRxPacketThread
<1>6. CASE StopReturns
  BY <1>6 DEF StopReturns
<1>7. CASE SafeExitThread
  BY <1>7 DEF SafeExitThread
<1>8. CASE ExitReturns
  BY <1>8 DEF ExitReturns
<1>9. CASE TerminateThread
  BY <1>9 DEF TerminateThread
<1>10. CASE DeleteThread
  BY <1>10 DEF DeleteThread, HandlePlaced
<1>11. CASE Timeout
  BY <1>11 DEF Timeout
<1> QED
  BY <1>1, <1>2, <1>3, <1>4, <1>5, <1>6, <1>7, <1>8, <1>9, <1>10, <1>11 DEF Proceed

LEMMA HandleControl ==
  ASSUME TypeInv, Authenticate_InitAll \/ DeAuthenticate_ExitAll \/ ExitExtance_ExitAll \/ Proceed
           \/ Timeout
  PROVE  HandlePlaced'
<1> USE DEF TypeInv, TypeOK, HandlePlaced, rxVars
<1>1. CASE Authenticate_InitAll
  BY <1>1 DEF Authenticate_InitAll
<1>2. CASE DeAuthenticate_ExitAll
  BY <1>2 DEF DeAuthenticate_ExitAll, StopRxPacketThread
<1>3. CASE ExitExtance_ExitAll
  BY <1>3 DEF ExitExtance_ExitAll, StopRxPacketThread
<1>4. CASE StartReturns
  BY <1>4 DEF StartReturns
<1>5. CASE SetSenderAdapter
  BY <1>5 DEF SetSenderAdapter, StopRxPacketThread
<1>6. CASE StopReturns
  BY <1>6 DEF StopReturns
<1>7. CASE SafeExitThread
  BY <1>7 DEF SafeExitThread
<1>8. CASE ExitReturns
  BY <1>8 DEF ExitReturns
<1>9. CASE TerminateThread
  BY <1>9 DEF TerminateThread
<1>10. CASE DeleteThread
  BY <1>10 DEF DeleteThread, HandlePlaced
<1>11. CASE Timeout
  BY <1>11 DEF Timeout
<1> QED
  BY <1>1, <1>2, <1>3, <1>4, <1>5, <1>6, <1>7, <1>8, <1>9, <1>10, <1>11 DEF Proceed

LEMMA TypeStep == TypeInv /\ [Next]_vars => TypeInv'
<1> SUFFICES ASSUME TypeInv, [Next]_vars PROVE TypeInv'
  OBVIOUS
<1>1. CASE Next
  BY <1>1, TypeOKReceiver, HandleReceiver, TypeOKControl, HandleControl DEF Next, TypeInv
<1>2. CASE UNCHANGED vars
  BY <1>2 DEF vars, rxVars, ctlVars, TypeInv, TypeOK, HandlePlaced
<1> QED
  BY <1>1, <1>2

\* Every variable keeps its type, and the loop has a handle where it uses one, whatever
\* fails and whatever is repaired.
THEOREM TypeCorrect == Spec => []TypeOK
<1>1. TypeInv => TypeOK
  BY DEF TypeInv
<1> QED
  BY TypeInit, TypeStep, <1>1, PTL DEF Spec

-----------------------------------------------------------------------------
(* The handle *)

\* A thread that has ended leaves a closed handle behind only to nobody.
ClosedInv ==
  /\ HandleClosedOnce
  /\ rx \in {"exited", "ended"} /\ ctl # "done" => pcap_handle # "closed"

LEMMA ClosedInit == Init => ClosedInv
  BY DEF Init, ClosedInv, HandleClosedOnce

LEMMA ClosedStep ==
  ASSUME {"FilterExit", "Cancel"} \subseteq Repairs, TypeInv, ClosedInv, [Next]_vars
  PROVE  ClosedInv'
<1> USE DEF TypeInv, TypeOK, HandlePlaced, ClosedInv, HandleClosedOnce, Capturing, ctlVars,
            rxVars, StopRxPacketThread, Repaired
<1>1. CASE Receiver
  <2>1. CASE OpenAdapter
    BY <2>1 DEF OpenAdapter, InitAdapter
  <2>4. CASE Reopen
    BY <2>4 DEF Reopen, InitAdapter
  <2>2. CASE CloseAdapter \/ CloseAtTheEnd
    BY <2>2 DEF CloseAdapter, CloseAtTheEnd, PcapClose, HandleCleared
  <2>3. CASE ReadStart \/ ClearStopped \/ TestStopped \/ Finish \/ SetEvent \/ ReadStop
    BY <2>3 DEF ReadStart, ClearStopped, TestStopped, Finish, SetEvent, ReadStop
  <2> QED
    BY <1>1, <2>1, <2>2, <2>3, <2>4 DEF Receiver
<1>2. CASE PcapDispatch
  BY <1>2 DEF PcapDispatch
<1>3. CASE Authenticate_InitAll \/ DeAuthenticate_ExitAll \/ ExitExtance_ExitAll \/ Timeout
  BY <1>3 DEF Authenticate_InitAll, DeAuthenticate_ExitAll, ExitExtance_ExitAll, Timeout
<1>4. CASE Proceed
  <2>1. CASE StartReturns \/ SetSenderAdapter \/ StopReturns \/ ExitExtance_ExitAll
    BY <2>1 DEF StartReturns, SetSenderAdapter, StopReturns, ExitExtance_ExitAll
  <2>2. CASE SafeExitThread \/ ExitReturns
    BY <2>2 DEF SafeExitThread, ExitReturns
  <2>3. CASE TerminateThread
    BY <2>3 DEF TerminateThread
  <2>4. CASE DeleteThread
    BY <2>4 DEF DeleteThread
  <2> QED
    BY <1>4, <2>1, <2>2, <2>3, <2>4 DEF Proceed
<1>5. CASE UNCHANGED vars
  BY <1>5 DEF vars
<1> QED
  BY <1>1, <1>2, <1>3, <1>4, <1>5 DEF Next

\* No pcap handle is used or closed twice once SetPacketFilter does not end the thread
\* and the thread is not cancelled in CloseAdapter.
THEOREM HandlesAreClosedOnce ==
  ASSUME {"FilterExit", "Cancel"} \subseteq Repairs
  PROVE  Spec => []HandleClosedOnce
<1>1. TypeInv /\ ClosedInv /\ [Next]_vars => ClosedInv'
  BY ClosedStep
<1>2. ClosedInv => HandleClosedOnce
  BY DEF ClosedInv
<1> QED
  BY TypeInit, TypeStep, ClosedInit, <1>1, <1>2, PTL DEF Spec

-----------------------------------------------------------------------------
(* The stop *)

\* Once the thread has taken the start there is no other.
StartTaken ==
  /\ rx \notin {"recv", "ended"} \/ ctl \in {"sender", "session", "stopping", "left"} => started
  /\ started => "START_THREAD" \notin messages

\* From the start to the stop, stopped is TRUE only if InitAdapter failed.
WhileOn ==
  /\ ctl = "idle" => stopped /\ ~started /\ ~signal /\ messages = {} /\ rx \in {"recv", "ended"}
  /\ ctl \in {"starting", "sender", "session"} =>
       /\ ~signal /\ "STOP_THREAD" \notin messages
       /\ stopped => rx = "recv" /\ started
  /\ ctl = "stopping" => next # "idle"

\* When the end of the loop has been signalled the thread waits for STOP_THREAD.
LoopLeft ==
  /\ rx \in {"finish", "lastclose", "lastclear", "set"} => stopped
  /\ (signal /\ ctl = "stopping") \/ ctl = "left" => rx \in {"recv", "ended"}

StopInv == StopTakesEffect /\ StartTaken /\ WhileOn /\ LoopLeft

LEMMA StopInit == Init => StopInv
  BY DEF Init, StopInv, StopTakesEffect, StartTaken, WhileOn, LoopLeft, Capturing

LEMMA StopStep ==
  ASSUME {"StopLost", "TimedWait"} \subseteq Repairs, TypeInv, StopInv, [Next]_vars
  PROVE  StopInv'
<1> USE DEF TypeInv, TypeOK, StopInv, StopTakesEffect, StartTaken, WhileOn, LoopLeft, Capturing,
            RxPlaces, ctlVars, rxVars, StopRxPacketThread, Repaired
<1>1. CASE Receiver
  <2>1. CASE OpenAdapter
    BY <2>1 DEF OpenAdapter, InitAdapter
  <2>2. CASE Reopen
    BY <2>2 DEF Reopen, InitAdapter
  <2>3. CASE CloseAdapter \/ CloseAtTheEnd
    BY <2>3 DEF CloseAdapter, CloseAtTheEnd, PcapClose, HandleCleared
  <2>4. CASE ReadStart \/ ClearStopped \/ TestStopped
    BY <2>4 DEF ReadStart, ClearStopped, TestStopped
  <2>5. CASE Finish
    BY <2>5 DEF Finish
  <2>6. CASE SetEvent
    BY <2>6 DEF SetEvent
  <2>7. CASE ReadStop
    BY <2>7 DEF ReadStop
  <2> QED
    BY <1>1, <2>1, <2>2, <2>3, <2>4, <2>5, <2>6, <2>7 DEF Receiver
<1>2. CASE PcapDispatch
  BY <1>2 DEF PcapDispatch
<1>3. CASE Authenticate_InitAll
  BY <1>3 DEF Authenticate_InitAll
<1>4. CASE DeAuthenticate_ExitAll \/ ExitExtance_ExitAll \/ Timeout
  BY <1>4 DEF DeAuthenticate_ExitAll, ExitExtance_ExitAll, Timeout
<1>5. CASE Proceed
  <2>1. CASE StartReturns \/ SetSenderAdapter \/ ExitExtance_ExitAll
    BY <2>1 DEF StartReturns, SetSenderAdapter, ExitExtance_ExitAll
  <2>2. CASE StopReturns
    <3>1. PICK r \in WaitResults :
            ctl' = IF r = "ETIMEDOUT" /\ next = "left" THEN "timedout" ELSE next
      BY <2>2 DEF StopReturns
    <3>2. ~signal => r = "ETIMEDOUT"
      BY <3>1 DEF WaitResults
    <3>3. /\ ctl = "stopping" /\ ~signal'
          /\ UNCHANGED <<rx, started, messages, stopped>>
      BY <2>2 DEF StopReturns
    <3>4. ctl' = "left" => signal
      BY <3>1, <3>2, <3>3
    <3>5. ctl' \in {"idle", "failed", "timedout", "left", "close"} /\ stopped
      BY <3>1, <3>3
    <3>6. ctl' # "idle"
      BY <3>1, <3>3
    <3> QED
      BY <3>3, <3>4, <3>5, <3>6
  <2>3. CASE SafeExitThread \/ ExitReturns \/ TerminateThread \/ DeleteThread
    BY <2>3 DEF SafeExitThread, ExitReturns, TerminateThread, DeleteThread
  <2> QED
    BY <1>5, <2>1, <2>2, <2>3 DEF Proceed
<1>6. CASE UNCHANGED vars
  BY <1>6 DEF vars
<1> QED
  BY <1>1, <1>2, <1>3, <1>4, <1>5, <1>6 DEF Next

\* No stop is lost, wherever it overtakes the start, once the starter clears stopped and
\* a wait ends with its signal or its time-out.
THEOREM StopsTakeEffect ==
  ASSUME {"StopLost", "TimedWait"} \subseteq Repairs
  PROVE  Spec => []StopTakesEffect
<1>1. TypeInv /\ StopInv /\ [Next]_vars => StopInv'
  BY StopStep
<1>2. StopInv => StopTakesEffect
  BY DEF StopInv
<1> QED
  BY TypeInit, TypeStep, StopInit, <1>1, <1>2, PTL DEF Spec

=============================================================================
