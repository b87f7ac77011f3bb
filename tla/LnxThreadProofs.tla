--------------------------- MODULE LnxThreadProofs ---------------------------
(***************************************************************************)
(* The types of LnxThread, that StartThread fails only without a thread,   *)
(* and that the handles keep an object's thread off it once it is deleted, *)
(* for every queue, every failure and every choice of time-outs.           *)
(***************************************************************************)
EXTENDS LnxThread, SequenceTheorems, TLAPS

-----------------------------------------------------------------------------
(* Types *)

\* The owner: it is in a step exactly while it is in an operation.
OwnerTyped ==
  /\ object \in {"none", "live", "deleted"}
  /\ op \in Ops \cup {"none"} /\ step \in Steps
  /\ timed \in BOOLEAN /\ late \in BOOLEAN /\ ret \in {"0", "1", "ETIMEDOUT"}
  /\ returned \in [Ops -> {"none", "ok", "failed", "not posted", "terminated"}]
  /\ op = "none" <=> step = "none"

\* The worker: a SetEvent is one of a phase that signals.
WorkerTyped ==
  /\ worker \in Phases /\ ev \in {"none", "lock", "set", "unlock"} /\ started \in BOOLEAN
  /\ ev # "none" => worker \in {"ready", "ack", "exit"}

QueueTyped ==
  /\ queue \in Seq(Messages) /\ Len(queue) <= QueueLen /\ hasQueue \in BOOLEAN
  /\ posts \in 0..MaxPosts

HandlesTyped ==
  /\ signal \in [Handles -> BOOLEAN]
  /\ mutex \in [Handles -> {"free", "owner", "worker", "destroyed"}]

\* A thread that has not come to GetQueue is awaited by CreateThread, which nothing has woken.
Begins ==
  /\ worker = "none" <=> object = "none"
  /\ object = "none" => /\ op = "none" /\ ~hasQueue
                         /\ \A h \in Handles : ~signal[h] /\ mutex[h] = "free"
  /\ worker = "entry" => /\ op = "CreateThread" /\ ~signal["created"]
                          /\ mutex["created"] \in {"free", "owner"}
  /\ op \in {"CreateThread", "StartThread"} => ~timed /\ ~late /\ ret = "0"
  /\ op # "none" => object = "live"
  /\ step \in {"terminate", "joined"} => op = "SafeExitThread"

TypeInv == OwnerTyped /\ WorkerTyped /\ QueueTyped /\ HandlesTyped /\ Begins

LEMMA HandlesNamed ==
  /\ DOMAIN Signals = {"ready", "ack", "exit"}
  /\ Signals["ready"] = "created" /\ Signals["ack"] = "started" /\ Signals["exit"] = "exited"
  /\ WaitsOn["CreateThread"] = "created" /\ WaitsOn["StartThread"] = "started"
  /\ WaitsOn["SafeExitThread"] = "exited"
  BY DEF Signals, WaitsOn

LEMMA PhasesNamed ==
  Phases = {"none", "entry", "init", "recv", "dispatch", "end", "close", "last", "ended", "lost",
            "ready", "ack", "exit"}
  BY HandlesNamed DEF Phases

\* The handle a SetEvent is about, and the one the owner waits on.
LEMMA HandleOf ==
  ASSUME TypeInv
  PROVE  /\ ev # "none" => Signals[worker] \in Handles
         /\ step # "none" => H \in Handles
  BY HandlesNamed DEF TypeInv, OwnerTyped, WorkerTyped, H, Handles, Ops

LEMMA TypeInit == Init => TypeInv
<1> SUFFICES ASSUME Init PROVE TypeInv
  OBVIOUS
<1>1. signal \in [Handles -> BOOLEAN] /\ mutex \in [Handles -> {"free", "owner", "worker", "destroyed"}]
  BY DEF Init
<1>2. returned \in [Ops -> {"none", "ok", "failed", "not posted", "terminated"}]
  BY DEF Init
<1>3. queue \in Seq(Messages) /\ Len(queue) <= QueueLen /\ posts \in 0..MaxPosts
  BY ConstantsAssumption, EmptySeq DEF Init
<1>4. worker \in Phases /\ step \in Steps
  BY PhasesNamed DEF Init, Steps
<1> QED
  BY <1>1, <1>2, <1>3, <1>4 DEF Init, TypeInv, OwnerTyped, WorkerTyped, QueueTyped, HandlesTyped,
                              Begins

LEMMA WakeTyped ==
  ASSUME OwnerTyped, NEW h, Wake(h), UNCHANGED object
  PROVE  OwnerTyped'
  BY DEF OwnerTyped, Wake, Asleep, Steps

LEMMA WaitReturnsTyped ==
  ASSUME OwnerTyped, op # "none", NEW r, WaitReturns(r)
  PROVE  OwnerTyped'
<1>1. CASE op \in {"CreateThread", "StartThread"}
  BY <1>1 DEF WaitReturns, Return, OwnerTyped, Steps
<1>2. CASE op = "SafeExitThread"
  BY <1>2 DEF WaitReturns, Return, OwnerTyped, Steps
<1> QED
  BY <1>1, <1>2 DEF OwnerTyped, Ops

LEMMA OwnerWait ==
  ASSUME TypeInv, Wait \/ WakeUp
  PROVE  OwnerTyped'
<1>0. OwnerTyped
  BY DEF TypeInv
<1> USE <1>0
<1>1. CASE WaitLook
  <2>1. CASE WaitReturns("0")
    BY <1>1, <2>1, WaitReturnsTyped DEF WaitLook, OwnerTyped
  <2> QED
    BY <1>1, <2>1 DEF WaitLook, OwnerTyped, Steps
<1>2. CASE WaitLock
  <2>1. CASE WaitReturns("EBUSY or EINVAL")
    BY <1>2, <2>1, WaitReturnsTyped DEF WaitLock, OwnerTyped
  <2> QED
    BY <1>2, <2>1 DEF WaitLock, OwnerTyped, Steps
<1>3. CASE WaitTest
  <2>1. CASE WaitReturns(WaitResult)
    BY <1>3, <2>1, WaitReturnsTyped DEF WaitTest, OwnerTyped
  <2> QED
    BY <1>3, <2>1 DEF WaitTest, OwnerTyped, Steps
<1>4. CASE WaitSleep
  BY <1>4 DEF WaitSleep, OwnerTyped, Steps
<1>5. CASE WakeUp
  BY <1>5 DEF WakeUp, OwnerTyped, Steps
<1>6. CASE WaitRelock
  BY <1>6 DEF WaitRelock, OwnerTyped, Steps
<1> QED
  BY <1>1, <1>2, <1>3, <1>4, <1>5, <1>6 DEF Wait

LEMMA OwnerStep ==
  ASSUME TypeInv, Next
  PROVE  OwnerTyped'
<1>0. OwnerTyped
  BY DEF TypeInv
<1> USE <1>0
<1>1. CASE SetEventLock
  BY <1>1, WakeTyped DEF SetEventLock
<1>2. CASE CloseStarted
  BY <1>2, WakeTyped DEF CloseStarted
<1>3. CASE UNCHANGED <<object, op, step, timed, late, ret, returned>>
  BY <1>3 DEF OwnerTyped
<1>4. CASE SetEventSignal \/ SetEventUnlock
  BY <1>3, <1>4 DEF SetEventSignal, SetEventUnlock, ownerVars
<1>5. CASE GetQueue \/ InitInstance \/ Run \/ RemoveQueue \/ ReadDoingUpgrade \/ HandlerReturns
  BY <1>3, <1>5 DEF GetQueue, InitInstance, Run, RemoveQueue, ReadDoingUpgrade, HandlerReturns,
                    ownerVars
<1>6. CASE CreateThread
  BY <1>6 DEF CreateThread, BeginWait, OwnerTyped, Ops, Steps
<1>7. CASE StartThread
  BY <1>7 DEF StartThread, BeginWait, OwnerTyped, Ops, Steps
<1>8. CASE \E t \in Timed : SafeExitThread(t)
  BY <1>8, ConstantsAssumption DEF SafeExitThread, BeginWait, OwnerTyped, Ops, Steps
<1>9. CASE TerminateThread
  BY <1>9 DEF TerminateThread, OwnerTyped, Steps
<1>10. CASE DeleteJoined
  BY <1>10 DEF DeleteJoined, Return, OwnerTyped, Ops, Steps
<1>11. CASE Timeout
  BY <1>11 DEF Timeout, OwnerTyped
<1>12. CASE PostThreadMessage
  BY <1>3, <1>12 DEF PostThreadMessage, ownerVars
<1> QED
  BY <1>1, <1>2, <1>4, <1>5, <1>6, <1>7, <1>8, <1>9, <1>10, <1>11, <1>12, OwnerWait
  DEF Next, Worker, SetEvent, Owner

LEMMA WorkerStep ==
  ASSUME TypeInv, Next
  PROVE  WorkerTyped'
<1>0. WorkerTyped
  BY DEF TypeInv
<1> USE <1>0, PhasesNamed
<1>1. CASE SetEventLock
  BY <1>1 DEF SetEventLock, OrLost, WorkerTyped
<1>2. CASE SetEventSignal
  BY <1>2 DEF SetEventSignal, OrLost, WorkerTyped
<1>3. CASE SetEventUnlock
  BY <1>3 DEF SetEventUnlock, AfterSetEvent, OrLost, WorkerTyped
<1>4. CASE GetQueue
  <2>1. worker = "entry" /\ Alive("exited")
    BY <1>4 DEF GetQueue, WorkerGoes, TypeInv, Begins, Alive
  <2> QED
    BY <1>4, <2>1 DEF GetQueue, WorkerGoes, OrLost, WorkerTyped
<1>5. CASE InitInstance \/ RemoveQueue \/ HandlerReturns
  BY <1>5 DEF InitInstance, RemoveQueue, HandlerReturns, WorkerGoes, OrLost, WorkerTyped
<1>6. CASE Run
  BY <1>6 DEF Run, OrLost, WorkerTyped
<1>7. CASE CloseStarted
  BY <1>7 DEF CloseStarted, ToTheEnd, WorkerGoes, OrLost, WorkerTyped
<1>8. CASE ReadDoingUpgrade
  <2>1. CASE Repaired("HandOver")
    BY <1>8, <2>1 DEF ReadDoingUpgrade, ToTheEnd, WorkerGoes, OrLost, WorkerTyped
  <2>2. CASE ~Repaired("HandOver")
    BY <1>8, <2>2 DEF ReadDoingUpgrade, WorkerGoes, OrLost, WorkerTyped
  <2> QED
    BY <2>1, <2>2
<1>9. CASE CreateThread
  BY <1>9 DEF CreateThread, WorkerTyped, TypeInv, Begins
<1>10. CASE TerminateThread
  BY <1>10 DEF TerminateThread, WorkerTyped
<1>11. CASE UNCHANGED workerVars
  BY <1>11 DEF workerVars, WorkerTyped
<1>12. CASE StartThread \/ (\E t \in Timed : SafeExitThread(t)) \/ WakeUp \/ DeleteJoined \/ Timeout
            \/ PostThreadMessage
  BY <1>11, <1>12 DEF StartThread, SafeExitThread, WakeUp, DeleteJoined, Timeout, PostThreadMessage
<1>13. CASE Wait
  BY <1>11, <1>13 DEF Wait, WaitLook, WaitLock, WaitTest, WaitSleep, WaitRelock
<1> QED
  BY <1>1, <1>2, <1>3, <1>4, <1>5, <1>6, <1>7, <1>8, <1>9, <1>10, <1>12, <1>13
  DEF Next, Worker, SetEvent, Owner

LEMMA AppendTyped ==
  ASSUME QueueTyped, NEW m \in Messages, CanPost, queue' = Append(queue, m)
  PROVE  queue' \in Seq(Messages) /\ Len(queue') <= QueueLen
<1>1. queue \in Seq(Messages) /\ Len(queue) < QueueLen
  BY DEF QueueTyped, CanPost
<1>2. queue' \in Seq(Messages) /\ Len(queue') = Len(queue) + 1 /\ Len(queue) \in Nat
  BY <1>1, AppendProperties, LenProperties
<1> QED
  BY <1>1, <1>2, ConstantsAssumption

LEMMA QueueStep ==
  ASSUME TypeInv, Next
  PROVE  QueueTyped'
<1>0. QueueTyped
  BY DEF TypeInv
<1>1. CASE Run
  <2>1. queue \in Seq(Messages) /\ queue # <<>> /\ queue' = Tail(queue) /\ UNCHANGED <<hasQueue, posts>>
    BY <1>0, <1>1 DEF Run, QueueTyped
  <2>2. queue' \in Seq(Messages) /\ Len(queue') = Len(queue) - 1 /\ Len(queue) \in Nat
    BY <2>1, HeadTailProperties, LenProperties
  <2> QED
    BY <1>0, <2>1, <2>2, ConstantsAssumption DEF QueueTyped
<1>2. CASE queue' = <<>> /\ hasQueue' = FALSE /\ UNCHANGED posts
  <2>1. <<>> \in Seq(Messages) /\ Len(<<>>) = 0
    BY EmptySeq
  <2>2. queue' \in Seq(Messages) /\ Len(queue') <= QueueLen
    BY <1>2, <2>1, ConstantsAssumption
  <2> QED
    BY <1>0, <1>2, <2>2 DEF QueueTyped
<1>3. CASE UNCHANGED queue /\ hasQueue' \in BOOLEAN /\ posts' \in 0..MaxPosts
  BY <1>0, <1>3 DEF QueueTyped
<1>4. CASE \E m \in Messages : CanPost /\ queue' = Append(queue, m) /\ UNCHANGED hasQueue
                               /\ posts' \in 0..MaxPosts
  BY <1>0, <1>4, AppendTyped DEF QueueTyped
<1>5. posts \in 0..MaxPosts /\ hasQueue \in BOOLEAN
  BY <1>0 DEF QueueTyped
<1>6. CASE SetEvent \/ InitInstance \/ CloseStarted \/ ReadDoingUpgrade \/ HandlerReturns
  BY <1>3, <1>5, <1>6 DEF SetEvent, SetEventLock, SetEventSignal, SetEventUnlock, InitInstance,
                          CloseStarted, ReadDoingUpgrade, HandlerReturns, queueVars
<1>7. CASE GetQueue
  BY <1>3, <1>5, <1>7 DEF GetQueue
<1>8. CASE RemoveQueue \/ TerminateThread
  BY <1>2, <1>8 DEF RemoveQueue, TerminateThread
<1>9. CASE CreateThread \/ WakeUp \/ DeleteJoined \/ Timeout
  BY <1>3, <1>5, <1>9 DEF CreateThread, WakeUp, DeleteJoined, Timeout, queueVars
<1>10. CASE Wait
  BY <1>3, <1>5, <1>10 DEF Wait, WaitLook, WaitLock, WaitTest, WaitSleep, WaitRelock, queueVars
<1>11. CASE StartThread
  BY <1>3, <1>4, <1>5, <1>11 DEF StartThread, Messages
<1>12. CASE \E t \in Timed : SafeExitThread(t)
  BY <1>3, <1>4, <1>5, <1>12 DEF SafeExitThread, Messages
<1>13. CASE PostThreadMessage
  <2>1. posts' \in 0..MaxPosts
    BY <1>5, <1>13, ConstantsAssumption DEF PostThreadMessage
  <2> QED
    BY <1>3, <1>4, <1>5, <1>13, <2>1 DEF PostThreadMessage, Messages
<1> QED
  BY <1>1, <1>6, <1>7, <1>8, <1>9, <1>10, <1>11, <1>12, <1>13 DEF Next, Worker, Owner

LEMMA HandleStep ==
  ASSUME TypeInv, Next
  PROVE  HandlesTyped'
<1>0. HandlesTyped
  BY DEF TypeInv
<1>1. CASE SetEvent
  <2>1. Signals[worker] \in Handles
    BY <1>1, HandleOf DEF SetEvent, SetEventLock, SetEventSignal, SetEventUnlock
  <2> QED
    BY <1>0, <1>1, <2>1 DEF SetEvent, SetEventLock, SetEventSignal, SetEventUnlock, HandlesTyped
<1>2. CASE Wait
  <2>1. H \in Handles
    BY <1>2, HandleOf DEF Wait, WaitLook, WaitLock, WaitTest, WaitSleep, WaitRelock
  <2> QED
    BY <1>0, <1>2, <2>1 DEF Wait, WaitLook, WaitLock, WaitTest, WaitSleep, WaitRelock, handleVars,
                            HandlesTyped
<1>3. CASE CloseStarted
  BY <1>0, <1>3 DEF CloseStarted, HandlesTyped, Handles
<1>4. CASE UNCHANGED handleVars
  BY <1>0, <1>4 DEF HandlesTyped, handleVars
<1>5. CASE GetQueue \/ InitInstance \/ Run \/ RemoveQueue \/ ReadDoingUpgrade \/ HandlerReturns
  BY <1>4, <1>5 DEF GetQueue, InitInstance, Run, RemoveQueue, ReadDoingUpgrade, HandlerReturns
<1>6. CASE CreateThread \/ StartThread \/ (\E t \in Timed : SafeExitThread(t)) \/ WakeUp
           \/ TerminateThread \/ DeleteJoined \/ Timeout \/ PostThreadMessage
  BY <1>4, <1>6 DEF CreateThread, StartThread, SafeExitThread, WakeUp, TerminateThread, DeleteJoined,
                    Timeout, PostThreadMessage
<1> QED
  BY <1>1, <1>2, <1>3, <1>5, <1>6 DEF Next, Worker, Owner

\* The worker's steps leave the owner where it is, or wake it.
LEMMA WorkerLeaves ==
  ASSUME TypeInv, Worker \/ HandlerReturns
  PROVE  /\ worker \notin {"none", "entry"} \/ GetQueue
         /\ worker' \notin {"none", "entry"}
         /\ UNCHANGED <<object, op, timed, late, returned>>
         /\ \/ UNCHANGED <<step, ret>>
            \/ step = "blocked" /\ step' = "woken" /\ ret' = "0"
<1>0. WorkerTyped
  BY DEF TypeInv
<1> USE <1>0
<1>1. CASE SetEventLock
  BY <1>1 DEF SetEventLock, OrLost, Wake, Asleep, WorkerTyped
<1>2. CASE SetEventSignal
  BY <1>2 DEF SetEventSignal, OrLost, WorkerTyped, ownerVars
<1>3. CASE SetEventUnlock
  BY <1>3 DEF SetEventUnlock, AfterSetEvent, OrLost, WorkerTyped, ownerVars
<1>4. CASE GetQueue
  BY <1>4 DEF GetQueue, WorkerGoes, OrLost, ownerVars
<1>5. CASE InitInstance \/ RemoveQueue \/ HandlerReturns
  BY <1>5 DEF InitInstance, RemoveQueue, HandlerReturns, WorkerGoes, OrLost, ownerVars
<1>6. CASE Run
  BY <1>6 DEF Run, OrLost, ownerVars
<1>7. CASE CloseStarted
  BY <1>7 DEF CloseStarted, ToTheEnd, WorkerGoes, OrLost, Wake, Asleep
<1>8. CASE ReadDoingUpgrade
  BY <1>8 DEF ReadDoingUpgrade, ToTheEnd, WorkerGoes, OrLost, ownerVars
<1> QED
  BY <1>1, <1>2, <1>3, <1>4, <1>5, <1>6, <1>7, <1>8 DEF Worker, SetEvent

LEMMA BeginsWorker ==
  ASSUME TypeInv, Worker \/ HandlerReturns
  PROVE  Begins'
<1>1. worker # "none"
  BY WorkerLeaves DEF GetQueue, WorkerGoes
<1> QED
  BY <1>1, WorkerLeaves DEF TypeInv, Begins

LEMMA BeginsWait ==
  ASSUME TypeInv, Wait
  PROVE  Begins'
<1>1. /\ UNCHANGED <<worker, hasQueue>> /\ step # "none" /\ op # "none" /\ op \in Ops
      /\ object = "live" /\ worker # "none"
  BY DEF Wait, WaitLook, WaitLock, WaitTest, WaitSleep, WaitRelock, workerVars, queueVars, TypeInv,
         OwnerTyped, Begins
<1>2. ASSUME NEW r, WaitReturns(r)
      PROVE  /\ \/ op' = "none" /\ step' = "none" /\ ~timed' /\ ~late' /\ ret' = "0"
                \/ op = "SafeExitThread" /\ step' = "terminate" /\ UNCHANGED <<op, timed, late, ret>>
             /\ object' = "live" \/ (object' = "deleted" /\ op' = "none")
  BY <1>1, <1>2 DEF WaitReturns, Return, Ops
<1>3. \/ \E r : WaitReturns(r)
      \/ /\ UNCHANGED <<object, op, timed, late>> /\ ret' \in {ret, IF timed THEN "1" ELSE "0"}
         /\ step' \in {"trylock", "test", "tested", "blocked"}
  <2>1. CASE WaitLook \/ WaitLock
    BY <2>1 DEF WaitLook, WaitLock
  <2>2. CASE WaitTest
    BY <2>2 DEF WaitTest
  <2>3. CASE WaitSleep \/ WaitRelock
    BY <2>3 DEF WaitSleep, WaitRelock
  <2> QED
    BY <2>1, <2>2, <2>3 DEF Wait
<1>4. ASSUME worker = "entry"
      PROVE  /\ op' = "CreateThread" /\ ~signal'["created"]
             /\ mutex'["created"] \in {"free", "owner"}
  <2>1. /\ op = "CreateThread" /\ H = "created" /\ ~signal["created"] /\ ~timed
        /\ mutex["created"] \in {"free", "owner"}
    BY <1>4, HandlesNamed DEF TypeInv, Begins, H
  <2>2. /\ signal \in [Handles -> BOOLEAN] /\ "created" \in Handles
        /\ mutex \in [Handles -> {"free", "owner", "worker", "destroyed"}]
    BY DEF TypeInv, HandlesTyped, Handles
  <2>3. CASE WaitLook
    BY <2>1, <2>3 DEF WaitLook
  <2>4. CASE WaitLock
    BY <2>1, <2>2, <2>4 DEF WaitLock
  <2>5. CASE WaitTest
    BY <2>1, <2>5 DEF WaitTest, WaitsOnward, handleVars
  <2>6. CASE WaitSleep
    BY <2>1, <2>2, <2>6 DEF WaitSleep
  <2>7. CASE WaitRelock
    BY <2>1, <2>2, <2>7 DEF WaitRelock
  <2> QED
    BY <2>3, <2>4, <2>5, <2>6, <2>7 DEF Wait
<1>5. (op \in {"CreateThread", "StartThread"} => ~timed /\ ~late /\ ret = "0")'
  BY <1>2, <1>3 DEF TypeInv, Begins
<1>6. /\ object' # "none" /\ (op' # "none" => object' = "live")
      /\ step' \in {"terminate", "joined"} => op' = "SafeExitThread"
  BY <1>1, <1>2, <1>3
<1> QED
  BY <1>1, <1>4, <1>5, <1>6 DEF Begins

LEMMA BeginsOwner ==
  ASSUME TypeInv, Owner \/ Timeout \/ PostThreadMessage
  PROVE  Begins'
<1>1. CASE CreateThread
  BY <1>1 DEF CreateThread, BeginWait, TypeInv, Begins, OwnerTyped, handleVars, queueVars, Handles
<1>2. CASE StartThread
  BY <1>2 DEF StartThread, BeginWait, TypeInv, Begins, OwnerTyped, handleVars, workerVars
<1>3. CASE \E t \in Timed : SafeExitThread(t)
  BY <1>3 DEF SafeExitThread, BeginWait, TypeInv, Begins, OwnerTyped, handleVars, workerVars
<1>4. CASE WakeUp
  BY <1>4 DEF WakeUp, TypeInv, Begins, OwnerTyped, handleVars, workerVars, queueVars
<1>5. CASE TerminateThread
  BY <1>5 DEF TerminateThread, TypeInv, Begins, OwnerTyped, handleVars
<1>6. CASE DeleteJoined
  BY <1>6 DEF DeleteJoined, Return, TypeInv, Begins, OwnerTyped, handleVars, workerVars, queueVars
<1>7. CASE Timeout
  BY <1>7 DEF Timeout, TypeInv, Begins, OwnerTyped, handleVars, workerVars, queueVars
<1>8. CASE PostThreadMessage
  BY <1>8 DEF PostThreadMessage, TypeInv, Begins, handleVars, workerVars, ownerVars
<1> QED
  BY <1>1, <1>2, <1>3, <1>4, <1>5, <1>6, <1>7, <1>8, BeginsWait DEF Owner

LEMMA TypeStep == TypeInv /\ [Next]_vars => TypeInv'
<1>1. TypeInv /\ Next => TypeInv'
  BY OwnerStep, WorkerStep, QueueStep, HandleStep, BeginsWorker, BeginsOwner
  DEF TypeInv, Next
<1>2. ASSUME TypeInv, UNCHANGED vars PROVE TypeInv'
  <2>1. OwnerTyped'
    BY <1>2 DEF TypeInv, OwnerTyped, vars, ownerVars
  <2>2. WorkerTyped' /\ QueueTyped'
    BY <1>2 DEF TypeInv, WorkerTyped, QueueTyped, vars, workerVars, queueVars
  <2>3. HandlesTyped'
    BY <1>2 DEF TypeInv, HandlesTyped, vars, handleVars
  <2>4. Begins'
    BY <1>2 DEF TypeInv, Begins, vars, ownerVars, workerVars, queueVars, handleVars
  <2> QED
    BY <2>1, <2>2, <2>3, <2>4 DEF TypeInv
<1> QED
  BY <1>1, <1>2

\* Every variable keeps its type, and the queue its bound, whatever fails and whatever is
\* repaired: a worker that is lost over a deleted handle included.
THEOREM TypeCorrect == Spec => []TypeOK
<1>1. TypeInv => TypeOK
  BY DEF TypeInv, OwnerTyped, WorkerTyped, QueueTyped, HandlesTyped, TypeOK
<1> QED
  BY TypeInit, TypeStep, <1>1, PTL DEF Spec

-----------------------------------------------------------------------------
(* StartThread *)

\* The queue is gone before wait_handle2 is destroyed, and with it the thread's work.
StartInv ==
  /\ worker \in {"none", "entry"} => /\ returned["StartThread"] = "none"
                                     /\ mutex["started"] # "destroyed"
  /\ worker \in {"close", "last", "exit", "ended"} => ~hasQueue
  /\ mutex["started"] = "destroyed" => ~hasQueue
  /\ StartFailsWithoutThread

LEMMA StartInit == Init => StartInv
  BY DEF Init, StartInv, StartFailsWithoutThread, Ops, Handles

LEMMA StartWorker ==
  ASSUME TypeInv, StartInv, Worker \/ HandlerReturns
  PROVE  StartInv'
<1>1. worker' \notin {"none", "entry"} /\ returned' = returned
  BY WorkerLeaves
<1>2. /\ worker' \in {"close", "last", "exit", "ended"} => ~hasQueue'
      /\ mutex'["started"] = "destroyed" => ~hasQueue'
      /\ hasQueue' => hasQueue \/ returned["StartThread"] # "failed"
  <2> USE DEF StartInv
  <2>0. /\ ev # "none" => worker \in {"ready", "ack", "exit"} /\ Signals[worker] \in Handles
        /\ mutex \in [Handles -> {"free", "owner", "worker", "destroyed"}] /\ "started" \in Handles
    BY HandleOf DEF TypeInv, WorkerTyped, HandlesTyped, Handles
  <2>1. CASE SetEventLock
    BY <2>0, <2>1 DEF SetEventLock, OrLost, queueVars
  <2>2. CASE SetEventSignal
    BY <2>2 DEF SetEventSignal, OrLost, queueVars
  <2>3. CASE SetEventUnlock
    BY <2>0, <2>3 DEF SetEventUnlock, AfterSetEvent, OrLost, queueVars
  <2>4. CASE GetQueue
    BY <2>4 DEF GetQueue, WorkerGoes, OrLost, handleVars
  <2>5. CASE InitInstance \/ HandlerReturns \/ Run
    BY <2>5 DEF InitInstance, HandlerReturns, Run, WorkerGoes, OrLost, queueVars, handleVars
  <2>6. CASE RemoveQueue
    BY <2>6 DEF RemoveQueue
  <2>7. CASE CloseStarted
    BY <2>7 DEF CloseStarted, ToTheEnd, WorkerGoes, OrLost, queueVars
  <2>8. CASE ReadDoingUpgrade
    BY <2>8 DEF ReadDoingUpgrade, ToTheEnd, WorkerGoes, OrLost, queueVars, handleVars
  <2> QED
    BY <2>1, <2>2, <2>3, <2>4, <2>5, <2>6, <2>7, <2>8 DEF Worker, SetEvent
<1> QED
  BY <1>1, <1>2 DEF StartInv, StartFailsWithoutThread

LEMMA StartWait ==
  ASSUME "TryLock" \in Repairs, TypeInv, StartInv, Wait
  PROVE  StartInv'
<1>1. /\ UNCHANGED <<worker, hasQueue>> /\ H \in Handles /\ "started" \in Handles
      /\ mutex \in [Handles -> {"free", "owner", "worker", "destroyed"}]
      /\ op \in Ops /\ op # "none"
  BY HandleOf DEF Wait, WaitLook, WaitLock, WaitTest, WaitSleep, WaitRelock, workerVars, queueVars,
                  TypeInv, HandlesTyped, OwnerTyped, Handles
<1>2. mutex'["started"] = "destroyed" => mutex["started"] = "destroyed"
  <2>1. mutex' = mutex \/ \E v \in {"free", "owner"} : mutex' = [mutex EXCEPT ![H] = v]
                       \/ mutex' = [mutex EXCEPT ![H] = mutex[H]]
    BY DEF Wait, WaitLook, WaitLock, WaitTest, WaitSleep, WaitRelock, handleVars
  <2> QED
    BY <1>1, <2>1
<1>3. ASSUME NEW r, WaitReturns(r), r = "0" \/ op # "StartThread"
      PROVE  returned'["StartThread"] \in {returned["StartThread"], "ok"}
  <2>1. returned' = returned \/ \E v : /\ returned' = [returned EXCEPT ![op] = v]
                                       /\ v = "ok" \/ op # "StartThread"
    BY <1>1, <1>3 DEF WaitReturns, Return
  <2> QED
    BY <2>1 DEF TypeInv, OwnerTyped, Ops
<1>4. CASE returned'["StartThread"] = "failed" /\ returned["StartThread"] # "failed"
  <2>1. PICK r : WaitReturns(r) /\ \/ r = "0"
                                   \/ step = "test" /\ r = WaitResult /\ ~WaitsOnward
                                   \/ step = "trylock" /\ mutex[H] = "destroyed"
    BY <1>4 DEF Wait, WaitLook, WaitLock, WaitTest, WaitSleep, WaitRelock, Repaired
  <2>2. op = "StartThread" /\ r # "0"
    BY <1>3, <1>4, <2>1
  <2>3. H = "started" /\ ~timed /\ ret = "0"
    BY <2>2, HandlesNamed DEF TypeInv, Begins, H
  <2>4. mutex["started"] = "destroyed"
    BY <2>1, <2>2, <2>3 DEF WaitResult, WaitsOnward
  <2> QED
    BY <1>1, <1>2, <1>4, <2>4 DEF StartInv, StartFailsWithoutThread
<1>5. worker' = "entry" => op' = "CreateThread"
  BY BeginsWait DEF Begins
<1>6. worker' = "entry" => returned' = returned
  <2>1. op' = "CreateThread" => ~\E r : WaitReturns(r) /\ op = "CreateThread"
    BY DEF WaitReturns, Return
  <2> QED
    BY <1>1, <1>5, <2>1 DEF Wait, WaitLook, WaitLock, WaitTest, WaitSleep, WaitRelock, TypeInv, Begins
<1>7. worker # "none"
  BY <1>1 DEF TypeInv, Begins
<1> QED
  BY <1>1, <1>2, <1>4, <1>6, <1>7 DEF StartInv, StartFailsWithoutThread

LEMMA StartStep ==
  ASSUME "TryLock" \in Repairs, TypeInv, StartInv, [Next]_vars
  PROVE  StartInv'
<1> USE DEF StartInv, StartFailsWithoutThread
<1>1. returned \in [Ops -> {"none", "ok", "failed", "not posted", "terminated"}]
  BY DEF TypeInv, OwnerTyped
<1>2. CASE CreateThread
  BY <1>2 DEF CreateThread, BeginWait, TypeInv, Begins, handleVars, queueVars
<1>3. CASE StartThread
  BY <1>1, <1>3 DEF StartThread, TypeInv, Begins, BeginWait, handleVars, workerVars, Ops
<1>4. CASE \E t \in Timed : SafeExitThread(t)
  BY <1>4 DEF SafeExitThread, handleVars, workerVars
<1>5. CASE WakeUp \/ Timeout \/ PostThreadMessage
  BY <1>5 DEF WakeUp, Timeout, PostThreadMessage, handleVars, workerVars, queueVars, ownerVars
<1>6. CASE TerminateThread
  BY <1>6 DEF TerminateThread, handleVars
<1>7. CASE DeleteJoined
  BY <1>1, <1>7 DEF DeleteJoined, Return, TypeInv, Begins, OwnerTyped, handleVars, workerVars,
                    queueVars, Ops
<1>8. CASE UNCHANGED vars
  BY <1>8 DEF vars, ownerVars, workerVars, queueVars, handleVars
<1> QED
  BY <1>2, <1>3, <1>4, <1>5, <1>6, <1>7, <1>8, StartWorker, StartWait DEF Next, Owner

\* Once a mutex that is held is waited for, StartThread fails only when no thread is there
\* to read START_THREAD, the thread that ends before it reads it included.
THEOREM StartNeedsAThread ==
  ASSUME "TryLock" \in Repairs
  PROVE  Spec => []StartFailsWithoutThread
<1>1. TypeInv /\ StartInv /\ [Next]_vars => StartInv'
  BY StartStep
<1>2. StartInv => StartFailsWithoutThread
  BY DEF StartInv
<1> QED
  BY TypeInit, TypeStep, StartInit, <1>1, <1>2, PTL DEF Spec

-----------------------------------------------------------------------------
(* The refinement of ThreadLife *)

\* Who waits for the thread's end has wait_handle1's mutex when it looks at the signal, and the
\* thread, when it gives it; it has done with the object when it lets the mutex go.
LifeInv ==
  /\ op = "SafeExitThread" /\ step \in {"test", "tested"} => mutex["exited"] = "owner"
  /\ mutex["exited"] # "destroyed"
  /\ worker = "exit" /\ ev \in {"set", "unlock"} => mutex["exited"] = "worker"
  /\ signal["exited"] => worker = "ended" \/ (worker = "exit" /\ ev = "unlock")
  /\ step = "joined" \/ object = "deleted" => worker = "ended"

LEMMA LifeInit == Init => LifeInv
  BY DEF Init, LifeInv, Handles

LEMMA LifeWorker ==
  ASSUME "HandOver" \in Repairs, TypeInv, LifeInv, Worker \/ HandlerReturns
  PROVE  LifeInv' /\ worker \notin {"none", "ended"}
<1>0. /\ ev # "none" => worker \in {"ready", "ack", "exit"}
      /\ mutex \in [Handles -> {"free", "owner", "worker", "destroyed"}]
      /\ signal \in [Handles -> BOOLEAN] /\ Handles = {"created", "started", "exited"}
  BY DEF TypeInv, WorkerTyped, HandlesTyped, Handles
<1>1. /\ worker \notin {"none", "ended"} /\ object = "live" /\ object' = object
      /\ op' = op /\ (step' = step \/ (step = "blocked" /\ step' = "woken"))
  <2>1. worker \notin {"none", "ended"}
    BY <1>0, WorkerLeaves DEF Worker, SetEvent, SetEventLock, SetEventSignal, SetEventUnlock, GetQueue,
          InitInstance, Run, RemoveQueue, CloseStarted, ReadDoingUpgrade, HandlerReturns, ToTheEnd,
          WorkerGoes
  <2> QED
    BY <2>1, WorkerLeaves DEF LifeInv, TypeInv, Begins, OwnerTyped
<1>2. Alive("exited") /\ Repaired("HandOver")
  BY <1>1 DEF Alive, Repaired
<1> USE <1>0, <1>1, HandlesNamed DEF LifeInv
<1>3. CASE SetEventLock
  BY <1>2, <1>3 DEF SetEventLock, OrLost
<1>4. CASE SetEventSignal
  BY <1>2, <1>4 DEF SetEventSignal, OrLost
<1>5. CASE SetEventUnlock
  <2>1. CASE worker = "exit"
    BY <1>2, <1>5, <2>1 DEF SetEventUnlock, OrLost, AfterSetEvent
  <2>2. CASE worker # "exit"
    BY <1>2, <1>5, <2>2 DEF SetEventUnlock, OrLost, AfterSetEvent
  <2> QED
    BY <2>1, <2>2
<1>6. CASE GetQueue \/ InitInstance \/ HandlerReturns \/ RemoveQueue
  BY <1>6 DEF GetQueue, InitInstance, HandlerReturns, RemoveQueue, WorkerGoes, OrLost, handleVars
<1>7. CASE Run
  BY <1>7 DEF Run, OrLost, handleVars
<1>8. CASE CloseStarted
  BY <1>8 DEF CloseStarted, ToTheEnd, WorkerGoes, OrLost
<1>9. CASE ReadDoingUpgrade
  BY <1>2, <1>9 DEF ReadDoingUpgrade, ToTheEnd, WorkerGoes, OrLost, handleVars
<1> QED
  BY <1>3, <1>4, <1>5, <1>6, <1>7, <1>8, <1>9 DEF Worker, SetEvent

LEMMA LifeWait ==
  ASSUME {"HandOver", "TimedWait"} \subseteq Repairs, TypeInv, LifeInv, Wait
  PROVE  /\ LifeInv' /\ worker' = worker
         /\ object' = object \/ (object = "live" /\ object' = "deleted" /\ worker = "ended")
<1>0. /\ H \in Handles /\ mutex \in [Handles -> {"free", "owner", "worker", "destroyed"}]
      /\ signal \in [Handles -> BOOLEAN] /\ Handles = {"created", "started", "exited"}
  BY HandleOf DEF Wait, WaitLook, WaitLock, WaitTest, WaitSleep, WaitRelock, TypeInv, HandlesTyped,
                  Handles
<1>1. /\ worker' = worker /\ ev' = ev /\ op \in Ops
      /\ op = "SafeExitThread" <=> H = "exited"
      /\ op # "none" => object = "live"
  BY HandlesNamed DEF Wait, WaitLook, WaitLock, WaitTest, WaitSleep, WaitRelock, workerVars, TypeInv,
                      OwnerTyped, Begins, H, Ops
<1>2. ASSUME NEW r, WaitReturns(r), op # "SafeExitThread" \/ r # "0"
      PROVE  /\ object' = object
             /\ \/ op' = "none" /\ step' = "none"
                \/ op' = "SafeExitThread" /\ step' = "terminate"
  BY <1>2 DEF WaitReturns, Return
<1>3. CASE H # "exited"
  <2>1. mutex'["exited"] = mutex["exited"] /\ signal'["exited"] = signal["exited"]
    BY <1>0, <1>3 DEF Wait, WaitLook, WaitLock, WaitTest, WaitSleep, WaitRelock, handleVars
  <2>2. \/ \E r : WaitReturns(r)
        \/ UNCHANGED <<object, op>> /\ step' # "joined"
    BY DEF Wait, WaitLook, WaitLock, WaitTest, WaitSleep, WaitRelock
  <2> QED
    BY <1>1, <1>2, <1>3, <2>1, <2>2 DEF LifeInv
<1>4. CASE H = "exited"
  <2> USE DEF LifeInv
  <2>1. CASE WaitLook
    BY <1>0, <1>1, <1>4, <2>1 DEF WaitLook, Repaired
  <2>2. CASE WaitLock
    BY <1>0, <1>1, <1>2, <1>4, <2>2 DEF WaitLock
  <2>3. CASE WaitTest
    <3>1. mutex["exited"] = "owner"
      BY <1>1, <1>4, <2>3 DEF WaitTest
    <3>2. signal["exited"] => worker = "ended"
      BY <3>1
    <3>3. CASE WaitsOnward
      BY <1>1, <1>4, <2>3, <3>1, <3>3 DEF WaitTest, handleVars
    <3>4. CASE ~WaitsOnward
      <4>1. WaitReturns(WaitResult) /\ ~signal'["exited"] /\ mutex'["exited"] = "free"
        BY <1>0, <1>4, <2>3, <3>1, <3>4 DEF WaitTest
      <4>2. WaitResult = "0" => signal["exited"]
        BY <1>4, <3>4 DEF WaitResult, WaitsOnward, Repaired
      <4>3. /\ object' = object \/ (object = "live" /\ object' = "deleted" /\ worker = "ended")
            /\ step' \notin {"test", "tested", "joined"}
        BY <1>1, <1>4, <3>2, <4>1, <4>2 DEF WaitReturns, Return
      <4> QED
        BY <1>1, <3>1, <4>1, <4>3
    <3> QED
      BY <3>3, <3>4
  <2>4. CASE WaitSleep
    BY <1>0, <1>1, <1>4, <2>4 DEF WaitSleep
  <2>5. CASE WaitRelock
    BY <1>0, <1>1, <1>4, <2>5 DEF WaitRelock
  <2> QED
    BY <2>1, <2>2, <2>3, <2>4, <2>5 DEF Wait
<1> QED
  BY <1>3, <1>4

LEMMA LifeOwner ==
  ASSUME TypeInv, LifeInv,
         WakeUp \/ StartThread \/ (\E t \in Timed : SafeExitThread(t)) \/ TerminateThread
           \/ DeleteJoined \/ Timeout \/ PostThreadMessage
  PROVE  /\ LifeInv' /\ (worker = "none" => worker' = "none")
         /\ object' = object \/ (object = "live" /\ object' = "deleted")
         /\ object' # object => worker = "ended"
         /\ worker' = worker \/ worker' = "ended"
<1> USE DEF LifeInv, TypeInv, Begins, OwnerTyped
<1>1. CASE WakeUp
  BY <1>1 DEF WakeUp, handleVars, workerVars
<1>2. CASE StartThread
  BY <1>2 DEF StartThread, BeginWait, handleVars, workerVars
<1>3. CASE \E t \in Timed : SafeExitThread(t)
  BY <1>3 DEF SafeExitThread, BeginWait, handleVars, workerVars
<1>4. CASE TerminateThread
  BY <1>4 DEF TerminateThread, handleVars
<1>5. CASE DeleteJoined
  BY <1>5 DEF DeleteJoined, Return, handleVars, workerVars
<1>6. CASE Timeout
  BY <1>6 DEF Timeout, handleVars, workerVars
<1>7. CASE PostThreadMessage
  BY <1>7 DEF PostThreadMessage, handleVars, workerVars, ownerVars
<1> QED
  BY <1>1, <1>2, <1>3, <1>4, <1>5, <1>6, <1>7

\* Every step is one of ThreadLife on the object and its thread, or none at all.
LEMMA LifeStep ==
  ASSUME {"HandOver", "TimedWait"} \subseteq Repairs, TypeInv, LifeInv, [Next]_vars
  PROVE  LifeInv' /\ [Life!Next]_(Life!lifeVars)
<1>1. CASE Worker \/ HandlerReturns
  <2>1. LifeInv' /\ worker \notin {"none", "ended"} /\ worker' # "none" /\ object' = object
    BY <1>1, LifeWorker, WorkerLeaves
  <2> QED
    BY <2>1 DEF Life!Next, Life!End, Life!lifeVars
<1>2. CASE Wait
  <2>1. worker # "none"
    BY <1>2 DEF TypeInv, Begins, OwnerTyped, Wait, WaitLook, WaitLock, WaitTest, WaitSleep, WaitRelock
  <2> QED
    BY <1>2, <2>1, LifeWait DEF Life!Next, Life!Delete, Life!lifeVars
<1>3. CASE CreateThread
  <2>1. worker = "none" /\ worker' = "entry" /\ object = "none" /\ object' = "live"
    BY <1>3 DEF CreateThread, TypeInv, Begins
  <2>2. LifeInv'
    BY <1>3, <2>1 DEF CreateThread, BeginWait, LifeInv, handleVars, TypeInv, Begins, Handles
  <2> QED
    BY <2>1, <2>2 DEF Life!Next, Life!Create, Life!lifeVars
<1>4. CASE WakeUp \/ StartThread \/ (\E t \in Timed : SafeExitThread(t)) \/ TerminateThread
           \/ DeleteJoined \/ Timeout \/ PostThreadMessage
  BY <1>4, LifeOwner DEF Life!Next, Life!Delete, Life!End, Life!lifeVars
<1>5. CASE UNCHANGED vars
  BY <1>5 DEF vars, ownerVars, workerVars, queueVars, handleVars, LifeInv, Life!lifeVars
<1> QED
  BY <1>1, <1>2, <1>3, <1>4, <1>5 DEF Next, Owner

\* Once a wait looks at signal only with the mutex and ends with the signal or its time-out,
\* LnxThread implements ThreadLife: an object is deleted once, and not before its thread has
\* done with it, wherever the thread ends or is cancelled.
THEOREM Refinement ==
  ASSUME {"HandOver", "TimedWait"} \subseteq Repairs
  PROVE  Spec => ImplementsThreadLife
<1>1. Init => Life!Init
  BY DEF Init, Life!Init
<1>2. TypeInv /\ LifeInv /\ [Next]_vars => LifeInv' /\ [Life!Next]_(Life!lifeVars)
  BY LifeStep
<1> QED
  BY TypeInit, TypeStep, LifeInit, <1>1, <1>2, PTL DEF Spec, ImplementsThreadLife, Life!Spec
=============================================================================
