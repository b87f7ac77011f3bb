----------------------------- MODULE LnxThread -----------------------------
(***************************************************************************)
(* The life of a CLnxThread object between two threads: the owner, which   *)
(* calls CreateThread, StartThread and SafeExitThread, and the worker,     *)
(* which runs _LnxThreadEntry, Run and LnxEndThread.  They meet in the     *)
(* worker's message queue and in three WAIT_HANDLEs (threadutil.cpp),      *)
(* whose pthread operations are single steps here:                         *)
(*                                                                         *)
(*   "created"  CreateThread's local handle: the queue exists, or cannot   *)
(*   "started"  wait_handle2: Run has read START_THREAD                    *)
(*   "exited"   wait_handle1: the thread is through                        *)
(*                                                                         *)
(* The timers of the class are in StateMachine.  doing_upgrade is FALSE    *)
(* here: the one class that sets it deletes itself and has no owner.       *)
(***************************************************************************)
EXTENDS Integers, Sequences

CONSTANTS
  Timed,      \* whether SafeExitThread is called with a time-out: subset of BOOLEAN
  MayFail,    \* what may fail: subset of {"msgget", "InitInstance"}
  QueueLen,   \* bound: messages the queue holds (msg_qbytes)
  MaxPosts,   \* bound: messages that other threads post
  Repairs     \* the defects below taken to be repaired; {} is the code as it is

(***************************************************************************)
(*  "TimedWait"  the timed loop of WaitForSingleObject runs while            *)
(*               pthread_cond_timedwait fails and stops when it succeeds   *)
(*  "HandOver"   WaitForSingleObject looks at signal without the mutex, so *)
(*               that its caller may destroy the handle or the object      *)
(*               before SetEvent has unlocked it; and LnxEndThread reads   *)
(*               doing_upgrade after it has announced its end              *)
(*  "TryLock"    WaitForSingleObject fails, and CloseHandle goes ahead     *)
(*               without the mutex, when another thread holds it           *)
(***************************************************************************)
Defects == {"TimedWait", "HandOver", "TryLock"}

ASSUME ConstantsAssumption ==
  /\ Timed \subseteq BOOLEAN
  /\ MayFail \subseteq {"msgget", "InitInstance"}
  /\ QueueLen \in Nat \ {0}
  /\ MaxPosts \in Nat
  /\ Repairs \subseteq Defects

Ops == {"CreateThread", "StartThread", "SafeExitThread"}
Handles == {"created", "started", "exited"}
Messages == {"START_THREAD", "STOP_THREAD", "other"}

\* The handle an operation of the owner waits on, and the one a phase of the
\* worker signals.
WaitsOn == [CreateThread |-> "created", StartThread |-> "started",
            SafeExitThread |-> "exited"]
Signals == [ready |-> "created", ack |-> "started", exit |-> "exited"]

VARIABLES
  object,     \* "none", "live", "deleted"
  worker,     \* the worker's phase
  ev,         \* in a SetEvent: "lock", "set" or "unlock" is next
  queue,      \* the messages in the worker's queue
  hasQueue,   \* the queue exists
  started,    \* start_process: Run has read START_THREAD
  signal,     \* WAIT_HANDLE::signal
  mutex,      \* WAIT_HANDLE::pthread_mutex: "free", its holder, or "destroyed"
  op,         \* the operation the owner is in, or "none"
  step,       \* where in it
  timed,      \* its wait has a time-out
  late,       \*   which has passed
  ret,        \* what the last pthread_cond_wait or _timedwait returned
  returned,   \* how each operation returned
  posts       \* messages other threads may still post

workerVars == <<worker, ev, started>>
queueVars == <<queue, hasQueue>>
handleVars == <<signal, mutex>>
ownerVars == <<op, step, timed, late, ret, returned>>
vars == <<object, workerVars, queueVars, handleVars, ownerVars, posts>>

Phases == {"none", "entry", "init", "recv", "dispatch", "end", "close", "last",
           "ended", "lost"} \cup DOMAIN Signals
Steps == {"none", "look", "trylock", "test", "tested", "blocked", "woken",
          "terminate", "joined"}

Repaired(x) == x \in Repairs
H == WaitsOn[op]

-----------------------------------------------------------------------------
(* SetEvent and CloseHandle, called by the worker *)

\* CreateThread's handle lives on its stack, the others in the object.
Alive(h) == IF h = "created" THEN op = "CreateThread" ELSE object = "live"

\* A step on a handle that is gone is undefined: the worker goes on over memory that
\* is no longer its own, or is lost.
OrLost(h, next) == worker' \in {next} \cup (IF Alive(h) THEN {} ELSE {"lost"})

\* The owner is asleep on h.
Asleep(h) == step = "blocked" /\ H = h
Wake(h) ==
  /\ step' = IF Asleep(h) THEN "woken" ELSE step
  /\ ret' = IF Asleep(h) THEN "0" ELSE ret
  /\ UNCHANGED <<op, timed, late, returned>>

SetEventLock ==
  /\ ev = "lock"
  /\ LET h == Signals[worker] IN
       /\ mutex[h] \in {"free", "destroyed"}
       /\ mutex' = [mutex EXCEPT ![h] = IF @ = "free" THEN "worker" ELSE @]
       /\ Wake(h)
       /\ OrLost(h, worker)
  /\ ev' = IF worker' = "lost" THEN "none" ELSE "set"
  /\ UNCHANGED <<object, started, queueVars, signal, posts>>

SetEventSignal ==
  /\ ev = "set"
  /\ LET h == Signals[worker] IN
       /\ signal' = [signal EXCEPT ![h] = TRUE]
       /\ OrLost(h, worker)
  /\ ev' = IF worker' = "lost" THEN "none" ELSE "unlock"
  /\ UNCHANGED <<object, started, queueVars, mutex, ownerVars, posts>>

\* What the worker does after the SetEvent.
AfterSetEvent ==
  CASE worker = "ready" -> IF hasQueue THEN "init" ELSE "end"
    [] worker = "ack"   -> "dispatch"
    [] worker = "exit"  -> IF Repaired("HandOver") THEN "ended" ELSE "last"

SetEventUnlock ==
  /\ ev = "unlock"
  /\ LET h == Signals[worker] IN
       /\ mutex' = [mutex EXCEPT ![h] = IF @ = "worker" THEN "free" ELSE @]
       /\ OrLost(h, AfterSetEvent)
  /\ ev' = "none"
  /\ UNCHANGED <<object, started, queueVars, signal, ownerVars, posts>>

-----------------------------------------------------------------------------
(* The worker: _LnxThreadEntry, Run, LnxEndThread *)

\* From one phase to another, with a look at the object.
WorkerGoes(from, to) == worker = from /\ OrLost("exited", to)

\* msgget, with its retry when the key is taken.
GetQueue ==
  /\ WorkerGoes("entry", "ready")
  /\ ev' = "lock"
  /\ hasQueue' \in {TRUE} \cup (IF "msgget" \in MayFail THEN {FALSE} ELSE {})
  /\ UNCHANGED <<object, started, queue, handleVars, ownerVars, posts>>

InitInstance ==
  /\ \/ WorkerGoes("init", "recv")
     \/ "InitInstance" \in MayFail /\ WorkerGoes("init", "end")
  /\ UNCHANGED <<object, ev, started, queueVars, handleVars, ownerVars, posts>>

\* Run: a message that comes before START_THREAD is thrown away.
Run ==
  /\ worker = "recv" /\ queue # <<>>
  /\ queue' = Tail(queue)
  /\ \/ /\ Head(queue) = "STOP_THREAD"
        /\ OrLost("exited", "end")
        /\ UNCHANGED <<ev, started>>
     \/ /\ Head(queue) = "START_THREAD"
        /\ OrLost("exited", "ack")
        /\ ev' = IF worker' = "ack" THEN "lock" ELSE "none"
        /\ started' = TRUE
     \/ /\ Head(queue) = "other"
        /\ OrLost("exited", IF started THEN "dispatch" ELSE "recv")
        /\ UNCHANGED <<ev, started>>
  /\ UNCHANGED <<object, hasQueue, handleVars, ownerVars, posts>>

\* A handler may take any time, or not return at all.
HandlerReturns ==
  /\ WorkerGoes("dispatch", "recv")
  /\ UNCHANGED <<object, ev, started, queueVars, handleVars, ownerVars, posts>>

\* LnxEndThread removes the queue with what is in it ...
RemoveQueue ==
  /\ WorkerGoes("end", "close")
  /\ queue' = <<>> /\ hasQueue' = FALSE
  /\ UNCHANGED <<object, ev, started, handleVars, ownerVars, posts>>

\* It sets wait_handle1 next, and looks at doing_upgrade after that; repaired, before it.
ToTheEnd(from) ==
  LET to == IF Repaired("HandOver") /\ from = "close" THEN "last" ELSE "exit" IN
    /\ WorkerGoes(from, to)
    /\ ev' = IF worker' = "exit" THEN "lock" ELSE "none"

\* Mutant: it destroys wait_handle2 without a last signal.
CloseStartedSilently ==
  /\ ToTheEnd("close")
  /\ Repaired("TryLock") => mutex["started"] = "free"
  /\ mutex' = [mutex EXCEPT !["started"] = "destroyed"]
  /\ UNCHANGED <<object, started, queueVars, signal, ownerVars, posts>>

\* ... closes wait_handle2 ...
CloseStarted ==
  /\ ToTheEnd("close")
  /\ Repaired("TryLock") => mutex["started"] = "free"
  /\ signal' = [signal EXCEPT !["started"] = TRUE]
  /\ mutex' = [mutex EXCEPT !["started"] = "destroyed"]
  /\ Wake("started")
  /\ UNCHANGED <<object, started, queueVars, posts>>

\* ... and looks at doing_upgrade.
ReadDoingUpgrade ==
  /\ IF Repaired("HandOver") THEN ToTheEnd("last") ELSE WorkerGoes("last", "ended") /\ UNCHANGED ev
  /\ UNCHANGED <<object, started, queueVars, handleVars, ownerVars, posts>>

-----------------------------------------------------------------------------
(* The owner *)

Return(result) ==
  /\ op' = "none" /\ step' = "none" /\ timed' = FALSE /\ late' = FALSE /\ ret' = "0"
  /\ returned' = [returned EXCEPT ![op] = result]

BeginWait(o, t) ==
  /\ op' = o /\ timed' = t /\ late' = FALSE /\ ret' = "0"
  /\ step' = "look"

\* CreateThread.  A pthread_create that fails is left out.
CreateThread ==
  /\ op = "none" /\ object = "none"
  /\ object' = "live" /\ worker' = "entry"
  /\ BeginWait("CreateThread", FALSE)
  /\ UNCHANGED <<ev, started, queueVars, handleVars, returned, posts>>

CanPost == hasQueue /\ Len(queue) < QueueLen

\* StartThread.  No caller looks at what CreateThread returned but for 0.
StartThread ==
  /\ op = "none" /\ object = "live" /\ returned["StartThread"] = "none"
  /\ IF CanPost
     THEN /\ queue' = Append(queue, "START_THREAD")
          /\ BeginWait("StartThread", FALSE)
          /\ UNCHANGED returned
     ELSE /\ returned' = [returned EXCEPT !["StartThread"] = "not posted"]
          /\ UNCHANGED <<queue, op, step, timed, late, ret>>
  /\ UNCHANGED <<object, workerVars, hasQueue, handleVars, posts>>

\* SafeExitThread begins with StopThread.
SafeExitThread(t) ==
  /\ op = "none" /\ object = "live"
  /\ IF CanPost
     THEN /\ queue' = Append(queue, "STOP_THREAD")
          /\ BeginWait("SafeExitThread", t)
     ELSE /\ op' = "SafeExitThread" /\ step' = "terminate"
          /\ UNCHANGED <<queue, timed, late, ret>>
  /\ UNCHANGED <<object, workerVars, hasQueue, handleVars, returned, posts>>

\* Mutant: an object that could not be stopped in time is deleted all the same.
WaitReturnsAnyway(r) ==
  \/ /\ op \in {"CreateThread", "StartThread"}
     /\ Return(IF r = "0" THEN "ok" ELSE "failed")
     /\ UNCHANGED object
  \/ /\ op = "SafeExitThread"
     /\ object' = "deleted"
     /\ Return("ok")

\* What the operation does with the result of WaitForSingleObject: CreateThread and
\* StartThread return it, SafeExitThread deletes the object or goes on to
\* TerminateThread.
WaitReturns(r) ==
  \/ /\ op \in {"CreateThread", "StartThread"}
     /\ Return(IF r = "0" THEN "ok" ELSE "failed")
     /\ UNCHANGED object
  \/ /\ op = "SafeExitThread" /\ r = "0"
     /\ object' = "deleted"
     /\ Return("ok")
  \/ /\ op = "SafeExitThread" /\ r # "0"
     /\ step' = "terminate"
     /\ UNCHANGED <<object, op, timed, late, ret, returned>>

\* The look at signal without the mutex; repaired, it is left to the locked loop.
WaitLook ==
  /\ step = "look"
  /\ IF signal[H] /\ ~Repaired("HandOver")
     THEN signal' = [signal EXCEPT ![H] = FALSE] /\ WaitReturns("0")
     ELSE /\ step' = "trylock"
          /\ UNCHANGED <<object, signal, op, timed, late, ret, returned>>
  /\ UNCHANGED <<workerVars, queueVars, mutex, posts>>

\* Mutant: it does not wait for the mutex.
WaitLockTries ==
  /\ step = "trylock"
  /\ \/ /\ mutex[H] = "free"
        /\ mutex' = [mutex EXCEPT ![H] = "owner"]
        /\ step' = "test"
        /\ ret' = IF timed THEN "1" ELSE "0"
        /\ UNCHANGED <<object, op, timed, late, returned>>
     \/ /\ mutex[H] \in {"worker", "destroyed"}
        /\ WaitReturns("EBUSY")
        /\ UNCHANGED mutex
  /\ UNCHANGED <<workerVars, queueVars, signal, posts>>

WaitLock ==
  /\ step = "trylock"
  /\ \/ /\ mutex[H] = "free"
        /\ mutex' = [mutex EXCEPT ![H] = "owner"]
        /\ step' = "test"
        /\ ret' = IF timed THEN "1" ELSE "0"
        /\ UNCHANGED <<object, op, timed, late, returned>>
     \/ /\ mutex[H] \in {"destroyed"} \cup (IF Repaired("TryLock") THEN {} ELSE {"worker"})
        /\ WaitReturns("EBUSY or EINVAL")
        /\ UNCHANGED mutex
  /\ UNCHANGED <<workerVars, queueVars, signal, posts>>

\* Mutant: the timed loop ends only when the wait succeeds.
WaitsOnwardUntilSuccess == IF ~timed THEN ~signal[H] ELSE ~signal[H] /\ ret # "0"

\* The condition under which the loop goes on.
WaitsOnward ==
  IF ~timed THEN ~signal[H]
  ELSE IF Repaired("TimedWait") THEN ~signal[H] /\ ret # "ETIMEDOUT"
  ELSE ~signal[H] /\ ret # "0"

\* And what WaitForSingleObject returns after it.
WaitResult == IF Repaired("TimedWait") /\ signal[H] THEN "0" ELSE ret

WaitTest ==
  /\ step = "test"
  /\ \/ /\ WaitsOnward
        /\ step' = "tested"
        /\ UNCHANGED <<object, handleVars, op, timed, late, ret, returned>>
     \/ /\ ~WaitsOnward
        /\ signal' = [signal EXCEPT ![H] = FALSE]
        /\ mutex' = [mutex EXCEPT ![H] = IF @ = "owner" THEN "free" ELSE @]
        /\ WaitReturns(WaitResult)
  /\ UNCHANGED <<workerVars, queueVars, posts>>

\* pthread_cond_wait and pthread_cond_timedwait: release the mutex and sleep ...
WaitSleep ==
  /\ step = "tested"
  /\ mutex' = [mutex EXCEPT ![H] = IF @ = "owner" THEN "free" ELSE @]
  /\ step' = "blocked"
  /\ UNCHANGED <<object, workerVars, queueVars, signal, op, timed, late, ret, returned,
                 posts>>

\* ... wake up when the time is over, or for no reason ...
WakeUp ==
  /\ step = "blocked"
  /\ step' = "woken"
  /\ ret' = IF late THEN "ETIMEDOUT" ELSE "0"
  /\ UNCHANGED <<object, workerVars, queueVars, handleVars, op, timed, late, returned,
                 posts>>

\* ... and lock the mutex again, which fails if it has been destroyed.
WaitRelock ==
  /\ step = "woken"
  /\ mutex[H] \in {"free", "destroyed"}
  /\ mutex' = [mutex EXCEPT ![H] = IF @ = "free" THEN "owner" ELSE @]
  /\ step' = "test"
  /\ UNCHANGED <<object, workerVars, queueVars, signal, op, timed, late, ret, returned,
                 posts>>

Timeout ==
  /\ timed /\ ~late
  /\ late' = TRUE
  /\ UNCHANGED <<object, workerVars, queueVars, handleVars, op, step, timed, ret,
                 returned, posts>>

\* TerminateThread cancels the worker wherever it is (its cancellation is
\* asynchronous), joins it and removes the queue.
TerminateThread ==
  /\ step = "terminate"
  /\ worker' = "ended" /\ ev' = "none"
  /\ queue' = <<>> /\ hasQueue' = FALSE
  /\ step' = "joined"
  /\ UNCHANGED <<object, started, handleVars, op, timed, late, ret, returned, posts>>

\* Then SafeExitThread deletes the object.
DeleteJoined ==
  /\ step = "joined"
  /\ object' = "deleted"
  /\ Return("terminated")
  /\ UNCHANGED <<workerVars, queueVars, handleVars, posts>>

\* Mutant: the queue takes any number of messages.
PostPastTheLimit ==
  /\ posts > 0
  /\ posts' = posts - 1
  /\ queue' = IF hasQueue THEN Append(queue, "other") ELSE queue
  /\ UNCHANGED <<object, workerVars, hasQueue, handleVars, ownerVars>>

\* Another thread posts a message.
PostThreadMessage ==
  /\ posts > 0
  /\ posts' = posts - 1
  /\ queue' = IF CanPost THEN Append(queue, "other") ELSE queue
  /\ UNCHANGED <<object, workerVars, hasQueue, handleVars, ownerVars>>

-----------------------------------------------------------------------------
Init ==
  /\ object = "none"
  /\ worker = "none" /\ ev = "none" /\ started = FALSE
  /\ queue = <<>> /\ hasQueue = FALSE
  /\ signal = [h \in Handles |-> FALSE]
  /\ mutex = [h \in Handles |-> "free"]
  /\ op = "none" /\ step = "none" /\ timed = FALSE /\ late = FALSE /\ ret = "0"
  /\ returned = [o \in Ops |-> "none"]
  /\ posts = MaxPosts

SetEvent == SetEventLock \/ SetEventSignal \/ SetEventUnlock

Worker == GetQueue \/ SetEvent \/ InitInstance \/ Run \/ RemoveQueue \/ CloseStarted
          \/ ReadDoingUpgrade

Wait == WaitLook \/ WaitLock \/ WaitTest \/ WaitSleep \/ WaitRelock

Owner == CreateThread \/ StartThread \/ (\E t \in Timed : SafeExitThread(t)) \/ Wait
         \/ WakeUp \/ TerminateThread \/ DeleteJoined

Next == Worker \/ HandlerReturns \/ Owner \/ Timeout \/ PostThreadMessage

\* The scheduler runs both threads and the clock, and a mutex that is released again
\* and again is got in the end.  A handler need not return, and the owner need not call.
Fairness ==
  /\ WF_vars(Worker) /\ SF_vars(SetEventLock \/ CloseStarted)
  /\ WF_vars(Wait) /\ WF_vars(WakeUp /\ late) /\ WF_vars(TerminateThread \/ DeleteJoined)
  /\ WF_vars(Timeout)

Spec == Init /\ [][Next]_vars /\ Fairness

-----------------------------------------------------------------------------
(* Properties *)

TypeOK ==
  /\ object \in {"none", "live", "deleted"}
  /\ worker \in Phases /\ ev \in {"none", "lock", "set", "unlock"}
  /\ started \in BOOLEAN
  /\ queue \in Seq(Messages) /\ Len(queue) <= QueueLen /\ hasQueue \in BOOLEAN
  /\ signal \in [Handles -> BOOLEAN]
  /\ mutex \in [Handles -> {"free", "owner", "worker", "destroyed"}]
  /\ op \in Ops \cup {"none"} /\ step \in Steps
  /\ timed \in BOOLEAN /\ late \in BOOLEAN
  /\ ret \in {"0", "1", "ETIMEDOUT"}
  /\ returned \in [Ops -> {"none", "ok", "failed", "not posted", "terminated"}]
  /\ posts \in 0..MaxPosts

\* StartThread fails only when there is no thread to read START_THREAD.
StartFailsWithoutThread == returned["StartThread"] = "failed" => ~hasQueue

\* CreateThread and StartThread return: no signal of the worker is lost, its end before
\* it has read START_THREAD included.
StartReturns == op \in {"CreateThread", "StartThread"} ~> op = "none"

\* SafeExitThread with a time-out returns even if the thread is in a handler that does
\* not.
TimedExitReturns == op = "SafeExitThread" /\ timed ~> op = "none"

\* The object and its thread as ThreadLife has them.
Life == INSTANCE ThreadLife WITH
          thread <- IF worker \in {"none", "ended"} THEN worker ELSE "running"

\* No step of the thread on the object or its handles comes after the object is deleted,
\* and it is deleted once.
ImplementsThreadLife == Life!Spec

=============================================================================
