# Verification of TuanZi

TuanZi is a re-implementation of the Ruijie 802.1X supplicant for Linux. It
authenticates a computer to a switch over EAPOL, keeps the session alive with
hello packets, talks to the accounting server (SAM) or the endpoint server (SMP)
behind the switch, and logs off. This directory holds TLA+ models of it, the TLC
configurations that check them and the proofs that TLAPS checks. The models are
translations of `src/tuanzi/src` and `src/tuanzi/include`; everything else in the
repository is vendored.

## The system

The program is a set of threads. Each is a `CLnxThread`: a pthread with a System V
message queue of its own, a virtual `DispathMessage` that handles one message at a
time, POSIX timers whose expiries arrive in threads of their own (`SIGEV_THREAD`)
and are posted to the queue, and three `WAIT_HANDLE`s (a mutex, a condition
variable and a flag) for its start and end. They share state by pointers through
the global `CtrlThread`.

| component | state | operations | hard behaviour |
|---|---|---|---|
| state machine (`statemachinethread`, `states`, `statedata`) | `CStateData`, `state_visual`, three timers | START, packets, timers, hello, logoff; seven states with Initlize and MoveState, called recursively | timers racing packets, the control thread writing its state, old messages after a new start |
| threads and handles (`lnxthread`, `threadutil`) | queue, timers, `wait_handle1/2`, `start_process` | CreateThread, StartThread, SafeExitThread, Run, LnxEndThread, SetTimer, KillTimer | hand-over of handles and objects, full queues, time-outs, cancellation |
| authentication control (`contextcontrolthread`) | the session: adapter, NAS, EAP type, flags of the attempt, DHCP step, timers | connect, logoff, packets, reports of the machine, adapter and proxy results, server orders | reports that arrive after the state they report; order of logoff, flush and close |
| reception, transmission (`rxpacketthread`, `sendpacketthread`) | pcap handles, `stopped` | start, stop, capture, send | stop before start, stop before flush |
| SAM/SMP transport (`directtransrv`, `dirtranthread`, `udplistenthread`) | slices, sessions, timers, keys | send, slice, acknowledge, repeat, give up | lost and repeated datagrams, two senders |
| hello (`hellothread`, `helloprocessor`) | id, interval | start, change, stop | two hello threads |
| detection (`adapterdetectthread`, `proxydetectthread`, `checkrunthread`) | timers, last status | poll, start, stop | results of a stopped detection |
| DHCP (`netutil` and handlers of the control thread) | step, `bootp_timerid` | ask, time out, authenticate again | late answers |
| frames (`eapolutil`, `rgprivateproc`) | none | parse, build | lengths |
| configuration (`suconfigfile`, `userconfig`) | the file's lock | open, read, write, close | two holders |
| client centre, upgrade | peer socket, download | connect, download, retry | retries, restart |

Correctness, component by component: the state machine must own its timers, be
timed whenever it waits, answer each request, end every attempt, and never report a
success that is not one; a thread object must outlive its thread and its owner must
not wait for ever; the control thread must send the logoff before it closes the
adapter and must not act on an answer of an earlier attempt; the transport must
deliver a message once or report its loss; a detection that was stopped must report
nothing. `PROJECT.json` lists the hazards of the code line by line.

## Modules

| module | models |
|---|---|
| `StateMachine` | the state machine's thread: its queue, `CStateData`, every handler, the seven states, the three timers with their `TIMERPARAM` mutexes, and what the control thread does to it |
| `StateMachineProofs` | type invariant and ownership of timers, proved |
| `StateMachineSafety` | six further safety properties, proved |
| `ThreadLife` | the abstract life of a thread object: created once, deleted once, after its thread has ended |
| `LnxThread` | `CLnxThread` between its owner and its worker, down to the pthread operations of the wait handles; shown to implement `ThreadLife` |
| `LnxThreadProofs` | its type invariant, the answer of `StartThread` and the refinement of `ThreadLife`, proved |
| `ContextControl` | the control thread's session: every handler that starts, renews or ends one, its timers, the DHCP steps and the quit, over an abstract machine, sender and environment |
| `ContextControlProofs` | the invariant of the control thread's world, and that every function of the class keeps it |
| `ContextControlSafety` | that every step of the system keeps it; its types, six safety invariants and an action property, proved |
| `RxPacketThread` | the capturing thread between its loop and the control thread, which starts, stops, cancels and deletes it |
| `RxPacketThreadProofs` | its type invariant and two safety properties, proved |
| `DirDelivery` | what posting a message to SAM or SMP promises: it arrives at most once, and counts as sent only if it did |
| `DirSlices` | one message on its way: slices, tries, acknowledgements, the listener, the sessions of the receiver, over a network with faults; shown to implement `DirDelivery` |
| `DirSlicesProofs` | its type invariant, two safety properties and the refinement of `DirDelivery`, proved |
| `DirTran` | the session with SAM and SMP: start, end, timers and handshakes of the service thread, the queue of units, their results, events and bindings in the sending thread |
| `DirTranProofs` | its type invariant, two safety invariants and an action property, proved |
| `MC<module>` | the instances of a module for TLC |

The modules are composed by their interfaces rather than in one state space.
`StateMachine` has the control thread's writes into the machine, `ContextControl` the
machine's reports; `RxPacketThread` and `DirTran` have the control thread's calls of them
and take a thread's own queue and start from `LnxThread`; `DirTran` takes the sending of a
unit (`DoSendPacket`) as one step that ends, which is what `DirSlices` shows of it.

### StateMachine

One message is handled at a time, but a handler is not one step: `OnStateMove` calls
`Initlize`, posts a report and calls `MoveState`, which may call `OnStateMove` again.
The model unfolds this recursion by a program counter
(`idle -> move -> init -> visual -> ... -> unwind -> idle`), so that timer threads and
the control thread come between its steps. `call.tail` stands for the frames of
`OnStateMove` still on the stack: their last statement (`reconnect_fail` makes the
state LOGOFF) is `Unwind`.

`d` is `CStateData`, field by field under its names; `visual` is `state_visual`;
`ctl` holds the fields of `CContextControlThread` that both threads touch. `handle`
is the set of timer handles that are not zero, `armed` counts the kernel's timers
per flag, and `gate` is the outcome of `OnTimerEnter`: `open` when one of the
`TIMERPARAM` mutexes of the flag is unlocked, `busy` when all are locked. A killed
timer's `TIMERPARAM` stays in the code's list, which is why killing does not close a
gate and why the mutexes of dead timers count. `inbox` is the message queue (IPC_NOWAIT:
full means lost).

Abstracted: the contents of frames, `recv_id`, texts and logs. `sutype`'s message to
the GUI in `CStateHold::MoveState` is left out. A packet is one of the kinds that
`parseFrame` tells apart; the test of `ether_type` at its beginning never holds, since
`ChangeToEAPOLFrame` has already swapped the field on the little-endian machines the
program is built for.

### LnxThread

`CreateThread`, `StartThread` and `SafeExitThread` of the owner, `_LnxThreadEntry`,
`Run` and `LnxEndThread` of the worker. `WaitForSingleObject` is six steps of the owner
(`look`, `trylock`, `test`, `tested`, `blocked`, `woken`), `SetEvent` three of the worker.
A step on a handle or an object that is gone is undefined behaviour: the worker either
goes on or is `lost`. `posts` are the messages of other threads that fill the queue.

### ContextControl

The control thread handles one message at a time and its handlers do not post to
themselves what they then wait for, so a handler is one action, with one exception:
`DeAuthenticate_ExitAll` waits for the machine to end. It stops the handler in
`pc = "joining"`, and `MachineJoined` is the rest of it. The functions of the class are
operators from one world to the next, named as in the code (`StopAuthentication`,
`StartStateMachine`, `DoBOOTP`, ...). A world is a record of what the thread may write:
its own fields `c`, the queue without the message in hand, the machine, the sender, the
adapter and the quit command. A world whose thread hangs in a mutex or a semaphore, has
crashed or waits is passed on unchanged by the operators that follow.

`c` is `CContextControlThread` under its field names; `handle`, `armed` and `gate` are the
timers as in `StateMachine`; `drained` says that `bootp_semaphore` has been waited for;
`running` are the helpers (`direct` transport, `hello`, `proxy` detection, and the
adapter detection's two timers `ip` and `nic`), which decide what the environment may post.
`OnStopDetect` is modelled as the code is, so the detection of the adapter's state
survives a logoff. `attempt` counts the STARTs posted, messages carry the attempt in
which they were made, and `heard` is the attempt of the last Success: the code has none
of these, they are there for the properties to name and for the repaired versions to
test.

The machine is abstract: its thread takes START, LOGOFF and STOP in order; an attempt goes
from `connecting` through `asked` to `online`, or to `held`, `failing`, `logoff`. What it
writes into the control thread (`reconnect_fail`, `connect_fail`, `logoff_message`,
`is_ruijie_nas`) and what it posts are those of the handlers of module `StateMachine`.
That `StateMachine` refines this abstraction is not proved; the map names for each of its
actions the handler it stands for.

Left out: wireless and PEAP, the upgrade, single sign-on, `OnSimulateLogoff`,
DO_FORCE_OFFLINE (the transport's SMP order), hello and event messages passed to the
machine, and reports that only change the GUI. PATCH_LOGOFF is never posted by the program.
That the main thread cancels the control thread ten seconds into `SafeExitThread(10000)` is
left out; `LnxThread` has that hand-over.

### RxPacketThread

The capturing thread runs one handler, `StartRecvPacket`, which opens the adapter, loops
while `stopped` is FALSE, reopens the adapter when it failed, and at its end closes the
handle and sets `recv_packet_waithandle`. `rx` is its place in that handler; each step
touches `stopped`, `pcap_handle` or the signal once, so that the control thread comes
between. `CloseAdapter` is two steps (`pcap_close`, then null), because `TerminateThread`
may cancel the thread between them. The control thread is translated from its calls:
`Authenticate_InitAll`, `SetSenderAdapter`, `DeAuthenticate_ExitAll`, `ExitExtance_ExitAll`
and the destructor. `pcap_dispatch` is taken from how the loop uses it: it returns with a
packet, without one or with an error, or never.

### DirSlices

`DoSendPacket` cuts a message into slices and sends each up to `retry_count` times, under the same
id, until its event is set; the listener (`HandlePrivateData`, `ResponseSender`) finds the try
that waits and sets its event, in two steps; `RevcDirectPack` puts a message together and
acknowledges; `TIMER_CLEAR_DIR_SENDER` forgets what was delivered. The queues `requests` and
`responses` are the network: a packet is lost, comes a second time after the others, or takes
longer than the time-out. A message may also fail before its first slice, for want of the peer's
parameters or of the gateway's address (`NotReady`), or in its wait, which fails while the
listener holds the event's mutex (`WaitFails`, `ForcedStop`). The guard of `ClearSessions` is not
a test of the code but what its `timeout * retry_count` is taken to ensure: counted from the
delivery, by then the tries are over and none of their packets under way. SAM and SMP are not in
the repository: what the program does with their messages is taken for what they do with its. A
slice is its number. Messages that need no reply are sent once and not modelled.

### DirTran

The control thread starts (`Init_Sam`, `Init_Smp`) and ends (`DeInit_Sam`, `DeInit_Smp`)
a session and sends for itself; the service thread (`CDirectTranSrv`) handles ON_INIT,
ON_DEINIT, its three timers and SMP's data; the sending thread (`CDirTranThread`) takes
units from `data_send` in `OnTransPacket`. A caller of `sendMessageWithTimeout` binds a
sender (`GSNSender`), queues a unit and waits; `call` holds how far each caller is, `unit`
each unit's result and event, of which one side is done and the other deletes. `ctl = init`,
`sam` and `smp` are the waits of the control thread on a handle on its own stack;
`waitHandle` is its signal, and messages say whether they refer to it (`own`), no longer
(`stale`) or to none. After a DeInit that timed out the control thread runs the handler
itself (`DeInitReturns`).

Ids and units are used again once nothing refers to them, which keeps the model finite;
the code counts the ids up. `transPosted` is one flag for any number of
ON_TRANSPACKET_MTYPE messages: the second finds what the first has left. A step that walks,
extends or empties `ret_para` is one step, and the data race is its outcome: as the code is, it may
use a result twice whenever another thread's next step is in `ret_para`, too (`MisusedInRetPara`).
`locked` is the mutex of the service's timers that `KillTimer` keeps: who kills next is `hung`, in
`OnDeInit` with `destroy_mutex` held (`destroyHeld`), which stops the other thread there. `OnTimer`,
where a handler calls it, only posts (`ReadsAndPosts`). A wait has the results 0, ETIMEDOUT and, while
another thread is in SetEvent, EBUSY (`WaitResults`). The check of the
binding in `GetProtocalParamFromSenderHand` and the queueing are one step; that the
binding is closed before or after is the other's step. A call begins only while a unit is
left for it (`MaxUnits`).

Left out: `PostToSam` and `PostToSmp` and their handlers, which send for nobody who waits;
`DoWithAuthResult` and `ParseDHCPAuthResult`; the protocol's parameters, timestamps and
keys; the contents of messages.

### Defects and repairs

Several defects of the commit stop the program before the rest of its logic runs. Each
is a named member of `Defects`, and the constant `Repairs` says which of them an instance
takes to be repaired: with `Repairs = {}` a module is the code as it is. What a
repaired definition does is what the surrounding code intends; the difference is always
a conjunct `Repaired("...")` in the definition that has the defect.

| module | name | defect |
|---|---|---|
| StateMachine | StartWait | `CStateConnecting::MoveState` fails the attempt while its timer runs (states.cpp:76) |
| | KillUnlock | `KillTimer` returns with the mutex locked (lnxthread.cpp:350-379) |
| | Md5Length | `txRspAuth` measures a null pointer (statemachinethread.cpp:597) |
| | ReportState | `OnStateMove` reports its argument (statemachinethread.cpp:313) |
| | LateFailure | `OnRecvFailure` clears `has_auth_success` when the control thread comes to it, also that of a later Success (contextcontrolthread.cpp:1814) |
| LnxThread | TimedWait | the timed loop runs on after ETIMEDOUT (threadutil.cpp:38) |
| | HandOver | handles and objects are given up before their last use (threadutil.cpp:19, lnxthread.cpp:430) |
| | TryLock | a mutex that is held makes wait and close fail (threadutil.cpp:24, 211) |
| ContextControl | KillUnlock, StartWait, ReportState | the consequences here of the three defects above |
| | BootpTimer | `DoBOOTP` takes the timer it set for an error (contextcontrolthread.cpp:570) |
| | BootpTwice | a second Success overwrites the id of the running timer (570) |
| | FailText | a failed attempt passes as a success when the failure had a text (2042) |
| | NullText | FORCE_OFFLINE with a null text is read (states.cpp:267, contextcontrolthread.cpp:1329) |
| | NullMachine | a START is posted to a machine that is gone (3240) |
| | StaleReport | reports of an earlier attempt, or after the logoff, are believed (2040, 1498) |
| | StaleTick | ticks of killed timers are believed, and an attempt leaves its predecessor's timers running (2267) |
| | Backoff | the re-authentication timer is overwritten or left running (2137) |
| | EarlyReturn | a logoff that left the machine alone hides the quit from it (3261) |
| RxPacketThread | StopLost | `StartRecvPacket` clears `stopped` after the start was acknowledged (rxpacketthread.cpp:138) |
| | FilterExit | a filter that fails ends the thread with its handle closed and kept (101) |
| | Cancel | the thread is cancelled between `pcap_close` and the assignment of null (48) |
| | TimedWait | as in `LnxThread` |
| DirSlices | Length, ResSender, Stamp, Copy | a packet has two wrong lengths; the address to answer is never set (udplistenthread.cpp:500); half a timestamp is swapped; the receiver works on a copy of its session |
| | Authenticator | `CreateDirPktHead` and `SendResponse` write the MD5 sum into a copy of the head that is not sent (dirtransutil.cpp:36, udplistenthread.cpp:1022); both receivers compare it (632, 771) |
| | RecvPort | the receiver compares its source port with the packet's destination port (udplistenthread.cpp:790) |
| | ResponseCode | the response sent has no `response_code` (udplistenthread.cpp:1008), which the sender compares (559) |
| | Redeliver | a repeated single slice is delivered again (udplistenthread.cpp:811) |
| | RepeatedEnd | a repeated last slice is refused and not acknowledged (844) |
| | Event | the listener sets the event of a try that may be over (261) |
| | TimedWait, TryLock | as in `LnxThread`; the wait that fails ends the message at once (dirtranthread.cpp:412) |
| DirTran | Binding, Found, Back | a unit is sent with no binding, the previous unit's or another thread's (dirtranthread.cpp:591, 490) |
| | RetPara, AfterEvent | results are deleted while their units are queued; results are used after their event is set (75) |
| | ReceiverId | a receiver is closed for having the sender's id (642) |
| | Init_Smp | `Init_Smp` posts ON_INIT_SAM (directtransrv.cpp:708) |
| | AskTimer, HelloTimer, LateData | a timer outlives its session, is overwritten, or is set after the end (1694) |
| | DeInitHandle | a message refers to a handle on a stack that is gone (306) |
| | ParaLock | `ret_para` is extended, walked and emptied by three threads without a lock (dirtranthread.cpp:75, 1110) |
| | TimedWait, TryLock | as in `LnxThread`; a wait that fails counts as the event (dirtranthread.cpp:1109) |
| | KillUnlock | `KillTimer` returns with the mutex locked (lnxthread.cpp:350): the second kill hangs, in `OnDeInit_SMP` (directtransrv.cpp:760) with `destroy_mutex` held |

A defect with a property of its own: for `ContextControl` each repair is needed. Left out one at a
time, KillUnlock, BootpTimer or StartWait breaks the liveness of `ContextControl_othernas`;
FailText breaks `SessionIsCurrent`; NullText, NullMachine or EarlyReturn break
`MachineOutlivesSession`; StaleReport `LogoffIsQuiet`; StaleTick `SessionEndsForCause`; Backoff or
BootpTwice `TimersOwned`. Without ReportState no success is ever reported, so that nothing else
can go wrong. In the same way each of the fifteen repairs of `DirTran`, the four of
`RxPacketThread` and the twelve of `DirSlices` is needed for a property of its run; Length,
Authenticator, RecvPort, ResponseCode, ResSender and Stamp each stop every message without any
fault, Copy every one of several slices. ParaLock or TryLock left out of `DirTran` breaks
`NothingFreedIsUsed`, KillUnlock only `ControlReturns`; TryLock left out of `DirSlices` breaks
only `RetriesSuffice`; LateFailure left out of `StateMachine` breaks `WaitIsTimed` and `Settles`.
With TryLock as it is `DirSlices` keeps all the rest, which the run `DirSlices_lossy` shows; with
KillUnlock as it is threads of `DirTran` hang, and the theorems below on what is freed, what is
queued and whose session it is still hold.

Noted while reading, and not in a model: `CDirTranThread` loses the result at
dirtranthread.cpp:1117; udplistenthread.cpp:782 returns with `recv_mutex` locked; the test at
contextcontrolthread.cpp:2864 is inverted.

## Runs

| run | instance | shows |
|---|---|---|
| `StateMachine_dialogue` | repaired; START, identity, MD5, Success, Failure from a Ruijie NAS | waits are timed, timers not locked out, a failed attempt ends in LOGOFF and a logoff is final |
| `StateMachine_settles` | repaired, fair; everything offered, by a Ruijie NAS or another vendor's (`txSetLogOff_CompThird` included) | timers are owned, requests answered and only true successes reported; every attempt ends, unless the client counts as authenticated and its server fell silent |
| `StateMachine_givesup` | as it is | finding: the attempt fails at once |
| `LnxThread_life` | repaired, fair; both kinds of exit, every failure | implements `ThreadLife`; StartThread fails only without a thread; every operation returns |
| `LnxThread_noexit` | as it is, time-out | finding: the timed exit does not return |
| `RxPacketThread_life` | repaired, fair; every failure | no stop is lost, no handle closed twice, the control thread returns though `pcap_dispatch` blocks |
| `ContextControl_session` | repaired; Ruijie switch, DHCP; two adapter or server messages and a quit, two attempts | sessions belong to the last attempt, have a machine, and end with the logoff sent and nothing running; timers are owned |
| `ContextControl_othernas` | repaired, fair; another vendor's switch, DHCP | no late tick ends a session; a quit ends the thread; the wait for an address ends |
| `ContextControl_falsesuccess` | as it is, no DHCP | finding: an attempt given up is taken for a success |
| `DirSlices_retries` | repaired; three messages of 3, 1 and 2 slices, four faults | fewer faults than tries lose nothing |
| `DirSlices_lossy` | TryLock as it is, all else repaired, fair; the same messages and faults | implements `DirDelivery`, a message whose wait fails included; what arrives is whole; no event is set that is gone; every sending ends |
| `DirTran_session` | repaired, fair; sessions with SAM, SMP or both, one after the other | nothing freed is used, units go to their server and are answered, a session's end leaves nothing, the control thread returns |

Bounds. In `StateMachine` `QueueLen` is 1 or 2, so that the queue is full within a step or two of
any state, which is the only thing its length decides. `MaxInputs` bounds the messages of the
control thread (5 in the dialogue, 4 where everything is offered, 3 in the finding); five are a
complete dialogue (start, identity, challenge, success) and a further request or failure, hence
enough for every pair of consecutive states and for a second attempt. `StartNumber` is 2, the
least number with a first and a repeated EAPOL-Start; the code's default is 3. The time-outs have
their default values, but a timer may go off at any time, so that only zero and not zero differ.
One timer thread is under way at a time; two of one flag meet the same `gate`, and two of
different flags touch different ones. In `LnxThread` two other messages fill a queue of two before
or after START_THREAD. In `ContextControl` the environment posts at most `MaxEvents` messages
(two: one that ends or starts an attempt and one that crosses it, or DOWN and the UP that
follows), and only while fewer than `QueueLen` (1) wait: such a message is in the way of the
control thread's own; what the control thread posts to itself and ticks are never held back.
`MaxStarts` is the number of attempts after which a *periodic* timer no longer ticks; other
attempts are bounded by `MaxEvents`. `OfferLimit` is 0 or 1 for the 20 of `IsIPOffered`: a tick
under the limit, one at it and one past it. A Ruijie session with DHCP meets both ends of a
success (the first step asks for an address, the second opens the session), which is why the
session run needs no second value of `Dhcp`. `RxPacketThread` needs no bounds. `DirSlices` has
`RetryCount` 3, the least with a first, a middle and a last try, and `MaxFaults` 4: enough to give
a message up, and one fault more. The messages have the numbers of slices 3, 1 and 2, so that
every type of slice occurs and a message follows one that was given up. In `DirTran` there are
`MaxUnits` 2, one for each thread or two of one that gave up on the first, and `MaxQueue` 1 unread
message from timers and SMP; sessions follow each other without a bound. `CHECK_DEADLOCK` is
FALSE, except for `DirTran_session`, because the inputs are bounded and a thread that has ended
does nothing more.

Fairness. `WF` of the machine's steps and of the kernel's timers in `StateMachine`:
threads are scheduled and an armed periodic timer expires; no input is fair. In
`LnxThread` both threads and the clock are weakly fair and taking a mutex is strongly
fair; `HandlerReturns` is not fair at all, since a handler may block. The owner's calls
are not fair. In `ContextControl` the control thread, the orders the machine takes, the sender,
do_quit and the ticks of armed timers are weakly fair; the switch, the server, dhclient and
the ends of the machine's waits are not. `FairControl` is weak fairness with the
thread's enabledness written out (a message and an idle thread, or a machine that has
ended and is waited for).

In `RxPacketThread` both threads and the clock are weakly fair, and `pcap_dispatch` is not: it may
block for ever. Starts, stops and quits are not fair, what follows a stop or quit is. In
`DirSlices` the sender and the listener are weakly fair, a wait's time-out included; faults are
not, and so what is under way arrives unless it is lost. In `DirTran` each of the three threads is
weakly fair, with its waits' time-outs; timers, SMP's data and the control thread's calls are not.

## Proofs

All for every value of the constants, by inductive invariants. `Repairs` is a constant, too: a
theorem holds of the code as it is unless the text names the repairs it needs.

For `StateMachine`, whatever is repaired except where it says so:

- `TypeCorrect` (`Spec => []TypeOK`) and `TimersAreOwned` (`Spec => []TimersOwned`). The
  latter is inductive with the type invariant, because every `Initlize` is an instance of
  `Retime` with a set of killed flags that contains the flag it sets, or does not touch
  timers; when `KillTimer` hangs half-way, `RetimeUntilBlocked` has kept the count.
- `GateNeverWedged`: strengthened by `GateInv`, which also follows a busy gate through
  the call in progress: while a handler runs, `call.from` is its flag and only `Unwind`
  returns to `idle`; a re-armed timer opens the gate again.
- `FailureEndsInLogoff`: `FailureInv` says where a set `reconnect_fail` may be found: in a
  handler whose `OnStateMove` still has its last statement to run (`call.tail`), or in
  LOGOFF.
- `LogoffStaysFinal`: `LogoffInv` ties `d.logoff` and the state to the value `OnStateMove`
  chose, so that a pending `Initlize` cannot lead out of LOGOFF; a START sets
  `disconnected` first.
- `AllRequestsAnswered` (`RequestsAnswered`) and `EveryWaitIsTimed` (`WaitIsTimed`): what a handler
  leaves behind is what the `MoveState` that returned last has seen, so the invariants say whose
  that was. `Shown`: the state object is the state's own, or `CStateAcquired`, which for another
  vendor's NAS answers without leaving the state. `Origins` and `Refused` exclude that in
  CONNECTING, which is never entered from AUTHENTICATED, and in HOLD, where who came from
  AUTHENTICATED is to log off before the next message (`LogoffInv`). `Clocked` follows the timers
  through the handler. For the states without a clock `Trusted` says that the client counts as
  authenticated, and `EveryWaitIsTimed` that nothing takes that back while it waits, for which it
  assumes LateFailure repaired or no EAP failure offered.
- `ReportsAreTrue` (`ReportsTrueSuccess`), also with LateFailure repaired or no EAP failure offered:
  by `TruthInv` a Success that is still to be acted on is one the control thread knows of, and the
  handler that found it acts on it before the next message, which may be a failure; or a START or
  the final failure came after it and is acted on first (`Blocked`).

For `LnxThread`, whatever fails:

- `TypeCorrect` (`Spec => []TypeOK`), whatever is repaired: `Begins` adds what a thread that is not
  created yet, or has only entered its routine, finds.
- `StartNeedsAThread` (`Spec => []StartFailsWithoutThread`), with `TryLock` repaired: `StartInv`
  says that the queue is gone before the handle `StartThread` waits for is destroyed.
- `Refinement` (`Spec => ImplementsThreadLife`), with `HandOver` and `TimedWait` repaired:
  `LifeInv` says who holds the mutex of the exit handle, the owner while it looks at the signal
  and the worker while it gives it, and that an owner that has joined the thread or deletes the
  object does so after the worker's last step.

For `ContextControl`, whatever the switch, the server, the user and the adapter do:

- A handler is a chain of functions that each take the world of the control thread to another,
  and so is its proof. `Good(w)` is an invariant of a world, not of a state; for every
  operator a lemma says what it may do to a world (`Trims`, `Arms`, `Ends`, `Starts`, `Opens`...),
  and another that it keeps `Good`. `Good` has the types, that the pointer to the machine is
  there while the machine is and that nobody but who waits for it tells it to end (`Machined`),
  that the adapter stays open while it runs (`Closing`), and four parts that need repairs:
  `Owned`, `Quiet`, `Session` and `Lives`. The code as it is keeps the rest.
- `Invariance` adds the order of the messages: the order to begin is the first there is
  (`Unbegun`), and while there is a machine or that order waits, the order to end is behind the
  notice of the quit (`StopOrder`, which needs `EarlyReturn`: after that notice the machine is
  gone).
- From it, whatever is repaired: `TypeCorrect`, `SecondStepCorrect` (`SecondStepHasAddress`) and
  `LogoffIsSent` (`LogoffPrecedesClose`).
- `TimersAreOwned` (`TimersOwned`) needs `Backoff` and `BootpTwice`; `QuietAfterLogoff`
  (`LogoffIsQuiet`) `StaleReport`; `SessionOfLastAttempt` (`SessionIsCurrent`) `StaleReport`,
  `StaleTick` and `FailText`: the machine's attempts are ordered in its inbox, and a report of
  success that is believed is true (`Truthful`); `MachineOutlives` (`MachineOutlivesSession`)
  `StaleReport`, `NullMachine`, `NullText` and `EarlyReturn`; `SessionsEndForCause`
  (`SessionEndsForCause`) `StaleTick`.

For `RxPacketThread`, for every set of failures:

- `TypeCorrect` (`Spec => []TypeOK`), for every set of repairs: `HandlePlaced` adds where the
  handle is `closed` and that the thread has ended when its object is deleted.
- `HandlesAreClosedOnce`, with `FilterExit` and `Cancel` repaired: `ClosedInv` adds that a thread that
  has ended, wherever it was cancelled, leaves no closed handle to the destructor.
- `StopsTakeEffect`, with `StopLost` and `TimedWait` repaired: `StartTaken` (there is one start),
  `WhileOn` (until the stop `stopped` is TRUE only if the adapter could not be opened) and
  `LoopLeft` (the end is signalled only after the loop).

For `DirSlices`, for any number and length of messages, any `RetryCount` and any number of faults:

- `TypeCorrect` (`Spec => []TypeOK`), whatever is repaired: `Sending` adds that a try in progress is
  one of a slice of a message and not one too many; `PacketsTyped` types the queues and sessions.
- `MessagesAreWhole`, `EventsStayAlive` and `Refinement` (`Spec => ImplementsDelivery`), with
  `Copy`, `Redeliver`, `Event` and `TimedWait` repaired: the receiver remembers what it has of a
  session and that it was delivered, the listener's response is for the try it matched, and a try
  that elapsed is not taken for an acknowledged one. The defects that only stop messages need no
  repair here. They rest on one invariant, `Inv`, proved in `Invariance`. It says that there are
  numbers `base[m]` such that `base[m] + k` is the id of the k-th slice of message m in every
  packet under way (`SenderInv`); that a session holds the first slices of its message, or is done
  and its message has arrived (`SessionsInv`); that an acknowledgement of a last slice, on its
  way, matched or handed over, is one of a message that has arrived (`AcksInv`, `ResultInv`); and
  that a message that has arrived is remembered, or nothing of it is under way any more
  (`OnceInv`), so that it cannot arrive again. A delivery is then an `Arrive` of `DirDelivery`,
  the end of a message a `Succeed` or a `Fail`, and every other step a stutter.
- `RetriesAreEnough` (`Spec => []RetriesSuffice`), with every defect repaired, TryLock among them,
  so that no wait fails: `RetriesInv` adds, for a network that repeats nothing and a sender that
  is ready, that the packets of the message being sent are queued in the order of their ids and
  that the receiver is neither ahead of the slice being sent nor more than that slice behind it
  (`InStep`); so a try of which nothing is lost or late is acknowledged, and those that were not
  are no more than the faults (`Counted`).

For `DirTran`, for any number of units, callers and messages:

- `TypeCorrect` (`Spec => []TypeOK`), whatever is repaired: `TypeInv` types calls, units and the
  thread's place; `GSNSender` finds a free id, because fewer are referred to than there are
  (`NewIdIsFree`).
- `QueueServed` (`Spec => []QueueIsServed`), whatever is repaired: `Served` says that
  while a unit is queued its message waits, or the sending thread is away from its queue of
  messages with sending allowed: stopping it clears the queue.
- `NothingFreed` (`Spec => []NothingFreedIsUsed`), with `RetPara`, `AfterEvent`, `ParaLock`,
  `TimedWait`, `TryLock` and `DeInitHandle` repaired (`UseRepairs` are all but the last): a unit
  that is queued or being sent is not answered yet, and what it refers to is freed only after the
  answer (`UsedInv`); no message in the queue has the handle of a caller that gave up
  (`HandleInv`).
- `UnitsGoToTheirServer` (`Spec => RightServer`), with `Binding`, `Found` and `Back` repaired:
  `BoundInv` says that the sender's id of a queued unit, or of a call that has just made it, is
  bound to the server it was made for, or not at all.
- `SessionStaysCurrent` (`Spec => []SessionIsCurrent`), with `ReceiverId`, `Init_Smp`, `AskTimer`,
  `HelloTimer` and `LateData` repaired: what the service thread has is behind what the control
  thread has ordered by the messages in `srvQueue`, so `SessionInv` is about their order. For a
  server the control thread has ended with, a DEINIT follows every INIT, and if no DEINIT is
  queued its receiver and timer are gone (`Ended`); for one it has begun with, an INIT follows
  every DEINIT, and if no INIT is queued its receiver is there (`Begun`); between two INITs there
  is a DEINIT, and before the first if a timer runs, so that no timer is set twice (`Once`). `On`
  and `Off` are the same for `running_dir`, `inited` and the handshake's timer. The control
  thread's own `Ends`, after a time-out, does early what a DEINIT in the queue does again; that is
  harmless, because the INIT of a later start is behind it. `DeInitHandle`, `TimedWait` and
  `TryLock` are not needed: this holds of the control thread's waits as they are. Nor is
  `KillUnlock`: a thread that hangs (`Hung`) hangs for ever, and of a session it has a part in the
  property says nothing.

Every invariant and action property of a passing run is stated by a theorem. Model-checked only is
liveness (`Settles`, `StartReturns`, `TimedExitReturns`, `QuitEnds`, `DhcpEnds`, `SendEnds`
and the two `ControlReturns`), which is out of the prover's reach.

## Not modelled

- Hello packets: the identifier sequence is data, and the thread has one timer. It is told to stop
  and forgotten; a second start runs beside it (helloprocessor.cpp:18), and nothing in the program
  tells the two apart.
- The detection threads have one timer each, whose handler reads the system; what they post is
  part of `ContextControl`.
- The contents of frames, private attributes and configuration; user interface, logging, proxy
  recognition in captured traffic, option parsing, ciphers and checksums, the download of upgrades,
  operating-system queries, vendored libraries.
- Wireless and PEAP, the upgrade and single sign-on in the control thread.
- The data race on the vector of timers (lnxthread.cpp:283): the models take a walk over it to see
  one version.
- That `StateMachine` refines the machine of `ContextControl`, and `DirSlices` the sending step of
  `DirTran`: the map names the handlers, but no refinement is checked.
