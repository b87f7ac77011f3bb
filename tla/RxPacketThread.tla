--------------------------- MODULE RxPacketThread ---------------------------
(***************************************************************************)
(* The thread that captures packets, between its own loop and the control  *)
(* thread, which starts it once, stops it and deletes it.  They share      *)
(* stopped, pcap_handle and recv_packet_waithandle.  The threads' queues   *)
(* and the pthread operations of the handles are in LnxThread: here a      *)
(* SetEvent is one step and the owner's waits are one step each.           *)
(***************************************************************************)
EXTENDS Integers

CONSTANTS
  MayFail,    \* what may fail: subset of Failures
  Repairs     \* the defects below taken to be repaired; {} is the code as it is

(***************************************************************************)
(*  "StopLost"   StartRecvPacket clears stopped itself, after the start    *)
(*               has been acknowledged, and with it a stop that came       *)
(*               before; repaired, StartRecvPacketThread clears it         *)
(*  "FilterExit" SetPacketFilter ends the thread when it fails, with the   *)
(*               handle closed and kept; repaired, InitAdapter fails       *)
(*  "Cancel"     TerminateThread cancels the thread anywhere; repaired,    *)
(*               not between pcap_close and the end of CloseAdapter        *)
(*  "TimedWait"  the timed loop of WaitForSingleObject, as in LnxThread    *)
(***************************************************************************)
Defects == {"StopLost", "FilterExit", "Cancel", "TimedWait"}
Failures == {"CreateThread", "pcap_open_live", "pcap_setfilter", "SetSenderAdapter"}

ASSUME ConstantsAssumption ==
  /\ MayFail \subseteq Failures
  /\ Repairs \subseteq Defects

VARIABLES
  rx,           \* where the capturing thread is; "exited": without LnxEndThread
  started,      \* it has acknowledged the start (wait_handle2)
  messages,     \* what waits in its queue
  stopped,      \* CRxPacketThread::stopped
  pcap_handle,  \* "null", "open", or "closed": closed and not yet null
  misused,      \* a pcap handle was used, or closed, after it had been closed
  signal,       \* recv_packet_waithandle
  ctl,          \* where the control thread is
  next,         \* where it goes when StopRxPacketThread returns
  late          \* the time-out of its wait has passed

rxVars == <<rx, started>>
ctlVars == <<ctl, next, late>>
vars == <<rxVars, messages, stopped, pcap_handle, misused, signal, ctlVars>>

\* In the loop of StartRecvPacket, its condition passed.
Capturing == {"reopen", "look", "dispatch", "close", "clear", "sleep"}
RxPlaces == Capturing \cup {"recv", "open", "opened", "test", "finish", "lastclose",
                            "lastclear", "set", "exited", "ended"}

\* Where the control thread waits for the user, the switch or the server.
Resting == {"idle", "session", "failed", "done"}
Places == Resting \cup {"starting", "sender", "stopping", "timedout", "left", "close",
                        "exiting", "terminate", "delete"}

Repaired(x) == x \in Repairs
Fails(x) == x \in MayFail

-----------------------------------------------------------------------------
(* The capturing thread *)

\* InitAdapter: the handle is what pcap_open_live returned.  The thread goes on at
\* good or bad.
InitAdapter(good, bad) ==
  \/ /\ pcap_handle' = "open" /\ rx' = good
  \/ /\ Fails("pcap_open_live")
     /\ pcap_handle' = "null" /\ rx' = bad
  \/ /\ Fails("pcap_setfilter")
     /\ IF Repaired("FilterExit")
        THEN pcap_handle' = "null" /\ rx' = bad
        ELSE pcap_handle' = "closed" /\ rx' = "exited"

\* CloseAdapter is pcap_close and then the assignment of null.
PcapClose(from, to) ==
  /\ rx = from /\ rx' = to
  /\ pcap_handle' = "closed"
  /\ misused' = (misused \/ pcap_handle = "closed")
  /\ UNCHANGED <<started, messages, stopped, signal, ctlVars>>

HandleCleared(from, to) ==
  /\ rx = from /\ rx' = to
  /\ pcap_handle' = "null"
  /\ UNCHANGED <<started, messages, stopped, misused, signal, ctlVars>>

\* Mutant: the start is acknowledged when the handler returns.
ReadStartAcksLate ==
  /\ rx = "recv" /\ "START_THREAD" \in messages
  /\ messages' = messages \ {"START_THREAD"}
  /\ rx' = "open"
  /\ UNCHANGED <<started, stopped, pcap_handle, misused, signal, ctlVars>>

\* Run reads START_THREAD and sets wait_handle2 before it dispatches the message.
ReadStart ==
  /\ rx = "recv" /\ "START_THREAD" \in messages
  /\ messages' = messages \ {"START_THREAD"}
  /\ started' = TRUE /\ rx' = "open"
  /\ UNCHANGED <<stopped, pcap_handle, misused, signal, ctlVars>>

\* StartRecvPacket, its first lines.  A start that fails is not reported.
OpenAdapter ==
  /\ rx = "open"
  /\ InitAdapter("opened", "recv")
  /\ stopped' = IF rx' = "recv" /\ Repaired("StopLost") THEN TRUE ELSE stopped
  /\ UNCHANGED <<started, messages, misused, signal, ctlVars>>

\* Mutant: stopped is cleared here whatever StartRecvPacketThread did.
ClearStoppedAgain ==
  /\ rx = "opened" /\ rx' = "test"
  /\ stopped' = FALSE
  /\ UNCHANGED <<started, messages, pcap_handle, misused, signal, ctlVars>>

ClearStopped ==
  /\ rx = "opened" /\ rx' = "test"
  /\ stopped' = (Repaired("StopLost") /\ stopped)
  /\ UNCHANGED <<started, messages, pcap_handle, misused, signal, ctlVars>>

\* while (!stopped), and the inner while (!pcap_handle).
TestStopped ==
  /\ rx \in {"test", "look"}
  /\ rx' = IF stopped THEN "finish"
           ELSE IF pcap_handle = "null" THEN "reopen" ELSE "dispatch"
  /\ UNCHANGED <<started, messages, stopped, pcap_handle, misused, signal, ctlVars>>

\* InitAdapter after a Sleep.
Reopen ==
  /\ \/ rx = "reopen" /\ InitAdapter("look", "look")
     \/ rx = "sleep" /\ InitAdapter("test", "test")
  /\ UNCHANGED <<started, messages, stopped, misused, signal, ctlVars>>

\* pcap_dispatch returns: with a packet, without one, or with an error.  It need not.
PcapDispatch ==
  /\ rx = "dispatch" /\ rx' \in {"test", "close"}
  /\ misused' = (misused \/ pcap_handle = "closed")
  /\ UNCHANGED <<started, messages, stopped, pcap_handle, signal, ctlVars>>

CloseAdapter == PcapClose("close", "clear") \/ HandleCleared("clear", "sleep")

Finish ==
  /\ rx = "finish"
  /\ stopped' = TRUE
  /\ rx' = IF pcap_handle = "null" THEN "set" ELSE "lastclose"
  /\ UNCHANGED <<started, messages, pcap_handle, misused, signal, ctlVars>>

\* Mutant: the last CloseAdapter forgets the null.
CloseAtTheEndKeepsHandle == PcapClose("lastclose", "set")

CloseAtTheEnd == PcapClose("lastclose", "lastclear") \/ HandleCleared("lastclear", "set")

SetEvent ==
  /\ rx = "set" /\ rx' = "recv"
  /\ signal' = TRUE
  /\ UNCHANGED <<started, messages, stopped, pcap_handle, misused, ctlVars>>

\* STOP_THREAD, and LnxEndThread.
ReadStop ==
  /\ rx = "recv" /\ messages = {"STOP_THREAD"}
  /\ messages' = {} /\ rx' = "ended"
  /\ UNCHANGED <<started, stopped, pcap_handle, misused, signal, ctlVars>>

-----------------------------------------------------------------------------
(* The control thread *)

\* Authenticate_InitAll up to StartRecvPacketThread, whose failure is -1 when there is
\* no queue.
Authenticate_InitAll ==
  /\ ctl = "idle"
  /\ IF rx = "ended"
     THEN /\ ctl' = "failed"
          /\ UNCHANGED <<messages, stopped>>
     ELSE /\ ctl' = "starting"
          /\ messages' = messages \cup {"START_THREAD"}
          /\ stopped' = (stopped /\ ~Repaired("StopLost"))
  /\ UNCHANGED <<rxVars, pcap_handle, misused, signal, next, late>>

StartReturns ==
  /\ ctl = "starting" /\ started
  /\ ctl' = "sender"
  /\ UNCHANGED <<rxVars, messages, stopped, pcap_handle, misused, signal, next, late>>

\* StopRxPacketThread: it waits for the loop unless stopped is TRUE already.
StopRxPacketThread(after) ==
  /\ stopped' = TRUE /\ late' = FALSE
  /\ IF stopped THEN ctl' = after /\ UNCHANGED next
     ELSE ctl' = "stopping" /\ next' = after
  /\ UNCHANGED <<rxVars, messages, pcap_handle, misused, signal>>

\* SetSenderAdapter, after which the session is on or the capture is stopped again.
SetSenderAdapter ==
  /\ ctl = "sender"
  /\ \/ /\ ctl' = "session"
        /\ UNCHANGED <<rxVars, messages, stopped, pcap_handle, misused, signal, next, late>>
     \/ /\ Fails("SetSenderAdapter")
        /\ StopRxPacketThread("failed")

\* DeAuthenticate_ExitAll, at the user's quit.
DeAuthenticate_ExitAll == ctl = "session" /\ StopRxPacketThread("left")

\* ExitExtance_ExitAll: after the former, or without it when there is no session or it
\* was logged off before.
ExitExtance_ExitAll ==
  ctl \in {"idle", "session", "failed", "left"} /\ StopRxPacketThread("close")

\* What WaitForSingleObject may return, with its 2000 ms.  As it is the wait goes on after
\* the time-out and then returns ETIMEDOUT with the signal, or returns 0 for no reason.
WaitResults ==
  IF signal THEN {IF late /\ ~Repaired("TimedWait") THEN "ETIMEDOUT" ELSE "0"}
  ELSE IF late = Repaired("TimedWait") THEN {IF late THEN "ETIMEDOUT" ELSE "0"}
  ELSE {}

\* DeAuthenticate_ExitAll is the only caller that looks at the result.
StopReturns ==
  /\ ctl = "stopping"
  /\ \E r \in WaitResults :
       ctl' = IF r = "ETIMEDOUT" /\ next = "left" THEN "timedout" ELSE next
  /\ signal' = FALSE /\ late' = FALSE
  /\ UNCHANGED <<rxVars, messages, stopped, pcap_handle, misused, next>>

Timeout ==
  /\ ctl \in {"stopping", "exiting"} /\ ~late
  /\ late' = TRUE
  /\ UNCHANGED <<rxVars, messages, stopped, pcap_handle, misused, signal, ctl, next>>

\* CloseHandle, which signals, and SafeExitThread(10000).
SafeExitThread ==
  /\ ctl = "close"
  /\ signal' = TRUE /\ late' = FALSE
  /\ IF rx = "ended" THEN ctl' = "terminate" /\ UNCHANGED messages
     ELSE ctl' = "exiting" /\ messages' = messages \cup {"STOP_THREAD"}
  /\ UNCHANGED <<rxVars, stopped, pcap_handle, misused, next>>

ExitReturns ==
  /\ ctl = "exiting"
  /\ \/ rx = "ended" /\ ctl' = "delete"
     \/ rx # "ended" /\ late /\ Repaired("TimedWait") /\ ctl' = "terminate"
  /\ UNCHANGED <<rxVars, messages, stopped, pcap_handle, misused, signal, next, late>>

\* Mutant: the thread is cancelled wherever it is.
TerminateAnywhere ==
  /\ ctl \in {"timedout", "terminate"} /\ ctl' = "delete"
  /\ rx' = "ended"
  /\ UNCHANGED <<started, messages, stopped, pcap_handle, misused, signal, next, late>>

\* TerminateThread: pthread_cancel and pthread_join.
TerminateThread ==
  /\ ctl \in {"timedout", "terminate"} /\ ctl' = "delete"
  /\ Repaired("Cancel") => rx \notin {"clear", "lastclear"}
  /\ rx' = "ended"
  /\ UNCHANGED <<started, messages, stopped, pcap_handle, misused, signal, next, late>>

\* delete, and the destructor, which closes a handle that is not null.
DeleteThread ==
  /\ ctl = "delete" /\ ctl' = "done"
  /\ stopped' = TRUE
  /\ pcap_handle' = IF pcap_handle = "null" THEN "null" ELSE "closed"
  /\ misused' = (misused \/ pcap_handle = "closed")
  /\ UNCHANGED <<rxVars, messages, signal, next, late>>

-----------------------------------------------------------------------------
\* CreateThread in InitInstance_InitAll, whose result nobody looks at.
Init ==
  /\ rx \in {"recv"} \cup (IF Fails("CreateThread") THEN {"ended"} ELSE {})
  /\ started = FALSE /\ messages = {}
  /\ stopped = TRUE /\ pcap_handle = "null" /\ misused = FALSE /\ signal = FALSE
  /\ ctl = "idle" /\ next = "idle" /\ late = FALSE

Receiver == ReadStart \/ OpenAdapter \/ ClearStopped \/ TestStopped \/ Reopen
            \/ CloseAdapter \/ Finish \/ CloseAtTheEnd \/ SetEvent \/ ReadStop

\* What the control thread does once it has begun a start, a stop or its exit.
Proceed == StartReturns \/ SetSenderAdapter \/ StopReturns
           \/ (ctl = "left" /\ ExitExtance_ExitAll) \/ SafeExitThread \/ ExitReturns
           \/ TerminateThread \/ DeleteThread

Next == Receiver \/ PcapDispatch \/ Authenticate_InitAll \/ DeAuthenticate_ExitAll
        \/ ExitExtance_ExitAll \/ Proceed \/ Timeout

Spec == Init /\ [][Next]_vars

\* Both threads and the clock go on; pcap_dispatch may block for ever, and nobody need
\* start or quit.
FairSpec == Spec /\ WF_vars(Receiver) /\ WF_vars(Proceed) /\ WF_vars(Timeout)

-----------------------------------------------------------------------------
(* Properties *)

\* The types, and the handle's: the loop has one exactly where it uses one.
TypeOK ==
  /\ rx \in RxPlaces /\ started \in BOOLEAN
  /\ messages \subseteq {"START_THREAD", "STOP_THREAD"}
  /\ stopped \in BOOLEAN /\ signal \in BOOLEAN /\ misused \in BOOLEAN
  /\ pcap_handle \in {"null", "open", "closed"}
  /\ rx \in {"recv", "open", "reopen", "sleep", "set"} => pcap_handle = "null"
  /\ rx \in {"opened", "dispatch", "close", "lastclose"} => pcap_handle = "open"
  /\ ctl \in Places /\ next \in {"idle", "failed", "left", "close"} /\ late \in BOOLEAN

\* No stop is lost, also one that overtakes the start it follows: stopped stays TRUE from
\* then on, and when StopRxPacketThread has returned 0 nothing is captured any more.
StopTakesEffect ==
  /\ ctl \notin {"idle", "starting", "sender", "session"} => stopped
  /\ ctl = "left" => rx \notin Capturing

\* No pcap handle is used or closed after it was closed: by the loop, by the stop, by
\* the destructor, and when the thread was cancelled or its filter failed.
HandleClosedOnce == ~misused

\* Whatever the capture does, pcap_dispatch blocking for ever included, the control
\* thread's start, stop and exit come to their ends.
ControlReturns == ctl \notin Resting ~> ctl \in Resting

=============================================================================
