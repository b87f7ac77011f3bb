--------------------------- MODULE ContextControl ---------------------------
(***************************************************************************)
(* The authentication control of TuanZi: CContextControlThread, which      *)
(* starts and stops the session.  It handles one message at a time, and    *)
(* what it does depends on who was faster: the state machine's reports,    *)
(* the ticks of its timers, the adapter's and the server's messages and    *)
(* the user's quit all wait in one queue while they grow old.              *)
(*                                                                         *)
(* The state machine is abstract here (module StateMachine has it in       *)
(* full): the orders it takes, the outcomes of an attempt, the reports it  *)
(* makes and the fields it writes in the control thread.  The sender is    *)
(* the queue of CSendPacketThread.  Of the branches for other kinds of     *)
(* authentication only wired MD5 is here; upgrade, single sign-on and      *)
(* what only changes the GUI are left out, reports of CONNECTING,          *)
(* ACQUIRED, AUTHENTICATING and HOLD with it.                              *)
(***************************************************************************)
EXTENDS Integers, Sequences

CONSTANTS
  Switches,     \* whose switches are met: subset of {"ruijie", "other"}
  Dhcp,         \* whether the adapter is configured by DHCP: subset of BOOLEAN
  OfferLimit,   \* ticks IsIPOffered waits for an address (20 in the code)
  Offered,      \* bound: the messages other threads post
  MaxEvents,    \* bound: how many of them
  MaxStarts,    \* bound: attempts after which a periodic START is not due again
  QueueLen,     \* bound: messages that others let wait in the queue
  Repairs       \* the defects below taken to be repaired; {} is the code as it is

(***************************************************************************)
(*  "KillUnlock"  CLnxThread::KillTimer returns with its mutex locked      *)
(*  "BootpTimer"  DoBOOTP takes the timer it has set for an error          *)
(*  "BootpTwice"  DoBOOTP overwrites the timer of a request that runs, when *)
(*                the switch sends a second Success                        *)
(*  "ReportState" the machine reports OnStateMove's argument, not the      *)
(*                state entered: no success and no LOGOFF is ever reported *)
(*  "StartWait"   the machine gives an attempt up in the handler that began *)
(*                it, while its EAPOL-Start waits for an answer            *)
(*  "FailText"    the report of a failed attempt counts as a success when  *)
(*                the switch gave the failure a text                       *)
(*  "NullText"    the machine posts FORCE_OFFLINE with a null text, which  *)
(*                ONSAMWantLogOff reads                                    *)
(*  "NullMachine" StartStateMachine posts to a machine that is no more     *)
(*  "StaleReport" reports of an earlier attempt, or that arrive after the  *)
(*                logoff, are taken for reports of this one                *)
(*  "StaleTick"   a tick that was queued before its timer was killed is    *)
(*                taken for a new one, and StartStateMachine lets the      *)
(*                timers of the attempt before run on                      *)
(*  "Backoff"     the re-authentication timer is overwritten while it runs,*)
(*                and not killed by an attempt or a logoff                 *)
(*  "EarlyReturn" StopAuthentication leaves the machine alone when the     *)
(*                state is LOGOFF already                                  *)
(***************************************************************************)
Defects == {"KillUnlock", "BootpTimer", "ReportState", "FailText", "NullText",
            "NullMachine", "StaleReport", "StaleTick", "Backoff",
            "EarlyReturn", "StartWait", "BootpTwice"}

Flags == {"RECONNECT", "DHCP_TIMEOUT", "DHCP_IP", "REAUTH"}
Helpers == {"direct", "hello", "proxy", "ip", "nic"}

ServerMessages == {"FORCE_OFFLINE", "REAUTH", "DHCP_RESULT", "OTHER_WANT_LOGOFF",
                   "HANDSHAKE"}
AdapterMessages == {"UP", "DOWN", "MULTIPLE", "MAC_CHANGED", "IP_CHANGED"}
Events == ServerMessages \cup AdapterMessages \cup {"PROXY_RESULT", "quit"}

ASSUME ConstantsAssumption ==
  /\ Switches \subseteq {"ruijie", "other"} /\ Switches # {}
  /\ Dhcp \subseteq BOOLEAN /\ Dhcp # {}
  /\ OfferLimit \in Nat
  /\ Offered \subseteq Events
  /\ MaxEvents \in Nat /\ MaxStarts \in Nat /\ QueueLen \in Nat
  /\ Repairs \subseteq Defects

VARIABLES
  queue,    \* the control thread's messages
  c,        \* CContextControlThread and what it has running
  m,        \* the state machine's thread, abstracted
  sender,   \* the queue of CSendPacketThread
  adapter,  \* its adapter is open
  quit,     \* do_quit: "no", "asked", "notified", "stopped"
  heard,    \* the attempt of the last Success from the switch
  link,     \* the switch's vendor, and the messages others may still post
  events

vars == <<queue, c, m, sender, adapter, quit, heard, link, events>>

Repaired(x) == x \in Repairs

\* A message: its type, what it carries, and the attempt it belongs to.
Msg(type, arg, at) == [type |-> type, arg |-> arg, at |-> at]

Types == {"START_MACHINE", "RETURN", "TIMER", "ADAPTER", "FORCE_OFFLINE", "REAUTH",
          "DHCP_RESULT", "OTHER_WANT_LOGOFF", "COMPATIBLE_LOGOFF", "PROXY_RESULT",
          "CONNECT_NOTIFY", "EAP_FAILURE", "STOP_THREAD"}
Args == {"none", "AUTHENTICATED", "LOGOFF", "null", "text", "yes", "no", "quit",
         "handshake", "timer"} \cup Flags \cup AdapterMessages

Control ==
  [pc : {"idle", "joining", "hung", "crashed", "exited"},
   state : {"INVALID", "AUTHENTICATING", "AUTHENTICATED", "LOGOFF"},
   dhcp_auth_step : 0..2,
   ip_offer_count : 0..OfferLimit + 1,
   is_ruijie_nas : BOOLEAN,
   dhcp_enabled : BOOLEAN,
   logoff_message : BOOLEAN,       \* it is not empty
   reconnect_fail : BOOLEAN, connect_fail : BOOLEAN,
   reauth_count : 0..3,            \* of CBackoffReAuthenticationManager
   machine_thread : BOOLEAN,       \* it is not null
   handle : SUBSET Flags,          \* the timer ids that are not zero
   armed : [Flags -> Nat],         \* the kernel's timers
   gate : [Flags -> {"none", "open", "busy"}],  \* OnTimerEnter's mutexes
   locked : BOOLEAN,               \* a KillTimer has returned with the mutex
   leaving : SUBSET Flags,         \* the ON_TIMER whose handler waits for the machine
   drained : BOOLEAN,              \* bootp_semaphore has been waited for
   nic_up : BOOLEAN,               \* the adapter detection's status
   running : SUBSET Helpers,       \* transport, hello, proxy and adapter detection
   attempt : Nat]                  \* STARTs posted

Orders == {"START", "LOGOFF", "STOP"}
MachineThread ==
  [st : {"none", "idle", "connecting", "asked", "online", "held", "failing",
         "logoff", "ended"},
   at : Nat,
   inbox : Seq([order : Orders, at : Nat])]

TypeOK ==
  /\ queue \in Seq([type : Types, arg : Args, at : Nat])
  /\ c \in Control
  /\ m \in MachineThread
  /\ sender \in Seq({"logoff", "CLOSE_ADAPTER"})
  /\ adapter \in BOOLEAN
  /\ quit \in {"no", "asked", "notified", "stopped"}
  /\ heard \in Nat
  /\ link \in Switches
  /\ events \in 0..MaxEvents

-----------------------------------------------------------------------------
(***************************************************************************)
(* A handler takes the world it finds to the world it leaves.  The world   *)
(* is what the control thread writes: its own fields, its queue without    *)
(* the message in hand, the machine, the sender and the quit command.  A   *)
(* function of the class is an operator from worlds to worlds; once the    *)
(* thread hangs, crashes or waits for another, the rest of the handler     *)
(* does not happen.                                                        *)
(***************************************************************************)
World == [c |-> c, queue |-> Tail(queue), m |-> m, sender |-> sender,
          adapter |-> adapter, quit |-> quit]

Stuck(w) == w.c.pc # "idle"

Become(w) ==
  /\ c' = w.c /\ queue' = w.queue /\ m' = w.m /\ sender' = w.sender
  /\ adapter' = w.adapter /\ quit' = w.quit
  /\ UNCHANGED <<heard, link, events>>

\* Only the id in hand is killed; a timer whose id was overwritten goes on.
KillTimer(w, f) ==
  IF Stuck(w) \/ f \notin w.c.handle THEN w
  ELSE IF w.c.locked THEN [w EXCEPT !.c.pc = "hung"]
  ELSE [w EXCEPT !.c.handle = @ \ {f}, !.c.armed[f] = @ - 1,
                 !.c.locked = ~Repaired("KillUnlock")]

\* The new TIMERPARAM has a mutex that is not locked.
SetTimer(w, f) ==
  IF Stuck(w) THEN w
  ELSE [w EXCEPT !.c.handle = @ \cup {f}, !.c.armed[f] = @ + 1, !.c.gate[f] = "open"]

Open(g) == IF g = "busy" THEN "open" ELSE g

OnTimerLeave(w, f) ==
  CASE w.c.pc = "idle"    -> [w EXCEPT !.c.gate[f] = Open(@)]
    [] w.c.pc = "joining" -> [w EXCEPT !.c.leaving = {f}]
    [] OTHER              -> w

IsRuijieNas(w) == w.c.is_ruijie_nas

\* GetDHCPAuthStep also brings the step up to date.
StepOf(w) ==
  IF IsRuijieNas(w) /\ w.c.dhcp_enabled
  THEN IF w.c.dhcp_auth_step = 2 THEN 2 ELSE 1
  ELSE 0
GetDHCPAuthStep(w) == IF Stuck(w) THEN w ELSE [w EXCEPT !.c.dhcp_auth_step = StepOf(w)]

\* stop_dhclient_asyn ends dhclient, whose thread then posts the semaphore, unless
\* someone has waited for that already.
CancelBOOTP(w) ==
  LET k == KillTimer(w, "DHCP_IP") IN
    IF Stuck(k) THEN k
    ELSE IF "DHCP_IP" \in w.c.handle /\ w.c.drained THEN [k EXCEPT !.c.pc = "hung"]
    ELSE [k EXCEPT !.c.ip_offer_count = 0]

CancelWaitDHCPAuthResultTimer(w) == KillTimer(w, "DHCP_TIMEOUT")

-----------------------------------------------------------------------------
(* The end of a session *)

\* To a Ruijie switch the machine sends the frame; for another vendor's the control
\* thread writes the machine's state and sends the frame itself, past every queue.
SendLogOffPacket(w) ==
  IF Stuck(w) \/ ~w.c.machine_thread THEN w
  ELSE IF IsRuijieNas(w)
  THEN [w EXCEPT !.m.inbox = Append(@, [order |-> "LOGOFF", at |-> w.c.attempt])]
  ELSE [w EXCEPT !.m.st = IF @ \in {"idle", "ended"} THEN @ ELSE "logoff"]

\* Mutant: the hello thread is left running.
DeinitKeepsHello(w) ==
  IF Stuck(w) THEN w ELSE [w EXCEPT !.c.running = @ \ {"ip", "proxy", "direct"}]

\* The detections of addresses and proxies, the transport and the hellos end.
DeinitAll_Success(w) ==
  IF Stuck(w) THEN w ELSE [w EXCEPT !.c.running = @ \ {"ip", "proxy", "direct", "hello"}]

CloseAndQuit(w) ==
  [w EXCEPT !.sender = Append(@, "CLOSE_ADAPTER"),
            !.quit = IF @ = "no" THEN "asked" ELSE @]

\* StopAdapterStateCheck: OnStopDetect is asked to stop the detection of the adapter's
\* state and kills the timer of the other one.
StopDetections(w) == [w EXCEPT !.c.running = @ \ {"ip"}]

\* Mutants: the adapter is closed before the machine has ended, or the machine is
\* waited for but not told.
ExitAllClosesFirst(w) ==
  LET s == StopDetections(w) IN
    IF Stuck(w) THEN w
    ELSE IF w.c.machine_thread
    THEN [s EXCEPT !.c.pc = "joining", !.sender = Append(@, "CLOSE_ADAPTER"),
                   !.m.inbox = Append(@, [order |-> "STOP", at |-> 0])]
    ELSE CloseAndQuit(s)
ExitAllForgetsStop(w) ==
  LET s == StopDetections(w) IN
    IF Stuck(w) THEN w
    ELSE IF w.c.machine_thread THEN [s EXCEPT !.c.pc = "joining"]
    ELSE CloseAndQuit(s)

\* DeAuthenticate_ExitAll up to the machine's SafeExitThread(0), which waits for the
\* machine to end, and then, in MachineJoined, its rest with the 'q' that
\* StopAuthentication writes.
DeAuthenticate_ExitAll(w) ==
  LET s == StopDetections(w) IN
    IF Stuck(w) THEN w
    ELSE IF w.c.machine_thread
    THEN [s EXCEPT !.c.pc = "joining",
                   !.m.inbox = Append(@, [order |-> "STOP", at |-> 0])]
    ELSE CloseAndQuit(s)

\* quits: the type is not APP_QUIT_TYPE_0; tells: the switch is to be told.
LoggedOff(w, quits) ==
  /\ w.c.state \in {"LOGOFF", "INVALID"}
  /\ Repaired("EarlyReturn") => ~quits \/ ~w.c.machine_thread

StopAuthentication(w, quits, tells) ==
  IF Stuck(w) \/ LoggedOff(w, quits) THEN w
  ELSE LET off  == CancelBOOTP(CancelWaitDHCPAuthResultTimer(
                                 [w EXCEPT !.c.state = "LOGOFF"]))
           told == IF tells THEN SendLogOffPacket(off) ELSE off
           calm == IF quits /\ Repaired("Backoff") THEN KillTimer(told, "REAUTH") ELSE told
           done == KillTimer(DeinitAll_Success(calm), "RECONNECT")
       IN IF quits THEN DeAuthenticate_ExitAll(done) ELSE done

-----------------------------------------------------------------------------
(* The beginning of a session *)

\* What the attempt before has left running.
ForgetOldAttempt(w) ==
  LET t == IF Repaired("StaleTick")
           THEN CancelBOOTP(CancelWaitDHCPAuthResultTimer(w)) ELSE w
  IN IF Repaired("Backoff") THEN KillTimer(t, "REAUTH") ELSE t

\* informed: DoWithGetDHCPInfo could read the adapter's configuration.  (For the first
\* attempt the code leaves the step as it is; nobody reads it but by GetDHCPAuthStep.)
StartStateMachine(w, informed) ==
  LET g == GetDHCPAuthStep([w EXCEPT !.c.logoff_message = FALSE,
                                     !.c.ip_offer_count = 0])
      s == ForgetOldAttempt(g)
      n == w.c.attempt + 1
  IN IF Stuck(w) THEN w
     ELSE IF g.c.dhcp_auth_step # 2 /\ ~informed THEN g
     ELSE IF ~w.c.machine_thread
     THEN IF Repaired("NullMachine") THEN g ELSE [g EXCEPT !.c.pc = "crashed"]
     ELSE IF Stuck(s) THEN s
     ELSE [s EXCEPT !.c.state = "AUTHENTICATING", !.c.attempt = n,
                    !.m.inbox = Append(@, [order |-> "START", at |-> n])]

\* StartProcessBusiness; wanted: the helpers the server's attributes ask for; renew:
\* they ask for a periodic re-authentication.
DoForSTATE_AUTHENTICATED(w, wanted, renew) ==
  IF Stuck(w) THEN w
  ELSE [w EXCEPT !.c.state = "AUTHENTICATED",
                 !.c.running = @ \cup {"direct", "ip", "nic"} \cup wanted,
                 !.c.nic_up = TRUE,
                 !.queue = IF IsRuijieNas(w) \/ renew
                           THEN Append(@, Msg("CONNECT_NOTIFY", "timer", w.c.attempt))
                           ELSE @]

\* works: the semaphore, dhclient's thread and the timer could be made.
DoBOOTP(w, works) ==
  LET t == SetTimer([w EXCEPT !.c.drained = FALSE], "DHCP_IP") IN
    IF Stuck(w) \/ (Repaired("BootpTwice") /\ "DHCP_IP" \in w.c.handle) THEN w
    ELSE IF ~works THEN StopAuthentication(w, TRUE, TRUE)
    ELSE IF Repaired("BootpTimer") THEN t
    ELSE StopAuthentication([t EXCEPT !.c.drained = TRUE], TRUE, TRUE)

\* sent: the server took the user's information.
DoWithDHCPUpload(w, sent) ==
  LET d == [w EXCEPT !.c.running = @ \cup {"direct"}] IN
    IF Stuck(w) THEN w
    ELSE IF sent THEN SetTimer(CancelWaitDHCPAuthResultTimer(d), "DHCP_TIMEOUT")
    ELSE StopAuthentication(d, TRUE, TRUE)

\* Mutants: the limit is missed by one, or the ticks are not counted.
WaitForOfferOnceMore(w) ==
  IF w.c.ip_offer_count > OfferLimit + 1 THEN StopAuthentication(w, TRUE, TRUE)
  ELSE [w EXCEPT !.c.ip_offer_count = @ + 1]
WaitForOfferForEver(w) == [w EXCEPT !.c.ip_offer_count = 0]

WaitForOffer(w) ==
  IF w.c.ip_offer_count > OfferLimit THEN StopAuthentication(w, TRUE, TRUE)
  ELSE [w EXCEPT !.c.ip_offer_count = @ + 1]

\* Mutant: the timer goes on after the address is there.
OfferKeepsTimer(w, informed, sent) ==
  LET g == GetDHCPAuthStep([w EXCEPT !.c.ip_offer_count = 0]) IN
    CASE g.c.dhcp_auth_step = 1 ->
           [StartStateMachine([g EXCEPT !.c.dhcp_auth_step = 2], informed)
              EXCEPT !.c.handle = @ \cup {"DHCP_IP"}]
      [] g.c.dhcp_auth_step = 2 -> [g EXCEPT !.c.pc = "crashed"]
      [] g.c.dhcp_auth_step = 0 -> DoWithDHCPUpload(g, sent)

\* There is an address.  In step 1 the client authenticates again with it; in step 2
\* an assertion fails; without steps the server is told the address.
AddressOffered(w, informed, sent) ==
  LET k == KillTimer(w, "DHCP_IP")
      g == GetDHCPAuthStep([k EXCEPT !.c.ip_offer_count = 0])
  IN IF Stuck(k) THEN k
     ELSE CASE g.c.dhcp_auth_step = 1 ->
                 StartStateMachine([g EXCEPT !.c.dhcp_auth_step = 2], informed)
            [] g.c.dhcp_auth_step = 2 -> [g EXCEPT !.c.pc = "crashed"]
            [] g.c.dhcp_auth_step = 0 -> DoWithDHCPUpload(g, sent)

\* offered: dhclient has ended and the adapter has an address and a gateway.
IsIPOffered(w, offered, informed, sent) ==
  IF offered /\ ~w.c.drained THEN AddressOffered(w, informed, sent)
  ELSE WaitForOffer(w)

-----------------------------------------------------------------------------
(* The handlers *)

Receive(type) ==
  /\ c.pc = "idle"
  /\ queue # <<>> /\ Head(queue).type = type

Arg == Head(queue).arg

\* The reports and self-posted messages of this attempt, before its logoff.
Current ==
  Repaired("StaleReport") => c.state # "LOGOFF" /\ Head(queue).at = c.attempt

\* The user's connect command, posted once.  readable: DoWithGetDHCPInfo, BeginStart
\* and the opening of the adapters succeed; then the machine is created and started.
OnStartMachine(readable) ==
  /\ Receive("START_MACHINE")
  /\ Become(IF readable
            THEN StartStateMachine(
                   [World EXCEPT !.c.dhcp_auth_step = 1, !.c.machine_thread = TRUE,
                                 !.c.running = {"ip", "nic"}, !.m.st = "idle",
                                 !.adapter = TRUE], TRUE)
            ELSE World)

\* Mutant: only connect_fail tells a failure.
IsFailureByConnect(w) == w.c.connect_fail

IsFailure(w) ==
  \/ w.c.connect_fail
  \/ w.c.reconnect_fail /\ (Repaired("FailText") \/ ~w.c.logoff_message)

\* STATE_MACHINE_RETURN with STATE_AUTHENTICATED.
OnAuthenticated(wanted, renew, works) ==
  /\ Receive("RETURN") /\ Arg = "AUTHENTICATED"
  /\ LET w == [World EXCEPT !.c.reauth_count = 0]
         d == GetDHCPAuthStep(DeinitAll_Success(w))
     IN Become(
          IF ~Current THEN World
          ELSE IF IsFailure(w) THEN [w EXCEPT !.c.logoff_message = TRUE]
          ELSE IF ~d.c.dhcp_enabled \/ d.c.dhcp_auth_step = 2
          THEN DoForSTATE_AUTHENTICATED(d, wanted, renew)
          ELSE DoBOOTP(d, works))

\* STATE_MACHINE_RETURN with STATE_LOGOFF: a client that was refused without a reason
\* tries again, three times, after a pause.
OnLogoff ==
  /\ Receive("RETURN") /\ Arg = "LOGOFF"
  /\ LET again == c.connect_fail /\ ~c.logoff_message
         s     == StopAuthentication(World, ~again, TRUE)
         t     == IF Repaired("Backoff") THEN KillTimer(s, "REAUTH") ELSE s
     IN Become(
          IF ~Current THEN World
          ELSE IF again /\ ~Stuck(t) /\ t.c.reauth_count < 3
          THEN SetTimer([t EXCEPT !.c.reauth_count = @ + 1], "REAUTH")
          ELSE s)

\* A session that renews itself tells another vendor's switch that the old one ends.
Restart(w, informed) ==
  StartStateMachine(IF IsRuijieNas(w) THEN w ELSE SendLogOffPacket(w), informed)

\* Mutant: a tick whose timer was killed is taken for a new one.
OnTimerTakesOldTicks(f, offered, informed, sent) ==
  /\ Receive("TIMER") /\ Arg = f
  /\ Become(OnTimerLeave(
       CASE f \in {"RECONNECT", "REAUTH"} -> Restart(KillTimer(World, f), informed)
         [] f = "DHCP_TIMEOUT" ->
              StopAuthentication(CancelWaitDHCPAuthResultTimer(World), TRUE, TRUE)
         [] f = "DHCP_IP"      -> IsIPOffered(World, offered, informed, sent), f))

\* ON_TIMER.  Only DHCP_IP looks whether its timer still exists.
OnTimer(f, offered, informed, sent) ==
  /\ Receive("TIMER") /\ Arg = f
  /\ LET residual == f \notin c.handle /\ (f = "DHCP_IP" \/ Repaired("StaleTick"))
         w == CASE f = "RECONNECT"    -> Restart(World, informed)
                [] f = "DHCP_TIMEOUT" ->
                     StopAuthentication(CancelWaitDHCPAuthResultTimer(World), TRUE, TRUE)
                [] f = "DHCP_IP"      -> IsIPOffered(World, offered, informed, sent)
                [] f = "REAUTH"       -> StartStateMachine(KillTimer(World, f), informed)
     IN Become(OnTimerLeave(IF residual THEN World ELSE w, f))

\* ADAPTER_STATE, from the detection of the adapter's state or addresses.
OnAdaptersState(informed) ==
  /\ Receive("ADAPTER")
  /\ LET first == [World EXCEPT !.c.dhcp_auth_step = 1] IN
       Become(CASE Arg \in {"UP", "IP_CHANGED"} -> Restart(first, informed)
                [] Arg = "MAC_CHANGED" ->
                     StartStateMachine(SendLogOffPacket(first), informed)
                [] Arg = "DOWN"     -> StopAuthentication(World, FALSE, FALSE)
                [] Arg = "MULTIPLE" -> StopAuthentication(World, TRUE, TRUE))

\* Mutant: the timer that runs is not killed first.
RenewWithoutKill(w) == SetTimer(w, "RECONNECT")

Renew(w) == SetTimer(KillTimer(w, "RECONNECT"), "RECONNECT")

\* CONNECT_NOTIFY: 0 from do_quit, 2 from the transport's handshake, 4 from
\* StartProcessBusiness.  auto: is_autoreconnect.
OnConnectNotify(informed, auto) ==
  /\ Receive("CONNECT_NOTIFY")
  /\ Become(CASE Arg = "quit"      -> StopAuthentication(World, TRUE, TRUE)
              [] Arg = "handshake" -> StartStateMachine(World, informed)
              [] Arg = "timer"     -> IF ~Current THEN World
                                      ELSE IF auto THEN Renew(World)
                                      ELSE KillTimer(World, "RECONNECT"))

\* REAUTH, from the server or the user's change of service.
OnSaWantReAuth(informed) ==
  /\ Receive("REAUTH")
  /\ Become(Restart(World, informed))

\* FORCE_OFFLINE and DO_FORCE_OFFLINE, from the server or the machine.
ONSAMWantLogOff ==
  /\ Receive("FORCE_OFFLINE")
  /\ Become(IF Arg = "null" /\ ~Repaired("NullText")
            THEN [World EXCEPT !.c.pc = "crashed"]
            ELSE StopAuthentication([World EXCEPT !.c.logoff_message = TRUE], TRUE, TRUE))

\* COMPATIBLE_LOGOFF, from the machine: the reason is unknown and no logoff is sent.
OnLogoffWithUnknownReason ==
  /\ Receive("COMPATIBLE_LOGOFF")
  /\ Become(StopAuthentication(World, TRUE, FALSE))

\* WM_OTHER_WANT_LOGOFF, from the transport or the change of password.
OnOthersWantLogOff ==
  /\ Receive("OTHER_WANT_LOGOFF")
  /\ Become(StopAuthentication(World, TRUE, TRUE))

OnRcvProxyDetectResult ==
  /\ Receive("PROXY_RESULT")
  /\ Become(StopAuthentication([World EXCEPT !.c.logoff_message = TRUE], TRUE, TRUE))

\* ANNOUNCE_DHCP_RESULT: the server accepts the address, or refuses it with or without
\* a text.
OnRcvDHCPAuthResult(wanted, renew) ==
  /\ Receive("DHCP_RESULT")
  /\ LET w == CancelWaitDHCPAuthResultTimer(World) IN
       Become(IF "DHCP_TIMEOUT" \notin c.handle THEN World
              ELSE IF Arg = "yes" THEN DoForSTATE_AUTHENTICATED(w, wanted, renew)
              ELSE StopAuthentication([w EXCEPT !.c.logoff_message = (Arg = "text")],
                                      TRUE, TRUE))

OnRecvFailure ==
  /\ Receive("EAP_FAILURE")
  /\ Become(KillTimer(World, "RECONNECT"))

\* Run returns: LnxEndThread kills the timers.
StopThread ==
  /\ Receive("STOP_THREAD")
  /\ Become(IF c.locked THEN [World EXCEPT !.c.pc = "hung"]
            ELSE [World EXCEPT !.c.pc = "exited", !.c.handle = {},
                               !.c.armed = [f \in Flags |-> 0],
                               !.c.gate = [f \in Flags |-> "none"]])

\* Mutant: the pointer to the machine is kept.
JoinedKeepsPointer ==
  /\ c.pc = "joining" /\ m.st = "ended"
  /\ c' = [c EXCEPT !.pc = "idle", !.leaving = {},
                    !.gate = [f \in Flags |->
                                IF f \in c.leaving THEN Open(c.gate[f]) ELSE c.gate[f]]]
  /\ sender' = Append(sender, "CLOSE_ADAPTER")
  /\ quit' = IF quit = "no" THEN "asked" ELSE quit
  /\ UNCHANGED <<queue, m, adapter, heard, link, events>>

\* SafeExitThread(0) has returned, the handler goes on: the sender is told to close
\* the adapter and the main thread to quit.  If the handler was OnTimer, its gate opens.
MachineJoined ==
  /\ c.pc = "joining" /\ m.st = "ended"
  /\ c' = [c EXCEPT !.pc = "idle", !.machine_thread = FALSE, !.leaving = {},
                    !.gate = [f \in Flags |->
                                IF f \in c.leaving THEN Open(c.gate[f]) ELSE c.gate[f]]]
  /\ sender' = Append(sender, "CLOSE_ADAPTER")
  /\ quit' = IF quit = "no" THEN "asked" ELSE quit
  /\ UNCHANGED <<queue, m, adapter, heard, link, events>>

-----------------------------------------------------------------------------
(***************************************************************************)
(* The state machine, as module StateMachine has it in full.  `held' is    *)
(* HOLD with another try to come, `failing' HOLD after SetUserLogOff; a    *)
(* handler is one step.                                                    *)
(***************************************************************************)
ProcessLives == c.pc \notin {"crashed", "exited"}

MachineRuns == ProcessLives /\ m.st \notin {"none", "ended"}

\* As it is, nothing is received while an attempt waits for its first answer.
MachineReady == MachineRuns /\ (m.st = "connecting" => Repaired("StartWait"))

HasRoom == Len(queue) < QueueLen

Report(type, arg) == queue' = Append(queue, Msg(type, arg, m.at))

TakeOrder(o) == MachineReady /\ m.inbox # <<>> /\ Head(m.inbox).order = o

MachineStart ==
  /\ TakeOrder("START")
  /\ m' = [st |-> "connecting", at |-> Head(m.inbox).at, inbox |-> Tail(m.inbox)]
  /\ c' = [c EXCEPT !.reconnect_fail = FALSE, !.connect_fail = FALSE]
  /\ UNCHANGED <<queue, sender, adapter, quit, heard, link, events>>

\* txLogOff.
MachineLogoff ==
  /\ TakeOrder("LOGOFF")
  /\ m' = [m EXCEPT !.st = IF @ = "idle" THEN @ ELSE "logoff", !.inbox = Tail(@)]
  /\ sender' = IF m.st = "idle" THEN sender ELSE Append(sender, "logoff")
  /\ UNCHANGED <<queue, c, adapter, quit, heard, link, events>>

MachineStop ==
  /\ TakeOrder("STOP")
  /\ m' = [m EXCEPT !.st = "ended", !.inbox = <<>>]
  /\ UNCHANGED <<queue, c, sender, adapter, quit, heard, link, events>>

\* The switch asks for the identity; PACKET_RETURN, which also tells its vendor, is
\* handled at once.
MachineRequest ==
  /\ MachineReady /\ m.st \in {"connecting", "online", "held"} /\ c.pc = "idle"
  /\ m' = [m EXCEPT !.st = "asked"]
  /\ c' = [c EXCEPT !.is_ruijie_nas = (link = "ruijie")]
  /\ UNCHANGED <<queue, sender, adapter, quit, heard, link, events>>

\* A Success.  Another vendor's client is not reported again when it was online.
MachineSuccess ==
  /\ MachineReady /\ m.st \in {"connecting", "asked", "online", "held"} /\ HasRoom
  /\ m' = [m EXCEPT !.st = "online"]
  /\ heard' = m.at
  /\ c' = [c EXCEPT !.reconnect_fail = FALSE, !.connect_fail = FALSE]
  /\ IF Repaired("ReportState") /\ (c.is_ruijie_nas \/ m.st # "online")
     THEN Report("RETURN", "AUTHENTICATED") ELSE UNCHANGED queue
  /\ UNCHANGED <<sender, adapter, quit, link, events>>

\* No answer to any EAPOL-Start: reconnect_fail is set and AUTHENTICATED reported.
MachineGivesUp ==
  /\ MachineRuns /\ m.st = "connecting" /\ HasRoom
  /\ m' = [m EXCEPT !.st = "logoff"]
  /\ c' = [c EXCEPT !.reconnect_fail = TRUE]
  /\ Report("RETURN", "AUTHENTICATED")
  /\ UNCHANGED <<sender, adapter, quit, heard, link, events>>

\* A Failure, with or without a text.  The client tries again twice, but not when it
\* has been online or is told a reason.
MachineFailure(text, again) ==
  /\ MachineReady /\ m.st \in {"connecting", "asked"} /\ HasRoom
  /\ again => heard # m.at
  /\ m' = [m EXCEPT !.st = IF again THEN "held" ELSE "failing"]
  /\ c' = [c EXCEPT !.logoff_message = text, !.connect_fail = @ \/ ~again]
  /\ Report("EAP_FAILURE", "none")
  /\ UNCHANGED <<sender, adapter, quit, heard, link, events>>

\* A Failure ends the session of a client that is online.
MachineRefused(text) ==
  /\ MachineReady /\ m.st = "online" /\ HasRoom
  /\ m' = [m EXCEPT !.st = "failing"]
  /\ c' = [c EXCEPT !.logoff_message = text]
  /\ queue' = queue \o
       <<Msg("EAP_FAILURE", "none", m.at),
         IF c.is_ruijie_nas THEN Msg("FORCE_OFFLINE", "null", m.at)
                            ELSE Msg("COMPATIBLE_LOGOFF", "none", m.at)>>
  /\ UNCHANGED <<sender, adapter, quit, heard, link, events>>

\* The server falls silent.  A client that has been online waits on, but a Ruijie one
\* does not in ACQUIRED.
MachineTimeout ==
  /\ MachineReady /\ m.st = "asked"
  /\ heard # m.at \/ c.is_ruijie_nas
  /\ m' = [m EXCEPT !.st = "failing"]
  /\ c' = [c EXCEPT !.connect_fail = TRUE]
  /\ UNCHANGED <<queue, sender, adapter, quit, heard, link, events>>

HoldEnds ==
  /\ MachineReady /\ m.st \in {"held", "failing"} /\ HasRoom
  /\ m' = [m EXCEPT !.st = IF @ = "held" THEN "connecting" ELSE "logoff"]
  /\ sender' = IF m.st = "failing" THEN Append(sender, "logoff") ELSE sender
  /\ IF m.st = "failing" /\ Repaired("ReportState")
     THEN Report("RETURN", "LOGOFF") ELSE UNCHANGED queue
  /\ UNCHANGED <<c, adapter, quit, heard, link, events>>

-----------------------------------------------------------------------------
(* The sender, the timers, the other threads *)

\* CSendPacketThread takes a frame or closes its adapter.
Send ==
  /\ ProcessLives /\ sender # <<>>
  /\ sender' = Tail(sender)
  /\ adapter' = (adapter /\ Head(sender) # "CLOSE_ADAPTER")
  /\ UNCHANGED <<queue, c, m, quit, heard, link, events>>

\* A timer goes off: OnTimer(f) posts ON_TIMER if it can enter.
Tick(f) ==
  /\ ProcessLives
  /\ c.armed[f] > 0 /\ c.gate[f] = "open"
  /\ f \in {"RECONNECT", "REAUTH"} => c.attempt < MaxStarts
  /\ queue' = Append(queue, Msg("TIMER", f, c.attempt))
  /\ c' = [c EXCEPT !.gate[f] = "busy"]
  /\ UNCHANGED <<m, sender, adapter, quit, heard, link, events>>

\* The threads that may post e run.
CanPost(e) ==
  CASE e \in ServerMessages              -> "direct" \in c.running
    [] e = "UP"                          -> "nic" \in c.running /\ ~c.nic_up
    [] e = "DOWN"                        -> "nic" \in c.running
    [] e \in {"MAC_CHANGED", "IP_CHANGED"} -> "ip" \in c.running
    [] e = "MULTIPLE"                    -> {"ip", "proxy"} \subseteq c.running
    [] e = "PROXY_RESULT"                -> "proxy" \in c.running
    [] e = "quit"                        -> FALSE

MessagesOf(e) ==
  CASE e = "DHCP_RESULT"     -> {Msg(e, a, c.attempt) : a \in {"yes", "no", "text"}}
    [] e = "HANDSHAKE"       -> {Msg("CONNECT_NOTIFY", "handshake", c.attempt)}
    [] e = "FORCE_OFFLINE"   -> {Msg(e, "text", c.attempt)}
    [] e \in AdapterMessages -> {Msg("ADAPTER", e, c.attempt)}
    [] OTHER                 -> {Msg(e, "none", c.attempt)}

\* A message of the server, the detection threads or the transport.
Post(e) ==
  /\ ProcessLives /\ events > 0 /\ e \in Offered /\ HasRoom
  /\ CanPost(e)
  /\ events' = events - 1
  /\ \E msg \in MessagesOf(e) : queue' = Append(queue, msg)
  /\ c' = [c EXCEPT !.nic_up = IF e \in {"UP", "DOWN"} THEN e = "UP" ELSE @]
  /\ UNCHANGED <<m, sender, adapter, quit, heard, link>>

UserQuits ==
  /\ ProcessLives /\ quit = "no" /\ "quit" \in Offered
  /\ quit' = "asked"
  /\ UNCHANGED <<queue, c, m, sender, adapter, heard, link, events>>

\* do_quit, in the main thread: CONNECT_NOTIFY, then SafeExitThread.
DoQuit ==
  /\ ProcessLives
  /\ \/ /\ quit = "asked" /\ quit' = "notified"
        /\ queue' = Append(queue, Msg("CONNECT_NOTIFY", "quit", 0))
     \/ /\ quit = "notified" /\ quit' = "stopped"
        /\ queue' = Append(queue, Msg("STOP_THREAD", "none", 0))
  /\ UNCHANGED <<c, m, sender, adapter, heard, link, events>>

-----------------------------------------------------------------------------
Init ==
  /\ queue = <<Msg("START_MACHINE", "none", 0)>>
  /\ c \in {[pc |-> "idle", state |-> "INVALID", dhcp_auth_step |-> 0,
             ip_offer_count |-> 0, is_ruijie_nas |-> TRUE, dhcp_enabled |-> dhcp,
             logoff_message |-> FALSE, reconnect_fail |-> FALSE,
             connect_fail |-> FALSE, reauth_count |-> 0, machine_thread |-> FALSE,
             handle |-> {}, armed |-> [f \in Flags |-> 0],
             gate |-> [f \in Flags |-> "none"], locked |-> FALSE, leaving |-> {},
             drained |-> FALSE, nic_up |-> TRUE, running |-> {}, attempt |-> 0] : dhcp \in Dhcp}
  /\ m = [st |-> "none", at |-> 0, inbox |-> <<>>]
  /\ sender = <<>>
  /\ adapter = FALSE
  /\ quit = "no"
  /\ heard = 0
  /\ link \in Switches
  /\ events = MaxEvents

Asked == {{}, {"hello", "proxy"}}

Handle ==
  \/ \E b \in BOOLEAN : OnStartMachine(b)
  \/ \E wanted \in Asked, renew, works \in BOOLEAN : OnAuthenticated(wanted, renew, works)
  \/ OnLogoff
  \/ \E f \in Flags, offered, informed, sent \in BOOLEAN : OnTimer(f, offered, informed, sent)
  \/ \E informed \in BOOLEAN : OnAdaptersState(informed)
  \/ \E informed, auto \in BOOLEAN : OnConnectNotify(informed, auto)
  \/ \E informed \in BOOLEAN : OnSaWantReAuth(informed)
  \/ ONSAMWantLogOff
  \/ OnLogoffWithUnknownReason
  \/ OnOthersWantLogOff
  \/ OnRcvProxyDetectResult
  \/ \E wanted \in Asked, renew \in BOOLEAN : OnRcvDHCPAuthResult(wanted, renew)
  \/ OnRecvFailure
  \/ StopThread

ControlThread == Handle \/ MachineJoined

MachineOrders == MachineStart \/ MachineLogoff \/ MachineStop

Machine ==
  \/ MachineOrders
  \/ MachineRequest \/ MachineSuccess \/ MachineGivesUp \/ MachineTimeout \/ HoldEnds
  \/ \E text, again \in BOOLEAN : MachineFailure(text, again)
  \/ \E text \in BOOLEAN : MachineRefused(text)

Next ==
  \/ ControlThread
  \/ Machine
  \/ Send
  \/ \E f \in Flags : Tick(f)
  \/ \E e \in Events : Post(e)
  \/ UserQuits
  \/ DoQuit

Spec == Init /\ [][Next]_vars

\* WF_vars(ControlThread); when it is enabled is spelled out.
ControlReady == \/ c.pc = "idle" /\ queue # <<>>
                \/ c.pc = "joining" /\ m.st = "ended"
FairControl == []<>~ControlReady \/ []<><<ControlThread>>_vars

\* Threads are scheduled and armed timers go off; the switch and the others need not
\* say anything, nor the machine's waits end.
Fairness ==
  /\ FairControl /\ WF_vars(MachineOrders) /\ WF_vars(Send) /\ WF_vars(DoQuit)
  /\ \A f \in Flags : WF_vars(Tick(f))

FairSpec == Spec /\ Fairness

-----------------------------------------------------------------------------
(* Properties *)

\* The client holds itself for connected only after a Success of the attempt it made
\* last: no report, address or result of an earlier attempt, or of one that failed,
\* opens the session.
SessionIsCurrent == c.state = "AUTHENTICATED" => heard = c.attempt

\* While there is a session or an attempt there is a machine that runs it; and when
\* the control thread has ended, on which the machine depends, so has the machine.
MachineOutlivesSession ==
  /\ c.pc = "idle" /\ c.state \in {"AUTHENTICATING", "AUTHENTICATED"}
       => c.machine_thread /\ m.st \notin {"none", "ended"}
  /\ c.pc = "exited" => m.st \in {"none", "ended"}
  /\ c.pc # "crashed"

\* Every logoff frame that the machine posts is sent: none waits behind the order to
\* close the adapter, or finds it closed.
LogoffPrecedesClose ==
  \A i \in 1..Len(sender) :
    sender[i] = "logoff" =>
      adapter /\ \A j \in 1..i : sender[j] # "CLOSE_ADAPTER"

\* After a logoff nothing is left that would act on the session: no timer of it, and
\* of the helpers only the detection that waits for the adapter to come back.
LogoffIsQuiet ==
  c.pc = "idle" /\ c.state = "LOGOFF" =>
    /\ c.handle \cap {"RECONNECT", "DHCP_IP", "DHCP_TIMEOUT"} = {}
    /\ c.running \subseteq {"nic"}

\* A POSIX timer is armed exactly while its id is held: renewals, re-authentications
\* and address requests that overlap never overwrite the id of a running timer.
TimersOwned ==
  c.pc \notin {"hung", "crashed"} =>
    \A f \in Flags : c.armed[f] = IF f \in c.handle THEN 1 ELSE 0

\* A tick ends a session only while its timer runs: a time-out that was queued before
\* the answer it waited for does not log off a connected client.
SessionEndsForCause ==
  [][c.state = "AUTHENTICATED" /\ c'.state = "LOGOFF" /\ Head(queue).type = "TIMER"
       => Head(queue).arg \in c.handle]_vars

\* Nobody waits for an address in the second step of DHCP authentication: where
\* IsIPOffered asserts that it is not called.
SecondStepHasAddress == "DHCP_IP" \in c.handle => c.dhcp_auth_step # 2

\* A quit, by the user or by a logoff, ends the control thread, whatever the machine
\* and the queues are doing.
QuitEnds == quit = "asked" ~> c.pc = "exited"

\* Waiting for an address comes to an end, though dhclient need not.
DhcpEnds == "DHCP_IP" \in c.handle ~> "DHCP_IP" \notin c.handle
=============================================================================
