------------------------ MODULE ContextControlProofs ------------------------
(***************************************************************************)
(* Proofs about ContextControl.  A handler is a chain of operators from    *)
(* worlds to worlds, so an invariant is stated of a world, kept by every   *)
(* operator, and holds of the world that is there between two handlers.    *)
(* Of an operator a lemma first says what it may do to a world, and only   *)
(* this is used of it afterwards.                                          *)
(***************************************************************************)
EXTENDS ContextControl, TLAPS

-----------------------------------------------------------------------------
(* Types *)

\* What a message carries goes with its type.
Message == {x \in [type : Types, arg : Args, at : Nat] :
              /\ x.type = "CONNECT_NOTIFY" => x.arg \in {"quit", "handshake", "timer"}
              /\ x.type = "ADAPTER" => x.arg \in AdapterMessages}

Worlds ==
  [c : Control, queue : Seq(Message), m : MachineThread,
   sender : Seq({"logoff", "CLOSE_ADAPTER"}), adapter : BOOLEAN,
   quit : {"no", "asked", "notified", "stopped"}]

\* A timer whose id is held is armed, perhaps more than once.
Held(d) == \A f \in d.handle : d.armed[f] > 0

Typed(w) == w \in Worlds /\ Held(w.c)

Now == [c |-> c, queue |-> queue, m |-> m, sender |-> sender, adapter |-> adapter,
        quit |-> quit]

\* A timer is armed exactly while its id is held: the property TimersOwned.
Owned(d) ==
  d.pc \notin {"hung", "crashed"} =>
    \A f \in Flags : d.armed[f] = IF f \in d.handle THEN 1 ELSE 0

-----------------------------------------------------------------------------
(* What the operators do to a world *)

SameRest(w, x) ==
  /\ x.queue = w.queue /\ x.m = w.m /\ x.sender = w.sender
  /\ x.adapter = w.adapter /\ x.quit = w.quit

\* What the control thread believes of the session is not touched.
SameView(d, e) ==
  /\ e.state = d.state /\ e.attempt = d.attempt /\ e.machine_thread = d.machine_thread
  /\ e.reconnect_fail = d.reconnect_fail /\ e.is_ruijie_nas = d.is_ruijie_nas

\* Timers are killed, if the thread does not hang over it, and nothing else happens.
Trims(w, x) ==
  /\ SameRest(w, x) /\ SameView(w.c, x.c)
  /\ x.c.dhcp_auth_step = w.c.dhcp_auth_step /\ x.c.running = w.c.running
  /\ x.c.handle \subseteq w.c.handle
  /\ x.c.pc = w.c.pc \/ (w.c.pc = "idle" /\ x.c.pc = "hung")
  /\ Owned(w.c) => Owned(x.c)

LEMMA Put ==
  ASSUME NEW w, Typed(w), NEW d \in Control, Held(d)
  PROVE  LET x == [w EXCEPT !.c = d] IN Typed(x) /\ x.c = d /\ SameRest(w, x)
  BY DEF Typed, Worlds, SameRest

LEMMA ControlOf == ASSUME NEW w, Typed(w) PROVE w.c \in Control
  BY DEF Typed, Worlds

LEMMA KillTimerTrims ==
  ASSUME NEW w, Typed(w), NEW f \in Flags
  PROVE  LET x == KillTimer(w, f) IN
           /\ Typed(x) /\ Trims(w, x)
           /\ x.c.pc = "idle" => x.c.handle = w.c.handle \ {f}
<1>1. CASE Stuck(w) \/ f \notin w.c.handle
  <2>1. KillTimer(w, f) = w
    BY <1>1 DEF KillTimer
  <2> QED BY <1>1, <2>1 DEF Trims, SameRest, SameView, Stuck
<1>2. CASE ~Stuck(w) /\ f \in w.c.handle /\ w.c.locked
  <2> DEFINE d == [w.c EXCEPT !.pc = "hung"]
  <2>1. KillTimer(w, f) = [w EXCEPT !.c = d]
    BY <1>2 DEF KillTimer
  <2>2. /\ d \in Control /\ Held(d) /\ SameView(w.c, d) /\ d.pc = "hung"
        /\ d.dhcp_auth_step = w.c.dhcp_auth_step /\ d.running = w.c.running
        /\ d.handle = w.c.handle
    BY ControlOf DEF Typed, Control, Held, SameView
  <2> HIDE DEF d
  <2> QED BY <1>2, <2>1, <2>2, Put DEF Trims, Stuck, Owned
<1>3. CASE ~Stuck(w) /\ f \in w.c.handle /\ ~w.c.locked
  <2> DEFINE a == [w.c.armed EXCEPT ![f] = @ - 1]
             d == [w.c EXCEPT !.handle = @ \ {f}, !.armed = a,
                              !.locked = ~Repaired("KillUnlock")]
  <2>1. KillTimer(w, f) = [w EXCEPT !.c = d]
    BY <1>3 DEF KillTimer
  <2>2. w.c \in Control /\ w.c.armed \in [Flags -> Nat] /\ w.c.armed[f] > 0
    BY <1>3, ControlOf DEF Typed, Held, Control
  <2>3. a \in [Flags -> Nat] /\ \A g \in Flags : a[g] = IF g = f THEN w.c.armed[g] - 1
                                                                 ELSE w.c.armed[g]
    BY <2>2
  <2> HIDE DEF a
  <2>4. /\ d \in Control /\ SameView(w.c, d) /\ d.pc = w.c.pc /\ d.armed = a
        /\ d.dhcp_auth_step = w.c.dhcp_auth_step /\ d.running = w.c.running
        /\ d.handle = w.c.handle \ {f}
    <3>1. (~Repaired("KillUnlock")) \in BOOLEAN /\ w.c.handle \ {f} \in SUBSET Flags
      BY <2>2 DEF Control, Repaired
    <3>2. d \in Control
      BY <2>2, <2>3, <3>1 DEF Control
    <3>3. /\ SameView(w.c, d) /\ d.pc = w.c.pc /\ d.armed = a
          /\ d.dhcp_auth_step = w.c.dhcp_auth_step /\ d.running = w.c.running
          /\ d.handle = w.c.handle \ {f}
      BY <2>2 DEF Control, SameView
    <3> QED BY <3>2, <3>3
  <2> HIDE DEF d
  <2>5. w.c.handle \subseteq Flags
    BY <2>2 DEF Control
  <2>6. Held(d)
    BY <2>3, <2>4, <2>5 DEF Held, Typed
  <2>7. Owned(w.c) => Owned(d)
    BY <1>3, <2>2, <2>3, <2>4, <2>5 DEF Owned
  <2> QED BY <2>1, <2>4, <2>6, <2>7, Put DEF Trims
<1> QED BY <1>1, <1>2, <1>3

\* SetTimer holds and arms one more timer; who owned his timers and did not hold this one
\* owns it, too.
Arms(w, x, f) ==
  /\ SameRest(w, x) /\ SameView(w.c, x.c) /\ x.c.pc = w.c.pc
  /\ x.c.dhcp_auth_step = w.c.dhcp_auth_step /\ x.c.running = w.c.running
  /\ x.c.handle = w.c.handle \cup {f}
  /\ Owned(w.c) /\ f \notin w.c.handle => Owned(x.c)

LEMMA SetTimerArms ==
  ASSUME NEW w, Typed(w), NEW f \in Flags, ~Stuck(w)
  PROVE  LET x == SetTimer(w, f) IN Typed(x) /\ Arms(w, x, f)
  <1> DEFINE a == [w.c.armed EXCEPT ![f] = @ + 1]
             g == [w.c.gate EXCEPT ![f] = "open"]
             d == [w.c EXCEPT !.handle = @ \cup {f}, !.armed = a, !.gate = g]
  <1>1. SetTimer(w, f) = [w EXCEPT !.c = d]
    BY DEF SetTimer
  <1>2. w.c \in Control /\ w.c.armed \in [Flags -> Nat]
        /\ w.c.gate \in [Flags -> {"none", "open", "busy"}] /\ w.c.handle \subseteq Flags
    BY ControlOf DEF Control
  <1>3. a \in [Flags -> Nat] /\ \A h \in Flags : a[h] = IF h = f THEN w.c.armed[h] + 1
                                                               ELSE w.c.armed[h]
    BY <1>2
  <1>4. g \in [Flags -> {"none", "open", "busy"}]
    BY <1>2
  <1> HIDE DEF a, g
  <1>5. /\ d \in Control /\ SameView(w.c, d) /\ d.pc = w.c.pc /\ d.armed = a
        /\ d.dhcp_auth_step = w.c.dhcp_auth_step /\ d.running = w.c.running
        /\ d.handle = w.c.handle \cup {f}
    BY <1>2, <1>3, <1>4 DEF Control, SameView
  <1> HIDE DEF d
  <1>6. Held(d)
    BY <1>2, <1>3, <1>5 DEF Held, Typed
  <1>7. Owned(w.c) /\ f \notin w.c.handle => Owned(d)
    BY <1>2, <1>3, <1>5 DEF Owned
  <1> QED BY <1>1, <1>5, <1>6, <1>7, Put DEF Arms

LEMMA TrimsTwice ==
  ASSUME NEW w, NEW x, NEW y, Trims(w, x), Trims(x, y)
  PROVE  Trims(w, y)
  BY DEF Trims, SameRest, SameView

LEMMA CancelBOOTPTrims ==
  ASSUME NEW w, Typed(w)
  PROVE  LET x == CancelBOOTP(w) IN
           /\ Typed(x) /\ Trims(w, x)
           /\ x.c.pc = "idle" => x.c.handle = w.c.handle \ {"DHCP_IP"}
  <1> DEFINE k == KillTimer(w, "DHCP_IP")
             hung == [k.c EXCEPT !.pc = "hung"]
             free == [k.c EXCEPT !.ip_offer_count = 0]
  <1>1. /\ Typed(k) /\ Trims(w, k)
        /\ k.c.pc = "idle" => k.c.handle = w.c.handle \ {"DHCP_IP"}
    BY KillTimerTrims DEF Flags
  <1>2. CancelBOOTP(w) = IF Stuck(k) THEN k
                         ELSE IF "DHCP_IP" \in w.c.handle /\ w.c.drained
                         THEN [k EXCEPT !.c = hung] ELSE [k EXCEPT !.c = free]
    BY DEF CancelBOOTP
  <1>3. k.c \in Control /\ Held(k.c)
    BY <1>1, ControlOf DEF Typed
  <1> HIDE DEF k
  <1>4. /\ hung \in Control /\ Held(hung) /\ SameView(k.c, hung) /\ hung.pc = "hung"
        /\ hung.dhcp_auth_step = k.c.dhcp_auth_step /\ hung.running = k.c.running
        /\ hung.handle = k.c.handle
    BY <1>3 DEF Control, Held, SameView
  <1>5. /\ free \in Control /\ Held(free) /\ SameView(k.c, free) /\ free.pc = k.c.pc
        /\ free.dhcp_auth_step = k.c.dhcp_auth_step /\ free.running = k.c.running
        /\ free.handle = k.c.handle /\ free.armed = k.c.armed
    BY <1>3, ConstantsAssumption DEF Control, Held, SameView
  <1> HIDE DEF hung, free
  <1>6. CASE Stuck(k)
    BY <1>1, <1>2, <1>6
  <1>7. CASE ~Stuck(k) /\ "DHCP_IP" \in w.c.handle /\ w.c.drained
    <2> DEFINE x == [k EXCEPT !.c = hung]
    <2>1. Typed(x) /\ x.c = hung /\ SameRest(k, x)
      BY <1>1, <1>4, Put
    <2>2. Trims(k, x)
      BY <1>4, <1>7, <2>1 DEF Trims, Stuck, Owned
    <2>3. CancelBOOTP(w) = x
      BY <1>2, <1>7
    <2> HIDE DEF x
    <2> QED BY <1>1, <1>4, <2>1, <2>2, <2>3, TrimsTwice
  <1>8. CASE ~Stuck(k) /\ ~("DHCP_IP" \in w.c.handle /\ w.c.drained)
    <2> DEFINE x == [k EXCEPT !.c = free]
    <2>1. Typed(x) /\ x.c = free /\ SameRest(k, x)
      BY <1>1, <1>5, Put
    <2>2. Trims(k, x)
      BY <1>5, <2>1 DEF Trims, Owned
    <2>3. CancelBOOTP(w) = x
      BY <1>2, <1>8
    <2> HIDE DEF x
    <2> QED BY <1>1, <1>5, <2>1, <2>2, <2>3, TrimsTwice
  <1> QED BY <1>6, <1>7, <1>8

\* Fields of the control thread that no invariant reads change.
Notes(w, x) ==
  /\ SameRest(w, x) /\ SameView(w.c, x.c)
  /\ x.c.pc = w.c.pc /\ x.c.handle = w.c.handle /\ x.c.running = w.c.running
  /\ Owned(w.c) => Owned(x.c)

LEMMA GetStepNotes ==
  ASSUME NEW w, Typed(w), ~Stuck(w)
  PROVE  LET x == GetDHCPAuthStep(w) IN
           /\ Typed(x) /\ Notes(w, x)
           /\ x.c.dhcp_auth_step = 2 => w.c.dhcp_auth_step = 2
           /\ x.c.dhcp_auth_step \in 0..2
  <1> DEFINE d == [w.c EXCEPT !.dhcp_auth_step = StepOf(w)]
  <1>1. GetDHCPAuthStep(w) = [w EXCEPT !.c = d]
    BY DEF GetDHCPAuthStep
  <1>2. StepOf(w) \in 0..2 /\ (StepOf(w) = 2 => w.c.dhcp_auth_step = 2)
    BY DEF StepOf
  <1>3. /\ d \in Control /\ SameView(w.c, d) /\ d.dhcp_auth_step = StepOf(w)
        /\ d.pc = w.c.pc /\ d.handle = w.c.handle /\ d.running = w.c.running
        /\ d.armed = w.c.armed
    BY <1>2, ControlOf DEF Control, SameView
  <1> HIDE DEF d
  <1>4. Held(d) /\ (Owned(w.c) => Owned(d))
    BY <1>3 DEF Held, Typed, Owned
  <1> QED BY <1>1, <1>2, <1>3, <1>4, Put DEF Notes

LogoffOrder(k) == [order |-> "LOGOFF", at |-> k]
StartOrder(k) == [order |-> "START", at |-> k]
LastOrder == [order |-> "STOP", at |-> 0]

LEMMA OrdersTyped ==
  ASSUME NEW w, Typed(w), NEW o \in [order : Orders, at : Nat]
  PROVE  LET x == [w EXCEPT !.m.inbox = Append(@, o)] IN
           /\ Typed(x) /\ x.c = w.c /\ x.queue = w.queue /\ x.sender = w.sender
           /\ x.adapter = w.adapter /\ x.quit = w.quit
           /\ x.m.st = w.m.st /\ x.m.at = w.m.at /\ x.m.inbox = Append(w.m.inbox, o)
  <1> DEFINE n == [w.m EXCEPT !.inbox = Append(@, o)]
  <1>1. w.m \in MachineThread /\ w.m.inbox \in Seq([order : Orders, at : Nat])
    BY DEF Typed, Worlds, MachineThread
  <1>2. Append(w.m.inbox, o) \in Seq([order : Orders, at : Nat])
    BY <1>1
  <1>3. /\ n \in MachineThread /\ n.st = w.m.st /\ n.at = w.m.at
        /\ n.inbox = Append(w.m.inbox, o)
    BY <1>1, <1>2 DEF MachineThread
  <1> HIDE DEF n
  <1>4. LET x == [w EXCEPT !.m = n] IN
           /\ Typed(x) /\ x.c = w.c /\ x.queue = w.queue /\ x.sender = w.sender
           /\ x.adapter = w.adapter /\ x.quit = w.quit /\ x.m = n
    BY <1>3 DEF Typed, Worlds
  <1>5. [w EXCEPT !.m.inbox = Append(@, o)] = [w EXCEPT !.m = n]
    BY DEF n
  <1> QED BY <1>3, <1>4, <1>5

\* The machine is told to log off, or is put into LOGOFF.
Told(w, x) ==
  /\ x.m.at = w.m.at
  /\ \/ x.m.st = w.m.st
     \/ x.m.st = "logoff" /\ w.c.machine_thread /\ w.m.st \notin {"idle", "ended"}
  /\ x.m.inbox \in {w.m.inbox, Append(w.m.inbox, LogoffOrder(w.c.attempt))}

LEMMA SendLogOffTells ==
  ASSUME NEW w, Typed(w)
  PROVE  LET x == SendLogOffPacket(w) IN
           /\ Typed(x) /\ Told(w, x) /\ x.c = w.c /\ x.queue = w.queue
           /\ x.sender = w.sender /\ x.adapter = w.adapter /\ x.quit = w.quit
<1>1. CASE Stuck(w) \/ ~w.c.machine_thread
  BY <1>1 DEF SendLogOffPacket, Told
<1>2. CASE ~Stuck(w) /\ w.c.machine_thread /\ IsRuijieNas(w)
  <2> DEFINE o == LogoffOrder(w.c.attempt)
             x == [w EXCEPT !.m.inbox = Append(@, o)]
  <2>1. o \in [order : Orders, at : Nat]
    BY ControlOf DEF LogoffOrder, Orders, Control
  <2>2. SendLogOffPacket(w) = x
    BY <1>2 DEF SendLogOffPacket, LogoffOrder
  <2> HIDE DEF o
  <2>3. /\ Typed(x) /\ x.c = w.c /\ x.queue = w.queue /\ x.sender = w.sender
        /\ x.adapter = w.adapter /\ x.quit = w.quit
        /\ x.m.st = w.m.st /\ x.m.at = w.m.at /\ x.m.inbox = Append(w.m.inbox, o)
    BY <2>1, OrdersTyped
  <2> HIDE DEF x
  <2> QED BY <2>2, <2>3 DEF Told, o
<1>3. CASE ~Stuck(w) /\ w.c.machine_thread /\ ~IsRuijieNas(w)
  <2> DEFINE n == [w.m EXCEPT !.st = IF @ \in {"idle", "ended"} THEN @ ELSE "logoff"]
  <2>1. SendLogOffPacket(w) = [w EXCEPT !.m = n]
    BY <1>3 DEF SendLogOffPacket
  <2>2. w.m \in MachineThread
    BY DEF Typed, Worlds
  <2>3. /\ n \in MachineThread /\ n.at = w.m.at /\ n.inbox = w.m.inbox
        /\ n.st = IF w.m.st \in {"idle", "ended"} THEN w.m.st ELSE "logoff"
    BY <2>2 DEF MachineThread
  <2> HIDE DEF n
  <2>4. LET x == [w EXCEPT !.m = n] IN
           /\ Typed(x) /\ x.c = w.c /\ x.queue = w.queue /\ x.sender = w.sender
           /\ x.adapter = w.adapter /\ x.quit = w.quit /\ x.m = n
    BY <2>3 DEF Typed, Worlds
  <2> QED BY <1>3, <2>1, <2>3, <2>4 DEF Told
<1> QED BY <1>1, <1>2, <1>3

\* Helpers are stopped.
Calms(w, x) ==
  /\ SameRest(w, x) /\ SameView(w.c, x.c)
  /\ x.c.pc = w.c.pc /\ x.c.handle = w.c.handle
  /\ x.c.dhcp_auth_step = w.c.dhcp_auth_step
  /\ x.c.running \subseteq w.c.running
  /\ Owned(w.c) => Owned(x.c)

LEMMA RunningBecomes ==
  ASSUME NEW w, Typed(w), NEW H \in SUBSET Helpers
  PROVE  LET x == [w EXCEPT !.c.running = H] IN
           /\ Typed(x) /\ SameRest(w, x) /\ SameView(w.c, x.c) /\ x.c.pc = w.c.pc
           /\ x.c.handle = w.c.handle /\ x.c.dhcp_auth_step = w.c.dhcp_auth_step
           /\ x.c.running = H /\ (Owned(w.c) => Owned(x.c))
  <1> DEFINE d == [w.c EXCEPT !.running = H]
  <1>1. /\ d \in Control /\ SameView(w.c, d) /\ d.pc = w.c.pc /\ d.armed = w.c.armed
        /\ d.handle = w.c.handle /\ d.dhcp_auth_step = w.c.dhcp_auth_step /\ d.running = H
    BY ControlOf DEF Control, SameView
  <1>2. [w EXCEPT !.c.running = H] = [w EXCEPT !.c = d]
    OBVIOUS
  <1> HIDE DEF d
  <1>3. Held(d) /\ (Owned(w.c) => Owned(d))
    BY <1>1 DEF Held, Typed, Owned
  <1> QED BY <1>1, <1>2, <1>3, Put

LEMMA DeinitCalms ==
  ASSUME NEW w, Typed(w)
  PROVE  LET x == DeinitAll_Success(w) IN
           /\ Typed(x) /\ Calms(w, x)
           /\ ~Stuck(w) => x.c.running \subseteq {"nic"}
<1>1. CASE Stuck(w)
  BY <1>1 DEF DeinitAll_Success, Calms, SameRest, SameView
<1>2. CASE ~Stuck(w)
  <2> DEFINE H == w.c.running \ {"ip", "proxy", "direct", "hello"}
  <2>1. H \in SUBSET Helpers /\ H \subseteq {"nic"} /\ H \subseteq w.c.running
    BY ControlOf DEF Control, Helpers
  <2>2. DeinitAll_Success(w) = [w EXCEPT !.c.running = H]
    BY <1>2 DEF DeinitAll_Success
  <2> HIDE DEF H
  <2> QED BY <2>1, <2>2, RunningBecomes DEF Calms
<1> QED BY <1>1, <1>2

LEMMA StopDetectionsCalms ==
  ASSUME NEW w, Typed(w)
  PROVE  LET x == StopDetections(w) IN Typed(x) /\ Calms(w, x)
  <1> DEFINE H == w.c.running \ {"ip"}
  <1>1. H \in SUBSET Helpers /\ H \subseteq w.c.running
    BY ControlOf DEF Control, Helpers
  <1>2. StopDetections(w) = [w EXCEPT !.c.running = H]
    BY DEF StopDetections
  <1> HIDE DEF H
  <1> QED BY <1>1, <1>2, RunningBecomes DEF Calms
-----------------------------------------------------------------------------
(* The end of a session *)

Joins(w, x) ==
  /\ w.c.machine_thread /\ x.c.pc = "joining"
  /\ x.m.inbox = Append(w.m.inbox, LastOrder)
  /\ x.sender = w.sender /\ x.quit = w.quit

Closes(w, x) ==
  /\ ~w.c.machine_thread /\ x.c.pc = "idle"
  /\ x.m.inbox = w.m.inbox
  /\ x.sender = Append(w.sender, "CLOSE_ADAPTER")
  /\ x.quit = IF w.quit = "no" THEN "asked" ELSE w.quit

\* The machine is told to end and waited for, or there is none.
Exits(w, x) ==
  /\ x.queue = w.queue /\ x.adapter = w.adapter /\ SameView(w.c, x.c)
  /\ x.c.handle = w.c.handle /\ x.c.dhcp_auth_step = w.c.dhcp_auth_step
  /\ x.c.running \subseteq w.c.running
  /\ x.m.st = w.m.st /\ x.m.at = w.m.at
  /\ Owned(w.c) => Owned(x.c)
  /\ Joins(w, x) \/ Closes(w, x)

LEMMA ExitAllExits ==
  ASSUME NEW w, Typed(w), ~Stuck(w)
  PROVE  LET x == DeAuthenticate_ExitAll(w) IN Typed(x) /\ Exits(w, x)
  <1> DEFINE s == StopDetections(w)
  <1>1. Typed(s) /\ Calms(w, s)
    BY StopDetectionsCalms
  <1>2. DeAuthenticate_ExitAll(w) =
          IF w.c.machine_thread
          THEN [s EXCEPT !.c.pc = "joining", !.m.inbox = Append(@, LastOrder)]
          ELSE CloseAndQuit(s)
    BY DEF DeAuthenticate_ExitAll, LastOrder
  <1> HIDE DEF s
  <1>3. CASE w.c.machine_thread
    <2> DEFINE d == [s.c EXCEPT !.pc = "joining"]
               y == [s EXCEPT !.c = d]
               x == [y EXCEPT !.m.inbox = Append(@, LastOrder)]
    <2>1. /\ d \in Control /\ SameView(s.c, d) /\ d.pc = "joining" /\ d.armed = s.c.armed
          /\ d.handle = s.c.handle /\ d.dhcp_auth_step = s.c.dhcp_auth_step
          /\ d.running = s.c.running
      BY <1>1, ControlOf DEF Control, SameView
    <2>2. Held(d) /\ (Owned(s.c) => Owned(d))
      <3>1. s.c.pc = "idle"
        BY <1>1 DEF Calms, Stuck
      <3> HIDE DEF d
      <3> QED BY <1>1, <2>1, <3>1 DEF Held, Typed, Owned
    <2>3. DeAuthenticate_ExitAll(w) = x
      BY <1>2, <1>3
    <2> HIDE DEF d
    <2>4. Typed(y) /\ y.c = d /\ SameRest(s, y)
      BY <1>1, <2>1, <2>2, Put
    <2>5. LastOrder \in [order : Orders, at : Nat]
      BY DEF LastOrder, Orders
    <2> HIDE DEF y
    <2>6. /\ Typed(x) /\ x.c = y.c /\ x.queue = y.queue /\ x.sender = y.sender
          /\ x.adapter = y.adapter /\ x.quit = y.quit
          /\ x.m.st = y.m.st /\ x.m.at = y.m.at /\ x.m.inbox = Append(y.m.inbox, LastOrder)
      BY <2>4, <2>5, OrdersTyped
    <2> HIDE DEF x
    <2>7. Joins(w, x)
      BY <1>1, <1>3, <2>1, <2>4, <2>6 DEF Joins, SameRest, Calms
    <2>8. Exits(w, x)
      BY <1>1, <2>1, <2>2, <2>4, <2>6, <2>7 DEF Exits, SameRest, SameView, Calms
    <2> QED BY <2>3, <2>6, <2>8
  <1>4. CASE ~w.c.machine_thread
    <2> DEFINE b == Append(s.sender, "CLOSE_ADAPTER")
               z == IF s.quit = "no" THEN "asked" ELSE s.quit
               x == [s EXCEPT !.sender = b, !.quit = z]
    <2>1. b \in Seq({"logoff", "CLOSE_ADAPTER"})
      BY <1>1 DEF Typed, Worlds
    <2>2. z \in {"no", "asked", "notified", "stopped"}
      BY <1>1 DEF Typed, Worlds
    <2>3. DeAuthenticate_ExitAll(w) = x
      BY <1>2, <1>4 DEF CloseAndQuit
    <2>4. /\ Typed(x) /\ x.c = s.c /\ x.m = s.m /\ x.queue = s.queue
          /\ x.adapter = s.adapter /\ x.sender = b /\ x.quit = z
      <3> HIDE DEF b, z
      <3> QED BY <1>1, <2>1, <2>2 DEF Typed, Worlds
    <2> HIDE DEF x
    <2>5. Closes(w, x)
      BY <1>1, <1>4, <2>4 DEF Closes, SameRest, Calms, Stuck
    <2>6. Exits(w, x)
      BY <1>1, <2>4, <2>5 DEF Exits, SameRest, SameView, Calms
    <2> QED BY <2>3, <2>4, <2>6
  <1> QED BY <1>3, <1>4

\* After a logoff nothing acts on the session: the property LogoffIsQuiet, and the same
\* while the machine is waited for.
Quiet(d) ==
  d.pc \in {"idle", "joining"} /\ d.state = "LOGOFF" =>
    /\ d.handle \cap {"RECONNECT", "DHCP_IP", "DHCP_TIMEOUT"} = {}
    /\ d.running \subseteq {"nic"}

\* StopAuthentication, when the client is not logged off already.
Ends(w, x, quits) ==
  /\ x.queue = w.queue /\ x.adapter = w.adapter
  /\ x.c.state = "LOGOFF" /\ x.c.attempt = w.c.attempt
  /\ x.c.machine_thread = w.c.machine_thread /\ x.c.reconnect_fail = w.c.reconnect_fail
  /\ x.c.dhcp_auth_step = w.c.dhcp_auth_step
  /\ x.c.handle \subseteq w.c.handle
  /\ Quiet(x.c)
  /\ Owned(w.c) => Owned(x.c)
  /\ \E t : /\ Told(w, t) /\ x.m.st = t.m.st /\ x.m.at = t.m.at
            /\ t.sender = w.sender /\ t.quit = w.quit
            /\ \/ quits /\ (Joins(t, x) \/ Closes(t, x)) /\ t.c.machine_thread = w.c.machine_thread
               \/ x.c.pc \in {"idle", "hung"} /\ (quits => x.c.pc = "hung")
                  /\ x.m.inbox = t.m.inbox /\ x.sender = w.sender /\ x.quit = w.quit

LEMMA ToLogoff ==
  ASSUME NEW w, Typed(w)
  PROVE  LET x == [w EXCEPT !.c.state = "LOGOFF"] IN
           /\ Typed(x) /\ SameRest(w, x) /\ x.c.pc = w.c.pc /\ x.c.handle = w.c.handle
           /\ x.c.state = "LOGOFF" /\ x.c.attempt = w.c.attempt
           /\ x.c.machine_thread = w.c.machine_thread
           /\ x.c.reconnect_fail = w.c.reconnect_fail
           /\ x.c.dhcp_auth_step = w.c.dhcp_auth_step
           /\ Owned(w.c) => Owned(x.c)
  <1> DEFINE d == [w.c EXCEPT !.state = "LOGOFF"]
  <1>1. /\ d \in Control /\ d.pc = w.c.pc /\ d.armed = w.c.armed /\ d.handle = w.c.handle
        /\ d.state = "LOGOFF" /\ d.attempt = w.c.attempt
        /\ d.machine_thread = w.c.machine_thread /\ d.reconnect_fail = w.c.reconnect_fail
        /\ d.dhcp_auth_step = w.c.dhcp_auth_step
    BY ControlOf DEF Control
  <1>2. [w EXCEPT !.c.state = "LOGOFF"] = [w EXCEPT !.c = d]
    OBVIOUS
  <1> HIDE DEF d
  <1>3. Held(d) /\ (Owned(w.c) => Owned(d))
    BY <1>1 DEF Held, Typed, Owned
  <1> DEFINE x == [w EXCEPT !.c = d]
  <1>4. Typed(x) /\ x.c = d /\ SameRest(w, x)
    BY <1>1, <1>3, Put
  <1> HIDE DEF x
  <1>5. [w EXCEPT !.c.state = "LOGOFF"] = x
    BY <1>2 DEF x
  <1> QED BY <1>1, <1>3, <1>4, <1>5

LEMMA StopEnds ==
  ASSUME NEW w, Typed(w), ~Stuck(w), NEW quits \in BOOLEAN, NEW tells \in BOOLEAN
  PROVE  LET x == StopAuthentication(w, quits, tells) IN
           /\ Typed(x)
           /\ IF LoggedOff(w, quits) THEN x = w ELSE Ends(w, x, quits)
<1>1. CASE LoggedOff(w, quits)
  BY <1>1 DEF StopAuthentication
<1>2. CASE ~LoggedOff(w, quits)
  <2> DEFINE o == [w EXCEPT !.c.state = "LOGOFF"]
             k == CancelWaitDHCPAuthResultTimer(o)
             off == CancelBOOTP(k)
             told == IF tells THEN SendLogOffPacket(off) ELSE off
             calm == IF quits /\ Repaired("Backoff") THEN KillTimer(told, "REAUTH") ELSE told
             n == DeinitAll_Success(calm)
             done == KillTimer(n, "RECONNECT")
             x == IF quits THEN DeAuthenticate_ExitAll(done) ELSE done
  <2>1. StopAuthentication(w, quits, tells) = x
    BY <1>2 DEF StopAuthentication
  <2>2. /\ Typed(o) /\ SameRest(w, o) /\ o.c.pc = "idle" /\ o.c.handle = w.c.handle
        /\ o.c.state = "LOGOFF" /\ o.c.attempt = w.c.attempt
        /\ o.c.machine_thread = w.c.machine_thread
        /\ o.c.reconnect_fail = w.c.reconnect_fail
        /\ o.c.dhcp_auth_step = w.c.dhcp_auth_step
        /\ Owned(w.c) => Owned(o.c)
    BY ToLogoff DEF Stuck
  <2> HIDE DEF o
  <2>3. /\ Typed(k) /\ Trims(o, k)
        /\ k.c.pc = "idle" => k.c.handle = o.c.handle \ {"DHCP_TIMEOUT"}
    BY <2>2, KillTimerTrims DEF CancelWaitDHCPAuthResultTimer, Flags
  <2> HIDE DEF k
  <2>4. /\ Typed(off) /\ Trims(k, off)
        /\ off.c.pc = "idle" => off.c.handle = k.c.handle \ {"DHCP_IP"}
    BY <2>3, CancelBOOTPTrims
  <2> HIDE DEF off
  <2>5. Trims(o, off)
    BY <2>3, <2>4, TrimsTwice
  <2>6. /\ Typed(told) /\ Told(off, told) /\ told.c = off.c /\ told.queue = off.queue
        /\ told.sender = off.sender /\ told.adapter = off.adapter /\ told.quit = off.quit
    <3>1. Told(off, off)
      BY DEF Told
    <3> QED BY <2>4, <3>1, SendLogOffTells
  <2> HIDE DEF told
  <2>7. Typed(calm) /\ Trims(told, calm)
    <3>1. Trims(told, told)
      BY DEF Trims, SameRest, SameView
    <3> QED BY <2>6, <3>1, KillTimerTrims DEF Flags
  <2> HIDE DEF calm
  <2>8. Typed(n) /\ Calms(calm, n) /\ (~Stuck(calm) => n.c.running \subseteq {"nic"})
    BY <2>7, DeinitCalms
  <2> HIDE DEF n
  <2>9. /\ Typed(done) /\ Trims(n, done)
        /\ done.c.pc = "idle" => done.c.handle = n.c.handle \ {"RECONNECT"}
    BY <2>8, KillTimerTrims DEF Flags
  <2> HIDE DEF done
  <2>10. Told(w, told)
    BY <2>2, <2>5, <2>6 DEF Told, Trims, SameRest, SameView
  <2>11. /\ done.queue = w.queue /\ done.adapter = w.adapter
         /\ done.sender = w.sender /\ done.quit = w.quit /\ done.m = told.m
         /\ told.sender = w.sender /\ told.quit = w.quit
    BY <2>2, <2>5, <2>6, <2>7, <2>8, <2>9 DEF Trims, Calms, SameRest
  <2>12. /\ done.c.state = "LOGOFF" /\ done.c.attempt = w.c.attempt
         /\ done.c.machine_thread = w.c.machine_thread
         /\ told.c.machine_thread = w.c.machine_thread
         /\ done.c.reconnect_fail = w.c.reconnect_fail
         /\ done.c.dhcp_auth_step = w.c.dhcp_auth_step
    BY <2>2, <2>5, <2>6, <2>7, <2>8, <2>9 DEF Trims, Calms, SameView
  <2>13. done.c.handle \subseteq w.c.handle
    BY <2>2, <2>5, <2>6, <2>7, <2>8, <2>9 DEF Trims, Calms
  <2>14. Owned(w.c) => Owned(done.c)
    BY <2>2, <2>5, <2>6, <2>7, <2>8, <2>9 DEF Trims, Calms
  <2>15. done.c.pc \in {"idle", "hung"}
    BY <2>2, <2>5, <2>6, <2>7, <2>8, <2>9 DEF Trims, Calms
  <2>16. ASSUME done.c.pc = "idle"
         PROVE  /\ done.c.handle \cap {"RECONNECT", "DHCP_IP", "DHCP_TIMEOUT"} = {}
                /\ done.c.running \subseteq {"nic"}
    <3>1. n.c.pc = "idle" /\ calm.c.pc = "idle" /\ told.c.pc = "idle" /\ off.c.pc = "idle"
      BY <2>2, <2>4, <2>5, <2>6, <2>7, <2>8, <2>9, <2>16 DEF Trims, Calms
    <3>2. k.c.pc = "idle"
      BY <2>4, <3>1 DEF Trims
    <3>3. off.c.handle \cap {"DHCP_IP", "DHCP_TIMEOUT"} = {}
      BY <2>3, <2>4, <3>1, <3>2
    <3>4. done.c.handle = n.c.handle \ {"RECONNECT"} /\ n.c.handle \subseteq off.c.handle
      BY <2>6, <2>7, <2>8, <2>9, <2>16 DEF Trims, Calms
    <3> QED BY <2>8, <2>9, <3>1, <3>3, <3>4 DEF Stuck, Trims
  <2>17. CASE ~quits \/ done.c.pc = "hung"
    <3>1. x = done
      BY <2>17 DEF DeAuthenticate_ExitAll, Stuck
    <3>2. Quiet(done.c)
      BY <2>15, <2>16 DEF Quiet
    <3>3. Ends(w, done, quits)
      <4>1. /\ Told(w, told) /\ done.m.st = told.m.st /\ done.m.at = told.m.at
            /\ told.sender = w.sender /\ told.quit = w.quit
            /\ done.c.pc \in {"idle", "hung"} /\ (quits => done.c.pc = "hung")
            /\ done.m.inbox = told.m.inbox /\ done.sender = w.sender /\ done.quit = w.quit
        BY <2>10, <2>11, <2>15, <2>17
      <4> QED BY <2>11, <2>12, <2>13, <2>14, <3>2, <4>1 DEF Ends
    <3> HIDE DEF x
    <3> QED BY <1>2, <2>1, <2>9, <3>1, <3>3
  <2>18. CASE quits /\ done.c.pc = "idle"
    <3>1. Typed(x) /\ Exits(done, x)
      BY <2>9, <2>18, ExitAllExits DEF Stuck
    <3> HIDE DEF x
    <3>2. Quiet(x.c)
      BY <2>16, <2>18, <3>1 DEF Quiet, Exits
    <3>3. /\ Told(w, told) /\ x.m.st = told.m.st /\ x.m.at = told.m.at
          /\ told.sender = w.sender /\ told.quit = w.quit
          /\ told.c.machine_thread = w.c.machine_thread
      BY <2>10, <2>11, <2>12, <3>1 DEF Exits
    <3>4. Joins(told, x) \/ Closes(told, x)
      BY <2>11, <2>12, <3>1 DEF Exits, Joins, Closes
    <3>5. Ends(w, x, quits)
      BY <2>11, <2>12, <2>13, <2>14, <2>18, <3>1, <3>2, <3>3, <3>4 DEF Ends, Exits, SameView
    <3> QED BY <1>2, <2>1, <3>1, <3>5
  <2> QED BY <2>15, <2>17, <2>18
<1> QED BY <1>1, <1>2
-----------------------------------------------------------------------------
(* The beginning of a session *)

LEMMA Noted ==
  ASSUME NEW w, Typed(w), NEW d \in Control, SameView(w.c, d), d.pc = w.c.pc,
         d.handle = w.c.handle, d.running = w.c.running, d.armed = w.c.armed
  PROVE  LET x == [w EXCEPT !.c = d] IN Typed(x) /\ x.c = d /\ Notes(w, x)
<1>1. Held(d) /\ (Owned(w.c) => Owned(d))
  BY DEF Held, Typed, Owned
<1> QED BY <1>1, Put DEF Notes

LEMMA ForgetTrims ==
  ASSUME NEW w, Typed(w)
  PROVE  LET x == ForgetOldAttempt(w) IN
           /\ Typed(x) /\ Trims(w, x)
           /\ Repaired("StaleTick") /\ x.c.pc = "idle"
                => x.c.handle \cap {"DHCP_IP", "DHCP_TIMEOUT"} = {}
  <1> DEFINE k == CancelWaitDHCPAuthResultTimer(w)
             t == IF Repaired("StaleTick") THEN CancelBOOTP(k) ELSE w
             x == IF Repaired("Backoff") THEN KillTimer(t, "REAUTH") ELSE t
  <1>1. ForgetOldAttempt(w) = x
    BY DEF ForgetOldAttempt
  <1>2. /\ Typed(k) /\ Trims(w, k)
        /\ k.c.pc = "idle" => k.c.handle = w.c.handle \ {"DHCP_TIMEOUT"}
    BY KillTimerTrims DEF CancelWaitDHCPAuthResultTimer, Flags
  <1> HIDE DEF k
  <1>3. Trims(w, w)
    BY DEF Trims, SameRest, SameView
  <1>4. /\ Typed(t) /\ Trims(w, t)
        /\ Repaired("StaleTick") /\ t.c.pc = "idle"
             => t.c.handle \cap {"DHCP_IP", "DHCP_TIMEOUT"} = {}
    <2>1. CASE ~Repaired("StaleTick")
      BY <1>3, <2>1
    <2>2. CASE Repaired("StaleTick")
      <3> DEFINE u == CancelBOOTP(k)
      <3>1. /\ Typed(u) /\ Trims(k, u)
            /\ u.c.pc = "idle" => u.c.handle = k.c.handle \ {"DHCP_IP"}
        BY <1>2, CancelBOOTPTrims
      <3>2. t = u
        BY <2>2
      <3> HIDE DEF u, t
      <3>3. Trims(w, u)
        BY <1>2, <3>1, TrimsTwice
      <3>4. u.c.pc = "idle" => k.c.pc = "idle"
        BY <3>1 DEF Trims
      <3> QED BY <1>2, <3>1, <3>2, <3>3, <3>4
    <2> QED BY <2>1, <2>2
  <1> HIDE DEF t
  <1>5. /\ Typed(x) /\ Trims(t, x)
    <2>1. Trims(t, t)
      BY DEF Trims, SameRest, SameView
    <2> QED BY <1>4, <2>1, KillTimerTrims DEF Flags
  <1> HIDE DEF x
  <1>6. Trims(w, x)
    BY <1>4, <1>5, TrimsTwice
  <1>7. x.c.handle \subseteq t.c.handle /\ (x.c.pc = "idle" => t.c.pc = "idle")
    BY <1>5 DEF Trims
  <1> QED BY <1>1, <1>4, <1>5, <1>6, <1>7

\* No attempt is begun: it cannot be, or the thread hangs or crashes over it.
Declines(w, x) ==
  /\ x.m = w.m /\ x.c.state = w.c.state /\ x.c.attempt = w.c.attempt
  /\ \/ x.c.pc = w.c.pc
     \/ w.c.pc = "idle" /\ x.c.pc = "hung"
     \/ /\ w.c.pc = "idle" /\ x.c.pc = "crashed"
        /\ ~w.c.machine_thread /\ ~Repaired("NullMachine")

\* The machine is sent a START that is newer than any.
Attempts(w, x) ==
  /\ x.c.pc = "idle" /\ w.c.pc = "idle" /\ w.c.machine_thread
  /\ x.c.state = "AUTHENTICATING" /\ x.c.attempt = w.c.attempt + 1
  /\ x.m.st = w.m.st /\ x.m.at = w.m.at
  /\ x.m.inbox = Append(w.m.inbox, StartOrder(w.c.attempt + 1))
  /\ Repaired("StaleTick") => x.c.handle \cap {"DHCP_IP", "DHCP_TIMEOUT"} = {}

Starts(w, x) ==
  /\ x.queue = w.queue /\ x.sender = w.sender /\ x.adapter = w.adapter /\ x.quit = w.quit
  /\ x.c.machine_thread = w.c.machine_thread /\ x.c.reconnect_fail = w.c.reconnect_fail
  /\ x.c.running = w.c.running /\ x.c.handle \subseteq w.c.handle
  /\ x.c.dhcp_auth_step = 2 => w.c.dhcp_auth_step = 2
  /\ Owned(w.c) => Owned(x.c)
  /\ Declines(w, x) \/ Attempts(w, x)

LEMMA StartStarts ==
  ASSUME NEW w, Typed(w), NEW informed \in BOOLEAN
  PROVE  LET x == StartStateMachine(w, informed) IN
           /\ Typed(x) /\ Starts(w, x)
           /\ informed /\ w.c.machine_thread /\ ~Stuck(w)
                => Attempts(w, x) \/ x.c.pc = "hung"
<1>1. CASE Stuck(w)
  <2>1. StartStateMachine(w, informed) = w
    BY <1>1 DEF StartStateMachine
  <2> QED BY <1>1, <2>1 DEF Starts, Declines
<1>2. CASE ~Stuck(w)
  <2> DEFINE a == [w.c EXCEPT !.logoff_message = FALSE, !.ip_offer_count = 0]
             v == [w EXCEPT !.c.logoff_message = FALSE, !.c.ip_offer_count = 0]
             g == GetDHCPAuthStep(v)
             s == ForgetOldAttempt(g)
             n == w.c.attempt + 1
             crash == [g.c EXCEPT !.pc = "crashed"]
             d == [s.c EXCEPT !.state = "AUTHENTICATING", !.attempt = n]
             y == [s EXCEPT !.c = d]
             x == [s EXCEPT !.c.state = "AUTHENTICATING", !.c.attempt = n,
                            !.m.inbox = Append(@, [order |-> "START", at |-> n])]
             out == StartStateMachine(w, informed)
  <2>1. out = IF g.c.dhcp_auth_step # 2 /\ ~informed THEN g
              ELSE IF ~w.c.machine_thread
              THEN IF Repaired("NullMachine") THEN g ELSE [g EXCEPT !.c.pc = "crashed"]
              ELSE IF Stuck(s) THEN s ELSE x
    BY <1>2 DEF StartStateMachine
  <2> HIDE DEF out
  <2>2. /\ a \in Control /\ SameView(w.c, a) /\ a.pc = w.c.pc /\ a.handle = w.c.handle
        /\ a.running = w.c.running /\ a.armed = w.c.armed
        /\ a.dhcp_auth_step = w.c.dhcp_auth_step
    <3>1. w.c \in Control /\ 0 \in 0..OfferLimit + 1
      BY ControlOf, ConstantsAssumption
    <3>2. a \in Control
      BY <3>1 DEF Control
    <3> QED BY <3>1 DEF Control, SameView
  <2>3. Typed(v) /\ v.c = a /\ Notes(w, v)
    <3>1. v = [w EXCEPT !.c = a]
      OBVIOUS
    <3> HIDE DEF a, v
    <3> QED BY <2>2, <3>1, Noted
  <2> HIDE DEF a
  <2> HIDE DEF v
  <2>4. ~Stuck(v)
    BY <1>2, <2>3 DEF Stuck, Notes
  <2>5. /\ Typed(g) /\ Notes(v, g)
        /\ g.c.dhcp_auth_step = 2 => w.c.dhcp_auth_step = 2
    BY <2>2, <2>3, <2>4, GetStepNotes
  <2> HIDE DEF g
  <2>6. Notes(w, g)
    BY <2>3, <2>5 DEF Notes, SameRest, SameView
  <2>7. /\ Typed(s) /\ Trims(g, s)
        /\ Repaired("StaleTick") /\ s.c.pc = "idle"
             => s.c.handle \cap {"DHCP_IP", "DHCP_TIMEOUT"} = {}
    BY <2>5, ForgetTrims
  <2> HIDE DEF s
  <2>8. Typed(g) /\ Starts(w, g)
    BY <2>5, <2>6 DEF Starts, Declines, Notes, SameRest, SameView
  <2>9. Typed(s) /\ Starts(w, s)
    BY <1>2, <2>5, <2>6, <2>7 DEF Starts, Declines, Notes, Trims, SameRest, SameView, Stuck
  <2>10. ASSUME ~w.c.machine_thread, ~Repaired("NullMachine"), NEW z,
                z = [g EXCEPT !.c.pc = "crashed"]
         PROVE  Typed(z) /\ Starts(w, z)
    <3>0. z = [g EXCEPT !.c = crash]
      BY <2>10
    <3>1. /\ crash \in Control /\ SameView(g.c, crash) /\ crash.pc = "crashed"
          /\ crash.handle = g.c.handle /\ crash.running = g.c.running
          /\ crash.armed = g.c.armed /\ crash.dhcp_auth_step = g.c.dhcp_auth_step
      BY <2>5, ControlOf DEF Control, SameView
    <3> HIDE DEF crash
    <3>2. Held(crash) /\ Owned(crash)
      BY <2>5, <3>1 DEF Held, Typed, Owned
    <3>3. Typed(z) /\ z.c = crash /\ SameRest(g, z)
      BY <2>5, <3>0, <3>1, <3>2, Put
    <3> QED BY <1>2, <2>5, <2>6, <2>10, <3>1, <3>2, <3>3
            DEF Starts, Declines, Notes, SameRest, SameView, Stuck
  <2>11. ASSUME w.c.machine_thread, ~Stuck(s)
         PROVE  Typed(x) /\ Starts(w, x) /\ Attempts(w, x)
    <3>1. n \in Nat /\ s.c.pc = "idle" /\ w.c.pc = "idle"
      BY <1>2, <2>11, ControlOf DEF Control, Stuck
    <3>0. x = [y EXCEPT !.m.inbox = Append(@, StartOrder(n))]
      BY DEF StartOrder
    <3> HIDE DEF n, x
    <3>2. /\ d \in Control /\ d.state = "AUTHENTICATING" /\ d.attempt = n
          /\ d.pc = s.c.pc /\ d.handle = s.c.handle /\ d.running = s.c.running
          /\ d.armed = s.c.armed /\ d.dhcp_auth_step = s.c.dhcp_auth_step
          /\ d.machine_thread = s.c.machine_thread
          /\ d.reconnect_fail = s.c.reconnect_fail
      <4>1. s.c \in Control
        BY <2>7, ControlOf
      <4>2. d \in Control
        BY <3>1, <4>1 DEF Control
      <4> QED BY <4>1, <4>2 DEF Control
    <3> HIDE DEF d
    <3>3. Held(d) /\ (Owned(s.c) => Owned(d))
      BY <2>7, <3>2 DEF Held, Typed, Owned
    <3>4. Typed(y) /\ y.c = d /\ SameRest(s, y)
      BY <2>7, <3>2, <3>3, Put
    <3>5. StartOrder(n) \in [order : Orders, at : Nat]
      BY <3>1 DEF StartOrder, Orders
    <3> HIDE DEF y
    <3>6. /\ Typed(x) /\ x.c = y.c /\ x.queue = y.queue /\ x.sender = y.sender
          /\ x.adapter = y.adapter /\ x.quit = y.quit
          /\ x.m.st = y.m.st /\ x.m.at = y.m.at
          /\ x.m.inbox = Append(y.m.inbox, StartOrder(n))
      BY <3>0, <3>4, <3>5, OrdersTyped
    <3>7. Attempts(w, x)
      BY <2>6, <2>7, <2>11, <3>1, <3>2, <3>4, <3>6 DEF Attempts, Notes, Trims, SameRest, n
    <3> QED BY <2>5, <2>6, <2>7, <3>2, <3>3, <3>4, <3>6, <3>7
            DEF Starts, Notes, Trims, SameRest, SameView
  <2> HIDE DEF x, crash, d, y, n
  <2>12. Typed(out) /\ Starts(w, out)
    BY <2>1, <2>8, <2>9, <2>10, <2>11
  <2>13. informed /\ w.c.machine_thread => Attempts(w, out) \/ out.c.pc = "hung"
    <3>1. Stuck(s) => s.c.pc = "hung"
      BY <1>2, <2>6, <2>7 DEF Notes, Trims, Stuck
    <3> QED BY <2>1, <2>11, <3>1
  <2> QED BY <2>12, <2>13 DEF out
<1> QED BY <1>1, <1>2

\* The session is opened; the control thread may tell itself to see to the renewals.
Opens(w, x) ==
  /\ x.sender = w.sender /\ x.adapter = w.adapter /\ x.quit = w.quit /\ x.m = w.m
  /\ x.c.state = "AUTHENTICATED" /\ x.c.attempt = w.c.attempt /\ x.c.pc = w.c.pc
  /\ x.c.machine_thread = w.c.machine_thread /\ x.c.reconnect_fail = w.c.reconnect_fail
  /\ x.c.handle = w.c.handle /\ x.c.dhcp_auth_step = w.c.dhcp_auth_step
  /\ Owned(w.c) => Owned(x.c)
  /\ x.queue \in {w.queue, Append(w.queue, Msg("CONNECT_NOTIFY", "timer", w.c.attempt))}

LEMMA DoForOpens ==
  ASSUME NEW w, Typed(w), ~Stuck(w), NEW wanted \in SUBSET Helpers, NEW renew \in BOOLEAN
  PROVE  LET x == DoForSTATE_AUTHENTICATED(w, wanted, renew) IN Typed(x) /\ Opens(w, x)
  <1> DEFINE H == w.c.running \cup {"direct", "ip", "nic"} \cup wanted
             d == [w.c EXCEPT !.state = "AUTHENTICATED", !.running = H, !.nic_up = TRUE]
             y == [w EXCEPT !.c = d]
             note == Msg("CONNECT_NOTIFY", "timer", w.c.attempt)
             q == IF IsRuijieNas(w) \/ renew THEN Append(w.queue, note) ELSE w.queue
             x == [y EXCEPT !.queue = q]
  <1>1. H \in SUBSET Helpers
    BY ControlOf DEF Control, Helpers
  <1>2. DoForSTATE_AUTHENTICATED(w, wanted, renew) = x
    BY DEF DoForSTATE_AUTHENTICATED
  <1> HIDE DEF H
  <1>3. /\ d \in Control /\ d.state = "AUTHENTICATED" /\ d.attempt = w.c.attempt
        /\ d.pc = w.c.pc /\ d.machine_thread = w.c.machine_thread
        /\ d.reconnect_fail = w.c.reconnect_fail /\ d.handle = w.c.handle
        /\ d.dhcp_auth_step = w.c.dhcp_auth_step /\ d.armed = w.c.armed
    <2>1. w.c \in Control
      BY ControlOf
    <2>2. d \in Control
      BY <1>1, <2>1 DEF Control
    <2> QED BY <2>1, <2>2 DEF Control
  <1> HIDE DEF d
  <1>4. Held(d) /\ (Owned(w.c) => Owned(d))
    BY <1>3 DEF Held, Typed, Owned
  <1>5. Typed(y) /\ y.c = d /\ SameRest(w, y)
    BY <1>3, <1>4, Put
  <1> HIDE DEF y
  <1>6. note \in Message
    BY ControlOf DEF Control, Message, Msg, Types, Args
  <1>7. q \in Seq(Message)
    BY <1>6 DEF Typed, Worlds
  <1>8. q \in {w.queue, Append(w.queue, note)}
    OBVIOUS
  <1> HIDE DEF q
  <1>9. /\ Typed(x) /\ x.c = y.c /\ x.m = y.m /\ x.sender = y.sender
        /\ x.adapter = y.adapter /\ x.quit = y.quit /\ x.queue = q
    BY <1>5, <1>7 DEF Typed, Worlds
  <1> HIDE DEF x
  <1> QED BY <1>2, <1>3, <1>4, <1>5, <1>8, <1>9 DEF Opens, SameRest
-----------------------------------------------------------------------------
(* The invariant, of a world *)

\* The second step of DHCP authentication has its address: the property
\* SecondStepHasAddress.
Stepped(d) == "DHCP_IP" \in d.handle => d.dhcp_auth_step # 2

Runs(n) == n.st \notin {"none", "ended"}

\* The pointer to the machine is not null while there is one; it is told to end only by
\* who then waits for it.
Machined(w) ==
  /\ w.c.pc \in {"idle", "exited"} => (w.c.machine_thread <=> Runs(w.m))
  /\ w.c.pc = "joining" => w.c.machine_thread /\ w.c.state = "LOGOFF" /\ w.m.st # "none"
  /\ \A i \in DOMAIN w.m.inbox : w.m.inbox[i].order = "STOP" => w.c.pc = "joining" /\ Runs(w.m)

\* While the machine runs nobody has closed its adapter or ordered it; with the second
\* part, the property LogoffPrecedesClose, this holds of the frames it has left.
Closing(w) ==
  /\ Runs(w.m) => w.adapter /\ \A i \in DOMAIN w.sender : w.sender[i] # "CLOSE_ADAPTER"
  /\ \A i \in DOMAIN w.sender : w.sender[i] = "logoff" =>
       w.adapter /\ \A j \in 1..i : w.sender[j] # "CLOSE_ADAPTER"

\* The STARTs that wait are of newer attempts, one after the other.
StartsOrdered(n, k) ==
  \A i \in DOMAIN n.inbox : n.inbox[i].order = "START" =>
    /\ n.at < n.inbox[i].at /\ n.inbox[i].at <= k
    /\ \A j \in 1..(i - 1) : n.inbox[j].order = "START" => n.inbox[j].at < n.inbox[i].at

\* A report of success that is believed is true, or of a machine that gave up.
Truthful(x, d, n) ==
  x.type = "RETURN" /\ x.arg = "AUTHENTICATED" =>
    /\ x.at <= d.attempt
    /\ x.at = d.attempt =>
         \/ heard = d.attempt
         \/ d.reconnect_fail /\ n.at = d.attempt /\ n.st \in {"logoff", "ended"}

\* The session, and the search for its address, are of the attempt that succeeded last.
Session(w) ==
  /\ heard \in Nat /\ heard <= w.m.at /\ w.m.at <= w.c.attempt
  /\ w.c.state = "AUTHENTICATED" => heard = w.c.attempt
  /\ w.c.handle \cap {"DHCP_IP", "DHCP_TIMEOUT"} # {} => heard = w.c.attempt
  /\ StartsOrdered(w.m, w.c.attempt)
  /\ \A i \in DOMAIN w.queue : Truthful(w.queue[i], w.c, w.m)

\* A session or an attempt has a machine, and before the first attempt there is nothing.
Lives(w) ==
  /\ w.c.pc # "crashed"
  /\ w.c.pc = "idle" /\ w.c.state \in {"AUTHENTICATING", "AUTHENTICATED"}
       => w.c.machine_thread
  /\ w.c.pc = "idle" /\ w.c.state = "INVALID" =>
       /\ w.m.st = "none" /\ w.c.handle \cap {"DHCP_IP", "DHCP_TIMEOUT"} = {}
       /\ \A i \in DOMAIN w.queue : w.queue[i].type # "RETURN"

OwnRepairs == {"Backoff", "BootpTwice"} \subseteq Repairs
QuietRepairs == "StaleReport" \in Repairs
SessionRepairs == {"StaleReport", "StaleTick", "FailText"} \subseteq Repairs
LifeRepairs == {"StaleReport", "NullMachine", "NullText"} \subseteq Repairs

Good(w) ==
  /\ Typed(w) /\ Stepped(w.c) /\ Machined(w) /\ Closing(w)
  /\ OwnRepairs => Owned(w.c)
  /\ QuietRepairs => Quiet(w.c)
  /\ SessionRepairs => Session(w)
  /\ LifeRepairs => Lives(w)

-----------------------------------------------------------------------------
(* The operators keep it *)

LEMMA Fields ==
  ASSUME NEW w, Typed(w)
  PROVE  /\ w.c.attempt \in Nat /\ w.m.at \in Nat /\ w.c.handle \subseteq Flags
         /\ w.c.machine_thread \in BOOLEAN /\ w.c.reconnect_fail \in BOOLEAN
         /\ w.c.state \in {"INVALID", "AUTHENTICATING", "AUTHENTICATED", "LOGOFF"}
         /\ w.c.pc \in {"idle", "joining", "hung", "crashed", "exited"}
         /\ w.m.inbox \in Seq([order : Orders, at : Nat]) /\ w.queue \in Seq(Message)
         /\ w.sender \in Seq({"logoff", "CLOSE_ADAPTER"}) /\ w.adapter \in BOOLEAN
  BY DEF Typed, Worlds, Control, MachineThread

LEMMA TrimsGood ==
  ASSUME NEW w, NEW x, Good(w), Typed(x), Trims(w, x)
  PROVE  Good(x)
<1>1. Stepped(x.c)
  BY DEF Good, Stepped, Trims
<1>2. Machined(x) /\ Closing(x)
  BY DEF Good, Machined, Closing, Trims, SameRest, SameView
<1>3. OwnRepairs => Owned(x.c)
  BY DEF Good, Trims
<1>4. QuietRepairs => Quiet(x.c)
  BY DEF Good, Quiet, Trims, SameView
<1>5. SessionRepairs => Session(x)
  BY DEF Good, Session, Trims, SameRest, SameView, Truthful
<1>6. LifeRepairs => Lives(x)
  BY DEF Good, Lives, Trims, SameRest, SameView
<1> QED BY <1>1, <1>2, <1>3, <1>4, <1>5, <1>6 DEF Good

LEMMA NotesGood ==
  ASSUME NEW w, NEW x, Good(w), Typed(x), Notes(w, x), Stepped(x.c)
  PROVE  Good(x)
<1>1. Machined(x) /\ Closing(x)
  BY DEF Good, Machined, Closing, Notes, SameRest, SameView
<1>2. OwnRepairs => Owned(x.c)
  BY DEF Good, Notes
<1>3. QuietRepairs => Quiet(x.c)
  BY DEF Good, Quiet, Notes, SameView
<1>4. SessionRepairs => Session(x)
  BY DEF Good, Session, Notes, SameRest, SameView, Truthful
<1>5. LifeRepairs => Lives(x)
  BY DEF Good, Lives, Notes, SameRest, SameView
<1> QED BY <1>1, <1>2, <1>3, <1>4, <1>5 DEF Good

LEMMA CalmsGood ==
  ASSUME NEW w, NEW x, Good(w), Typed(x), Calms(w, x)
  PROVE  Good(x)
<1>1. Stepped(x.c) /\ Machined(x) /\ Closing(x)
  BY DEF Good, Stepped, Machined, Closing, Calms, SameRest, SameView
<1>2. OwnRepairs => Owned(x.c)
  BY DEF Good, Calms
<1>3. QuietRepairs => Quiet(x.c)
  BY DEF Good, Quiet, Calms, SameView
<1>4. SessionRepairs => Session(x)
  BY DEF Good, Session, Calms, SameRest, SameView, Truthful
<1>5. LifeRepairs => Lives(x)
  BY DEF Good, Lives, Calms, SameRest, SameView
<1> QED BY <1>1, <1>2, <1>3, <1>4, <1>5 DEF Good

LEMMA ElementOf == ASSUME NEW S, NEW s \in Seq(S), NEW i \in DOMAIN s PROVE s[i] \in S
  OBVIOUS

LEMMA AppendOf ==
  ASSUME NEW S, NEW s \in Seq(S), NEW e \in S PROVE Append(s, e) \in Seq(S)
  OBVIOUS

\* An order is put last into the machine's inbox.
Adds(n, b, o) == b.inbox = Append(n.inbox, o) /\ b.at = n.at

LEMMA InboxAppended ==
  ASSUME NEW n \in MachineThread, NEW b, NEW o \in [order : Orders, at : Nat],
         Adds(n, b, o), NEW k \in Nat
  PROVE  /\ o.order # "STOP" /\ (\A i \in DOMAIN n.inbox : n.inbox[i].order # "STOP")
              => \A i \in DOMAIN b.inbox : b.inbox[i].order # "STOP"
         /\ o.order # "START" /\ StartsOrdered(n, k) => StartsOrdered(b, k)
         /\ o.order = "START" /\ o.at = k + 1 /\ n.at <= k /\ StartsOrdered(n, k)
              => StartsOrdered(b, k + 1)
<1>1. /\ n.inbox \in Seq([order : Orders, at : Nat]) /\ n.at \in Nat
      /\ b.inbox = Append(n.inbox, o) /\ b.at = n.at
  BY DEF MachineThread, Adds
<1>2. /\ DOMAIN b.inbox = 1..(Len(n.inbox) + 1) /\ DOMAIN n.inbox = 1..Len(n.inbox)
      /\ Len(n.inbox) \in Nat
      /\ \A i \in DOMAIN b.inbox : b.inbox[i] = IF i = Len(n.inbox) + 1 THEN o ELSE n.inbox[i]
  BY <1>1
<1>3. \A i \in DOMAIN n.inbox : n.inbox[i].at \in Nat
  <2>1. \A i \in DOMAIN n.inbox : n.inbox[i] \in [order : Orders, at : Nat]
    BY <1>1, ElementOf
  <2> QED BY <2>1
<1>4. ASSUME o.order # "START", StartsOrdered(n, k)
      PROVE  StartsOrdered(b, k)
  <2> SUFFICES ASSUME NEW i \in DOMAIN b.inbox, b.inbox[i].order = "START"
               PROVE  /\ b.at < b.inbox[i].at /\ b.inbox[i].at <= k
                      /\ \A j \in 1..(i - 1) : b.inbox[j].order = "START"
                           => b.inbox[j].at < b.inbox[i].at
    BY DEF StartsOrdered
  <2>1. i \in DOMAIN n.inbox /\ b.inbox[i] = n.inbox[i]
    BY <1>2, <1>4
  <2>2. \A j \in 1..(i - 1) : j \in DOMAIN b.inbox /\ b.inbox[j] = n.inbox[j]
    BY <1>2, <2>1
  <2> QED BY <1>1, <1>4, <2>1, <2>2 DEF StartsOrdered
<1>5. ASSUME o.order = "START", o.at = k + 1, n.at <= k, StartsOrdered(n, k)
      PROVE  StartsOrdered(b, k + 1)
  <2> SUFFICES ASSUME NEW i \in DOMAIN b.inbox, b.inbox[i].order = "START"
               PROVE  /\ b.at < b.inbox[i].at /\ b.inbox[i].at <= k + 1
                      /\ \A j \in 1..(i - 1) : b.inbox[j].order = "START"
                           => b.inbox[j].at < b.inbox[i].at
    BY DEF StartsOrdered
  <2>1. CASE i = Len(n.inbox) + 1
    <3>1. b.inbox[i].at = k + 1
      BY <1>2, <1>5, <2>1
    <3>2. \A j \in 1..(i - 1) : j \in DOMAIN n.inbox /\ b.inbox[j] = n.inbox[j]
      BY <1>2, <2>1
    <3>3. \A j \in 1..(i - 1) : b.inbox[j].order = "START" => b.inbox[j].at <= k
      BY <1>5, <3>2 DEF StartsOrdered
    <3>4. \A j \in 1..(i - 1) : b.inbox[j].at \in Nat
      BY <1>3, <3>2
    <3>5. b.at < b.inbox[i].at /\ b.inbox[i].at <= k + 1
      BY <1>1, <1>5, <3>1
    <3>6. \A j \in 1..(i - 1) : b.inbox[j].order = "START" => b.inbox[j].at < k + 1
      BY <3>3, <3>4
    <3> QED BY <3>1, <3>5, <3>6
  <2>2. CASE i # Len(n.inbox) + 1
    <3>1. i \in DOMAIN n.inbox /\ b.inbox[i] = n.inbox[i]
      BY <1>2, <2>2
    <3>2. \A j \in 1..(i - 1) : j \in DOMAIN b.inbox /\ b.inbox[j] = n.inbox[j]
      BY <1>2, <3>1
    <3>3. b.inbox[i].at \in Nat
      BY <1>3, <3>1
    <3>4. b.at < b.inbox[i].at /\ b.inbox[i].at <= k
      BY <1>1, <1>5, <3>1 DEF StartsOrdered
    <3>5. \A j \in 1..(i - 1) : b.inbox[j].order = "START" => b.inbox[j].at < b.inbox[i].at
      <4>1. n.inbox[i].order = "START"
        BY <2>2, <3>1
      <4>2. \A j \in 1..(i - 1) : n.inbox[j].order = "START" => n.inbox[j].at < n.inbox[i].at
        BY <1>5, <3>1, <4>1 DEF StartsOrdered
      <4> QED BY <3>1, <3>2, <4>2
    <3>6. b.inbox[i].at <= k + 1
      BY <3>3, <3>4
    <3> QED BY <3>4, <3>5, <3>6
  <2> QED BY <2>1, <2>2
<1> QED BY <1>2, <1>4, <1>5
LEMMA TellsGood ==
  ASSUME NEW w, Good(w)
  PROVE  Good(SendLogOffPacket(w))
  <1> DEFINE x == SendLogOffPacket(w)
             o == LogoffOrder(w.c.attempt)
  <1>1. CASE Stuck(w)
    BY <1>1 DEF SendLogOffPacket
  <1>2. CASE ~Stuck(w)
    <2>1. /\ Typed(x) /\ Told(w, x) /\ x.c = w.c /\ x.queue = w.queue
          /\ x.sender = w.sender /\ x.adapter = w.adapter /\ x.quit = w.quit
      BY SendLogOffTells DEF Good
    <2> HIDE DEF x
    <2>2. /\ Runs(x.m) <=> Runs(w.m)
          /\ x.m.st = "none" <=> w.m.st = "none"
          /\ w.m.st \in {"logoff", "ended"} => x.m.st \in {"logoff", "ended"}
      BY <1>2, <2>1 DEF Good, Machined, Told, Runs, Stuck
    <2>3. /\ w.c.attempt \in Nat /\ w.m \in MachineThread
          /\ o \in [order : Orders, at : Nat] /\ o.order = "LOGOFF"
      BY Fields DEF Good, Typed, Worlds, LogoffOrder, Orders
    <2>4. /\ \A i \in DOMAIN w.m.inbox : w.m.inbox[i].order # "STOP"
          /\ x.m.at = w.m.at
      BY <1>2, <2>1 DEF Good, Machined, Stuck, Told
    <2>5. /\ \A i \in DOMAIN x.m.inbox : x.m.inbox[i].order # "STOP"
          /\ StartsOrdered(w.m, w.c.attempt) => StartsOrdered(x.m, x.c.attempt)
      <3>1. CASE x.m.inbox = w.m.inbox
        BY <2>1, <2>4, <3>1 DEF StartsOrdered
      <3>2. CASE x.m.inbox = Append(w.m.inbox, o)
        <4> HIDE DEF o
        <4>1. Adds(w.m, x.m, o)
          BY <2>4, <3>2 DEF Adds
        <4> QED BY <2>1, <2>3, <2>4, <4>1, InboxAppended
      <3> QED BY <2>1, <3>1, <3>2 DEF Told
    <2>6. Stepped(x.c) /\ Machined(x) /\ Closing(x)
      BY <1>2, <2>1, <2>2, <2>5 DEF Good, Stepped, Machined, Closing, Stuck
    <2>7. SessionRepairs => Session(x)
      BY <2>1, <2>2, <2>4, <2>5 DEF Good, Session, Truthful
    <2>8. LifeRepairs => Lives(x)
      BY <2>1, <2>2 DEF Good, Lives
    <2> QED BY <2>1, <2>6, <2>7, <2>8 DEF Good, x
  <1> QED BY <1>1, <1>2

LEMMA SenderAppended ==
  ASSUME NEW w, Typed(w), NEW x, Closing(w), ~Runs(x.m), x.adapter = w.adapter,
         x.sender = Append(w.sender, "CLOSE_ADAPTER")
  PROVE  Closing(x)
<1>1. w.sender \in Seq({"logoff", "CLOSE_ADAPTER"})
  BY Fields
<1>2. /\ DOMAIN x.sender = 1..(Len(w.sender) + 1) /\ DOMAIN w.sender = 1..Len(w.sender)
      /\ Len(w.sender) \in Nat
      /\ \A i \in DOMAIN x.sender :
           x.sender[i] = IF i = Len(w.sender) + 1 THEN "CLOSE_ADAPTER" ELSE w.sender[i]
  BY <1>1
<1>3. ASSUME NEW i \in DOMAIN x.sender, x.sender[i] = "logoff"
      PROVE  x.adapter /\ \A j \in 1..i : x.sender[j] # "CLOSE_ADAPTER"
  <2>1. i \in DOMAIN w.sender /\ w.sender[i] = "logoff"
    BY <1>2, <1>3
  <2>2. \A j \in 1..i : j \in DOMAIN w.sender /\ x.sender[j] = w.sender[j]
    BY <1>2, <2>1
  <2> QED BY <2>1, <2>2 DEF Closing
<1> QED BY <1>3 DEF Closing

LEMMA EndsGood ==
  ASSUME NEW w, NEW x, NEW quits \in BOOLEAN, Good(w), ~Stuck(w), Typed(x), Ends(w, x, quits)
  PROVE  Good(x)
<1>1. PICK t : /\ Told(w, t) /\ x.m.st = t.m.st /\ x.m.at = t.m.at
               /\ t.sender = w.sender /\ t.quit = w.quit
               /\ \/ quits /\ (Joins(t, x) \/ Closes(t, x))
                     /\ t.c.machine_thread = w.c.machine_thread
                  \/ x.c.pc \in {"idle", "hung"} /\ (quits => x.c.pc = "hung")
                     /\ x.m.inbox = t.m.inbox /\ x.sender = w.sender /\ x.quit = w.quit
  BY DEF Ends
<1>2. /\ x.queue = w.queue /\ x.adapter = w.adapter
      /\ x.c.state = "LOGOFF" /\ x.c.attempt = w.c.attempt
      /\ x.c.machine_thread = w.c.machine_thread /\ x.c.reconnect_fail = w.c.reconnect_fail
      /\ x.c.dhcp_auth_step = w.c.dhcp_auth_step
      /\ x.c.handle \subseteq w.c.handle
      /\ Quiet(x.c)
      /\ Owned(w.c) => Owned(x.c)
  BY DEF Ends
<1>3. /\ Runs(x.m) <=> Runs(w.m)
      /\ x.m.st = "none" <=> w.m.st = "none"
      /\ w.m.st \in {"logoff", "ended"} => x.m.st \in {"logoff", "ended"}
      /\ x.m.at = w.m.at
  BY <1>1 DEF Good, Machined, Told, Runs, Stuck
<1>4. /\ w.c.attempt \in Nat /\ w.m \in MachineThread /\ x.m \in MachineThread
      /\ LogoffOrder(w.c.attempt) \in [order : Orders, at : Nat]
      /\ LogoffOrder(w.c.attempt).order = "LOGOFF"
      /\ LastOrder \in [order : Orders, at : Nat] /\ LastOrder.order = "STOP"
  BY Fields DEF Good, Typed, Worlds, LogoffOrder, LastOrder, Orders
<1>5. \A i \in DOMAIN w.m.inbox : w.m.inbox[i].order # "STOP"
  BY DEF Good, Machined, Stuck
<1> DEFINE b == [w.m EXCEPT !.inbox = t.m.inbox]
<1>6. t.m.inbox \in Seq([order : Orders, at : Nat])
  <2>1. w.m.inbox \in Seq([order : Orders, at : Nat])
    BY Fields DEF Good
  <2>2. Append(w.m.inbox, LogoffOrder(w.c.attempt)) \in Seq([order : Orders, at : Nat])
    BY <1>4, <2>1, AppendOf
  <2> QED BY <1>1, <2>1, <2>2 DEF Told
<1>7. /\ b \in MachineThread /\ b.inbox = t.m.inbox /\ b.at = w.m.at
  BY <1>4, <1>6 DEF MachineThread
<1> HIDE DEF b
<1>8. /\ \A i \in DOMAIN b.inbox : b.inbox[i].order # "STOP"
      /\ StartsOrdered(w.m, w.c.attempt) => StartsOrdered(b, w.c.attempt)
  <2>1. CASE b.inbox = w.m.inbox
    BY <1>5, <1>7, <2>1 DEF StartsOrdered
  <2>2. CASE b.inbox = Append(w.m.inbox, LogoffOrder(w.c.attempt))
    <3>1. Adds(w.m, b, LogoffOrder(w.c.attempt))
      BY <1>7, <2>2 DEF Adds
    <3> QED BY <1>4, <1>5, <3>1, InboxAppended
  <2> QED BY <1>1, <1>7, <2>1, <2>2 DEF Told
<1>9. /\ x.c.pc # "joining" => \A i \in DOMAIN x.m.inbox : x.m.inbox[i].order # "STOP"
      /\ StartsOrdered(w.m, w.c.attempt) => StartsOrdered(x.m, w.c.attempt)
  <2>1. CASE x.m.inbox = b.inbox
    BY <1>3, <1>7, <1>8, <2>1 DEF StartsOrdered
  <2>2. CASE Joins(t, x)
    <3>1. x.m.inbox = Append(b.inbox, LastOrder) /\ x.c.pc = "joining"
      BY <1>7, <2>2 DEF Joins
    <3>2. Adds(b, x.m, LastOrder)
      BY <1>3, <1>7, <3>1 DEF Adds
    <3> QED BY <1>4, <1>7, <1>8, <3>1, <3>2, InboxAppended
  <2> QED BY <1>1, <1>7, <2>1, <2>2 DEF Closes
<1>10. x.c.pc \in {"idle", "joining", "hung"} /\ (x.c.pc = "joining" => w.c.machine_thread)
  BY <1>1 DEF Joins, Closes
<1>11. w.c.machine_thread <=> Runs(w.m)
  BY DEF Good, Machined, Stuck
<1>12. Machined(x)
  BY <1>2, <1>3, <1>9, <1>10, <1>11 DEF Machined, Runs
<1>13. Closing(x)
  <2>1. CASE x.sender = w.sender
    BY <1>2, <1>3, <2>1 DEF Good, Closing
  <2>2. CASE Closes(t, x) /\ t.c.machine_thread = w.c.machine_thread
    BY <1>1, <1>2, <1>3, <1>11, <2>2, SenderAppended DEF Good, Closes
  <2> QED BY <1>1, <2>1, <2>2 DEF Joins
<1>14. Stepped(x.c)
  BY <1>2 DEF Good, Stepped
<1>15. SessionRepairs => Session(x)
  BY <1>2, <1>3, <1>9 DEF Good, Session, Truthful
<1>16. LifeRepairs => Lives(x)
  BY <1>2, <1>10 DEF Lives
<1> QED BY <1>2, <1>12, <1>13, <1>14, <1>15, <1>16 DEF Good

LEMMA StopGood ==
  ASSUME NEW w, Good(w), NEW quits \in BOOLEAN, NEW tells \in BOOLEAN
  PROVE  Good(StopAuthentication(w, quits, tells))
<1>1. CASE Stuck(w)
  BY <1>1 DEF StopAuthentication
<1>2. CASE ~Stuck(w)
  BY <1>2, StopEnds, EndsGood DEF Good
<1> QED BY <1>1, <1>2

\* When the machine has just been created, Lives is not true again before its START.
Sound(w) ==
  /\ Typed(w) /\ Stepped(w.c) /\ Machined(w) /\ Closing(w)
  /\ OwnRepairs => Owned(w.c)
  /\ QuietRepairs => Quiet(w.c)
  /\ SessionRepairs => Session(w)

LEMMA StartsSound ==
  ASSUME NEW w, NEW x, Sound(w), Typed(x), Starts(w, x),
         LifeRepairs => Lives(w) \/ Attempts(w, x) \/ x.c.pc = "hung"
  PROVE  Good(x)
<1>1. Stepped(x.c)
  BY DEF Sound, Stepped, Starts
<1>2. OwnRepairs => Owned(x.c)
  BY DEF Sound, Starts
<1>3. CASE Declines(w, x)
  <2>0. /\ x.m = w.m /\ x.c.state = w.c.state /\ x.sender = w.sender
        /\ x.adapter = w.adapter /\ x.c.machine_thread = w.c.machine_thread
        /\ x.c.pc \in {w.c.pc, "hung", "crashed"}
    BY <1>3 DEF Starts, Declines
  <2>1. Machined(x) /\ Closing(x)
    <3>1. ASSUME NEW i \in DOMAIN x.m.inbox, x.m.inbox[i].order = "STOP"
          PROVE  x.c.pc = "joining"
      <4>1. w.c.pc = "joining"
        BY <2>0, <3>1 DEF Sound, Machined
      <4> QED BY <1>3, <4>1 DEF Declines, Starts
    <3> QED BY <2>0, <3>1 DEF Sound, Machined, Closing
  <2>2. QuietRepairs => Quiet(x.c)
    BY <1>3 DEF Sound, Quiet, Starts, Declines
  <2>3. SessionRepairs => Session(x)
    BY <1>3 DEF Sound, Session, Truthful, Starts, Declines
  <2>4. ASSUME LifeRepairs PROVE Lives(x)
    <3>1. CASE Lives(w)
      BY <1>3, <2>4, <3>1 DEF Lives, Starts, Declines, LifeRepairs, Repaired
    <3>2. CASE Attempts(w, x)
      BY <2>0, <3>2 DEF Lives, Attempts
    <3>3. CASE x.c.pc = "hung"
      BY <3>3 DEF Lives
    <3> QED BY <2>4, <3>1, <3>2, <3>3
  <2> QED BY <1>1, <1>2, <2>1, <2>2, <2>3, <2>4 DEF Good
<1>4. CASE Attempts(w, x)
  <2> DEFINE k == w.c.attempt
  <2>1. /\ k \in Nat /\ w.m \in MachineThread /\ StartOrder(k + 1) \in [order : Orders, at : Nat]
        /\ StartOrder(k + 1).order = "START" /\ StartOrder(k + 1).at = k + 1
    BY Fields DEF Sound, Typed, Worlds, StartOrder, Orders
  <2>2. x.m.inbox = Append(w.m.inbox, StartOrder(k + 1)) /\ x.m.at = w.m.at /\ x.m.st = w.m.st
    BY <1>4 DEF Attempts
  <2>3. /\ x.c.attempt = k + 1 /\ x.c.state = "AUTHENTICATING" /\ x.c.pc = "idle"
        /\ w.c.pc = "idle" /\ w.c.machine_thread
    BY <1>4 DEF Attempts
  <2>0. Adds(w.m, x.m, StartOrder(k + 1))
    BY <2>2 DEF Adds
  <2> HIDE DEF k
  <2>4. \A i \in DOMAIN x.m.inbox : x.m.inbox[i].order # "STOP"
    BY <2>0, <2>1, <2>3, InboxAppended DEF Sound, Machined
  <2>5. w.m.at <= k /\ StartsOrdered(w.m, k) => StartsOrdered(x.m, k + 1)
    BY <2>0, <2>1, InboxAppended
  <2>6. Machined(x) /\ Closing(x)
    BY <2>2, <2>3, <2>4 DEF Sound, Machined, Closing, Starts, Runs
  <2>7. QuietRepairs => Quiet(x.c)
    BY <2>3 DEF Quiet
  <2>8. ASSUME SessionRepairs PROVE Session(x)
    <3>1. /\ heard \in Nat /\ heard <= w.m.at /\ w.m.at <= k /\ StartsOrdered(w.m, k)
          /\ \A i \in DOMAIN w.queue : Truthful(w.queue[i], w.c, w.m)
      BY <2>8 DEF Sound, Session, k
    <3>2. x.c.handle \cap {"DHCP_IP", "DHCP_TIMEOUT"} = {}
      BY <1>4, <2>8 DEF Attempts, SessionRepairs, Repaired
    <3>3. w.m.at \in Nat /\ w.queue \in Seq(Message) /\ x.queue = w.queue
      BY Fields DEF Sound, Starts
    <3>4. ASSUME NEW i \in DOMAIN w.queue PROVE Truthful(w.queue[i], x.c, x.m)
      <4>1. w.queue[i].at \in Nat
        <5>1. w.queue[i] \in Message
          BY <3>3
        <5> QED BY <5>1 DEF Message
      <4> QED BY <2>1, <2>3, <3>1, <4>1 DEF Truthful, k
    <3> QED BY <2>1, <2>2, <2>3, <2>5, <3>1, <3>2, <3>3, <3>4 DEF Session
  <2>9. LifeRepairs => Lives(x)
    BY <2>3 DEF Lives, Starts
  <2> QED BY <1>1, <1>2, <2>6, <2>7, <2>8, <2>9 DEF Good
<1> QED BY <1>3, <1>4 DEF Starts

LEMMA StartsGood ==
  ASSUME NEW w, NEW x, Good(w), Typed(x), Starts(w, x)
  PROVE  Good(x)
  BY StartsSound DEF Good, Sound

LEMMA StartGood ==
  ASSUME NEW w, Good(w), NEW informed \in BOOLEAN
  PROVE  Good(StartStateMachine(w, informed))
BY StartStarts, StartsGood DEF Good
\* The handler leaves its message queue, and the machine it knows, as they are.
Carries(w, x) ==
  /\ x.c.machine_thread = w.c.machine_thread /\ x.queue = w.queue
  /\ x.quit \in {w.quit, "asked"}
  /\ x.c.pc = "exited" => w.c.pc = "exited"

Keeps(w, x) == Good(x) /\ Carries(w, x)

LEMMA KeepsTwice ==
  ASSUME NEW w, NEW x, NEW y, Keeps(w, x), Keeps(x, y)
  PROVE  Keeps(w, y)
  BY DEF Keeps, Carries

LEMMA KillKeeps ==
  ASSUME NEW w, Good(w), NEW f \in Flags
  PROVE  Keeps(w, KillTimer(w, f))
  <1>1. Typed(KillTimer(w, f)) /\ Trims(w, KillTimer(w, f))
    BY KillTimerTrims DEF Good
  <1> QED BY <1>1, TrimsGood DEF Keeps, Carries, Trims, SameRest, SameView

LEMMA NotesKeep ==
  ASSUME NEW w, NEW x, Good(w), Typed(x), Notes(w, x), Stepped(x.c)
  PROVE  Keeps(w, x)
  BY NotesGood DEF Keeps, Carries, Notes, SameRest, SameView

LEMMA GetStepKeeps ==
  ASSUME NEW w, Good(w), ~Stuck(w)
  PROVE  LET x == GetDHCPAuthStep(w) IN Keeps(w, x) /\ Notes(w, x)
  <1> DEFINE x == GetDHCPAuthStep(w)
  <1>1. /\ Typed(x) /\ Notes(w, x)
        /\ x.c.dhcp_auth_step = 2 => w.c.dhcp_auth_step = 2
    BY GetStepNotes DEF Good
  <1> HIDE DEF x
  <1>2. Stepped(x.c)
    BY <1>1 DEF Good, Stepped, Notes
  <1> QED BY <1>1, <1>2, NotesKeep DEF x

LEMMA DeinitKeeps ==
  ASSUME NEW w, Good(w)
  PROVE  LET x == DeinitAll_Success(w) IN Keeps(w, x) /\ Calms(w, x)
  <1> DEFINE x == DeinitAll_Success(w)
  <1>1. Typed(x) /\ Calms(w, x)
    BY DeinitCalms DEF Good
  <1> HIDE DEF x
  <1> QED BY <1>1, CalmsGood DEF Keeps, Carries, Calms, SameRest, SameView, x

LEMMA TellsKeep ==
  ASSUME NEW w, Good(w)
  PROVE  Keeps(w, SendLogOffPacket(w))
  <1>1. LET x == SendLogOffPacket(w) IN x.c = w.c /\ x.queue = w.queue /\ x.quit = w.quit
    BY SendLogOffTells DEF Good
  <1> QED BY <1>1, TellsGood DEF Keeps, Carries

LEMMA StopKeeps ==
  ASSUME NEW w, Good(w), NEW quits \in BOOLEAN, NEW tells \in BOOLEAN
  PROVE  Keeps(w, StopAuthentication(w, quits, tells))
  <1> DEFINE x == StopAuthentication(w, quits, tells)
  <1>1. CASE Stuck(w)
    BY <1>1, StopGood DEF StopAuthentication, Keeps, Carries
  <1>2. CASE ~Stuck(w)
    <2>1. x = w \/ Ends(w, x, quits)
      BY <1>2, StopEnds DEF Good
    <2>2. Good(x)
      BY StopGood
    <2> HIDE DEF x
    <2>3. Ends(w, x, quits) => x.quit \in {w.quit, "asked"} /\ x.c.pc # "exited"
      BY DEF Ends, Joins, Closes
    <2>4. Carries(w, x)
      BY <2>1, <2>3 DEF Carries, Ends
    <2> QED BY <2>2, <2>4 DEF Keeps, x
  <1> QED BY <1>1, <1>2

LEMMA StartKeeps ==
  ASSUME NEW w, Good(w), NEW informed \in BOOLEAN
  PROVE  Keeps(w, StartStateMachine(w, informed))
  <1> DEFINE x == StartStateMachine(w, informed)
  <1>1. Starts(w, x)
    BY StartStarts DEF Good
  <1>2. Good(x)
    BY StartGood
  <1> HIDE DEF x
  <1>3. x.c.pc = "exited" => w.c.pc = "exited"
    BY <1>1 DEF Starts, Declines, Attempts
  <1> QED BY <1>1, <1>2, <1>3 DEF Keeps, Carries, Starts, x

LEMMA RestartKeeps ==
  ASSUME NEW w, Good(w), NEW informed \in BOOLEAN
  PROVE  Keeps(w, Restart(w, informed))
  <1> DEFINE t == IF IsRuijieNas(w) THEN w ELSE SendLogOffPacket(w)
  <1>1. Keeps(w, t)
    BY TellsKeep DEF Keeps, Carries
  <1>2. Restart(w, informed) = StartStateMachine(t, informed)
    BY DEF Restart
  <1> HIDE DEF t
  <1>3. Keeps(t, StartStateMachine(t, informed))
    BY <1>1, StartKeeps DEF Keeps
  <1> QED BY <1>1, <1>2, <1>3, KeepsTwice

\* A timer is set: that of a periodic restart, or in a session or the search for its
\* address.
LEMMA ArmsKeeps ==
  ASSUME NEW w, NEW x, NEW f \in Flags, Good(w), Typed(x), Arms(w, x, f),
         OwnRepairs => f \notin w.c.handle,
         QuietRepairs => f = "REAUTH" \/ w.c.state # "LOGOFF",
         SessionRepairs /\ f \in {"DHCP_IP", "DHCP_TIMEOUT"} => heard = w.c.attempt,
         LifeRepairs /\ f \in {"DHCP_IP", "DHCP_TIMEOUT"} => w.c.state # "INVALID",
         f = "DHCP_IP" => w.c.dhcp_auth_step # 2
  PROVE  Keeps(w, x)
<1>1. Stepped(x.c)
  BY DEF Good, Stepped, Arms
<1>2. Machined(x) /\ Closing(x)
  BY DEF Good, Machined, Closing, Arms, SameRest, SameView
<1>3. OwnRepairs => Owned(x.c)
  BY DEF Good, Arms
<1>4. QuietRepairs => Quiet(x.c)
  BY DEF Good, Quiet, Arms, SameView
<1>5. SessionRepairs => Session(x)
  BY DEF Good, Session, Arms, SameRest, SameView, Truthful
<1>6. LifeRepairs => Lives(x)
  BY DEF Good, Lives, Arms, SameRest, SameView
<1> QED BY <1>1, <1>2, <1>3, <1>4, <1>5, <1>6
        DEF Good, Keeps, Carries, Arms, SameRest, SameView

LEMMA OpensGood ==
  ASSUME NEW w, NEW x, Good(w), Typed(x), Opens(w, x), ~Stuck(w),
         SessionRepairs => heard = w.c.attempt, LifeRepairs => w.c.machine_thread
  PROVE  Good(x)
<1>1. Stepped(x.c)
  BY DEF Good, Stepped, Opens
<1>2. Machined(x) /\ Closing(x)
  BY DEF Good, Machined, Closing, Opens, Stuck
<1>3. OwnRepairs => Owned(x.c)
  BY DEF Good, Opens
<1>4. QuietRepairs => Quiet(x.c)
  BY DEF Quiet, Opens
<1>5. SessionRepairs => Session(x)
  <2> DEFINE note == Msg("CONNECT_NOTIFY", "timer", w.c.attempt)
  <2> SUFFICES ASSUME SessionRepairs PROVE Session(x)
    OBVIOUS
  <2>1. w.queue \in Seq(Message)
    BY Fields DEF Good
  <2>2. note.type # "RETURN"
    BY DEF Msg
  <2> HIDE DEF note
  <2>3. x.m = w.m /\ x.c.attempt = w.c.attempt /\ x.c.reconnect_fail = w.c.reconnect_fail
    BY DEF Opens
  <2>4. \A i \in DOMAIN w.queue : Truthful(w.queue[i], x.c, x.m)
    BY <2>3 DEF Good, Session, Truthful
  <2>5. Truthful(note, x.c, x.m)
    BY <2>2 DEF Truthful
  <2>6. \A i \in DOMAIN x.queue : x.queue[i] = note \/ (i \in DOMAIN w.queue /\ x.queue[i] = w.queue[i])
    BY <2>1 DEF Opens, note
  <2>7. \A i \in DOMAIN x.queue : Truthful(x.queue[i], x.c, x.m)
    BY <2>4, <2>5, <2>6
  <2> QED BY <2>3, <2>7 DEF Good, Session, Opens, StartsOrdered
<1>6. LifeRepairs => Lives(x)
  BY DEF Lives, Opens, Stuck
<1> QED BY <1>1, <1>2, <1>3, <1>4, <1>5, <1>6 DEF Good
-----------------------------------------------------------------------------
(* The search for an address *)

\* Where a session is being made or held.
Busy(w) ==
  /\ QuietRepairs => w.c.state # "LOGOFF"
  /\ SessionRepairs => heard = w.c.attempt
  /\ LifeRepairs => w.c.state # "INVALID"

LEMMA BusySearch ==
  ASSUME NEW w, Good(w), ~Stuck(w), w.c.handle \cap {"DHCP_IP", "DHCP_TIMEOUT"} # {}
  PROVE  Busy(w)
  BY DEF Good, Quiet, Session, Lives, Busy, Stuck

LEMMA RenewKeeps ==
  ASSUME NEW w, Good(w), QuietRepairs => w.c.state # "LOGOFF"
  PROVE  Keeps(w, Renew(w))
  <1> DEFINE k == KillTimer(w, "RECONNECT")
             x == SetTimer(k, "RECONNECT")
  <1>1. /\ Keeps(w, k) /\ Typed(k) /\ Trims(w, k)
        /\ k.c.pc = "idle" => k.c.handle = w.c.handle \ {"RECONNECT"}
    BY KillKeeps, KillTimerTrims DEF Good, Flags
  <1>2. Renew(w) = x
    BY DEF Renew
  <1> HIDE DEF k
  <1>3. CASE Stuck(k)
    BY <1>1, <1>2, <1>3 DEF SetTimer
  <1>4. CASE ~Stuck(k)
    <2>1. Typed(x) /\ Arms(k, x, "RECONNECT")
      BY <1>1, <1>4, SetTimerArms DEF Flags
    <2>2. "RECONNECT" \notin k.c.handle /\ k.c.state = w.c.state /\ "RECONNECT" \in Flags
      BY <1>1, <1>4 DEF Stuck, Trims, SameView, Flags
    <2> HIDE DEF x
    <2>3. Keeps(k, x)
      BY <1>1, <2>1, <2>2, ArmsKeeps DEF Keeps
    <2> QED BY <1>1, <1>2, <2>3, KeepsTwice
  <1> QED BY <1>3, <1>4

LEMMA UploadKeeps ==
  ASSUME NEW w, Good(w), ~Stuck(w), Busy(w), NEW sent \in BOOLEAN
  PROVE  Keeps(w, DoWithDHCPUpload(w, sent))
  <1> DEFINE H == w.c.running \cup {"direct"}
             d == [w EXCEPT !.c.running = H]
             k == CancelWaitDHCPAuthResultTimer(d)
             t == SetTimer(k, "DHCP_TIMEOUT")
             s == StopAuthentication(d, TRUE, TRUE)
  <1>1. DoWithDHCPUpload(w, sent) = IF sent THEN t ELSE s
    BY DEF DoWithDHCPUpload
  <1>2. H \in SUBSET Helpers
    BY ControlOf DEF Good, Control, Helpers
  <1> HIDE DEF H
  <1>3. /\ Typed(d) /\ SameRest(w, d) /\ SameView(w.c, d.c) /\ d.c.pc = w.c.pc
        /\ d.c.handle = w.c.handle /\ d.c.dhcp_auth_step = w.c.dhcp_auth_step
        /\ (Owned(w.c) => Owned(d.c))
    BY <1>2, RunningBecomes DEF Good
  <1> HIDE DEF d
  <1>4. Stepped(d.c) /\ Machined(d) /\ Closing(d)
    BY <1>3 DEF Good, Stepped, Machined, Closing, SameRest, SameView
  <1>5. (QuietRepairs => Quiet(d.c)) /\ (LifeRepairs => Lives(d))
    BY <1>3 DEF Good, Quiet, Busy, Lives, SameRest, SameView
  <1>6. SessionRepairs => Session(d)
    BY <1>3 DEF Good, Session, SameRest, SameView, Truthful
  <1>7. Keeps(w, d) /\ Busy(d) /\ ~Stuck(d)
    BY <1>3, <1>4, <1>5, <1>6 DEF Good, Keeps, Carries, Busy, SameRest, SameView, Stuck
  <1>8. Keeps(d, s)
    BY <1>7, StopKeeps DEF Keeps
  <1>9. /\ Keeps(d, k) /\ Typed(k) /\ Trims(d, k)
        /\ k.c.pc = "idle" => k.c.handle = d.c.handle \ {"DHCP_TIMEOUT"}
    BY <1>7, KillKeeps, KillTimerTrims
       DEF Keeps, Good, Flags, CancelWaitDHCPAuthResultTimer
  <1> HIDE DEF k, s
  <1>10. Keeps(d, t)
    <2>1. CASE Stuck(k)
      BY <1>9, <2>1 DEF SetTimer
    <2>2. CASE ~Stuck(k)
      <3>1. Typed(t) /\ Arms(k, t, "DHCP_TIMEOUT")
        BY <1>9, <2>2, SetTimerArms DEF Flags
      <3>2. "DHCP_TIMEOUT" \notin k.c.handle /\ Busy(k) /\ "DHCP_TIMEOUT" \in Flags
        BY <1>7, <1>9, <2>2 DEF Stuck, Trims, SameView, Busy, Flags
      <3> HIDE DEF t
      <3>3. Keeps(k, t)
        BY <1>9, <3>1, <3>2, ArmsKeeps DEF Keeps, Busy
      <3> QED BY <1>9, <3>3, KeepsTwice
    <2> QED BY <2>1, <2>2
  <1> HIDE DEF t
  <1> QED BY <1>1, <1>7, <1>8, <1>10, KeepsTwice

LEMMA WaitKeeps ==
  ASSUME NEW w, Good(w)
  PROVE  Keeps(w, WaitForOffer(w))
<1>1. CASE w.c.ip_offer_count > OfferLimit
  BY <1>1, StopKeeps DEF WaitForOffer
<1>2. CASE ~(w.c.ip_offer_count > OfferLimit)
  <2> DEFINE n == w.c.ip_offer_count + 1
             d == [w.c EXCEPT !.ip_offer_count = n]
             x == [w EXCEPT !.c = d]
  <2>1. w.c \in Control /\ w.c.ip_offer_count \in 0..OfferLimit + 1
    BY ControlOf DEF Good, Control
  <2>2. n \in 0..OfferLimit + 1
    BY <1>2, <2>1, ConstantsAssumption
  <2>3. WaitForOffer(w) = x
    BY <1>2 DEF WaitForOffer
  <2> HIDE DEF n
  <2>4. d \in Control
    BY <2>1, <2>2 DEF Control
  <2>5. /\ SameView(w.c, d) /\ d.pc = w.c.pc /\ d.armed = w.c.armed
        /\ d.handle = w.c.handle /\ d.running = w.c.running
        /\ d.dhcp_auth_step = w.c.dhcp_auth_step
    BY <2>1 DEF Control, SameView
  <2> HIDE DEF d
  <2>6. Typed(x) /\ x.c = d /\ Notes(w, x)
    BY <2>4, <2>5, Noted DEF Good
  <2> HIDE DEF x
  <2>7. Stepped(x.c)
    BY <2>5, <2>6 DEF Good, Stepped
  <2> QED BY <2>3, <2>6, <2>7, NotesKeep
<1> QED BY <1>1, <1>2

LEMMA OfferedKeeps ==
  ASSUME NEW w, Good(w), ~Stuck(w), "DHCP_IP" \in w.c.handle,
         NEW informed \in BOOLEAN, NEW sent \in BOOLEAN
  PROVE  Keeps(w, AddressOffered(w, informed, sent))
  <1> DEFINE k == KillTimer(w, "DHCP_IP")
             a == [k.c EXCEPT !.ip_offer_count = 0]
             v == [k EXCEPT !.c = a]
             g == GetDHCPAuthStep([k EXCEPT !.c.ip_offer_count = 0])
             b == [g.c EXCEPT !.dhcp_auth_step = 2]
             n == [g EXCEPT !.c = b]
             x == AddressOffered(w, informed, sent)
  <1>1. x = IF Stuck(k) THEN k
            ELSE CASE g.c.dhcp_auth_step = 1 ->
                        StartStateMachine([g EXCEPT !.c.dhcp_auth_step = 2], informed)
                   [] g.c.dhcp_auth_step = 2 -> [g EXCEPT !.c.pc = "crashed"]
                   [] g.c.dhcp_auth_step = 0 -> DoWithDHCPUpload(g, sent)
    BY DEF AddressOffered
  <1> HIDE DEF x
  <1>2. /\ Keeps(w, k) /\ Typed(k) /\ Trims(w, k)
        /\ k.c.pc = "idle" => k.c.handle = w.c.handle \ {"DHCP_IP"}
    BY KillKeeps, KillTimerTrims DEF Good, Flags
  <1>3. w.c.dhcp_auth_step # 2 /\ Busy(w)
    BY BusySearch DEF Good, Stepped
  <1>4. CASE Stuck(k)
    BY <1>1, <1>2, <1>4 DEF x
  <1>5. CASE ~Stuck(k)
    <2>1. [k EXCEPT !.c.ip_offer_count = 0] = v
      OBVIOUS
    <2> HIDE DEF k
    <2>2. k.c \in Control /\ 0 \in 0..OfferLimit + 1
      BY <1>2, ControlOf, ConstantsAssumption
    <2>3. a \in Control
      BY <2>2 DEF Control
    <2>4. /\ SameView(k.c, a) /\ a.pc = k.c.pc /\ a.armed = k.c.armed
          /\ a.handle = k.c.handle /\ a.running = k.c.running
          /\ a.dhcp_auth_step = k.c.dhcp_auth_step
      BY <2>2 DEF Control, SameView
    <2> HIDE DEF a
    <2>5. Typed(v) /\ v.c = a /\ Notes(k, v)
      BY <1>2, <2>3, <2>4, Noted
    <2> HIDE DEF v
    <2>6. Keeps(k, v) /\ ~Stuck(v)
      BY <1>2, <1>5, <2>4, <2>5, NotesKeep DEF Keeps, Good, Stepped, Stuck
    <2>7. g = GetDHCPAuthStep(v)
      BY <2>1
    <2> HIDE DEF g
    <2>8. /\ Keeps(v, g) /\ Notes(v, g)
          /\ g.c.dhcp_auth_step \in 0..2 /\ (g.c.dhcp_auth_step = 2 => v.c.dhcp_auth_step = 2)
      BY <2>6, <2>7, GetStepKeeps, GetStepNotes DEF Keeps, Good
    <2>9. /\ Keeps(w, g) /\ ~Stuck(g) /\ Busy(g) /\ "DHCP_IP" \notin g.c.handle
          /\ g.c.dhcp_auth_step \in {0, 1}
      <3>1. Keeps(w, g)
        BY <1>2, <2>6, <2>8, KeepsTwice
      <3>2. ~Stuck(g) /\ "DHCP_IP" \notin g.c.handle
        BY <1>2, <1>5, <2>5, <2>6, <2>8 DEF Stuck, Notes
      <3>3. g.c.state = w.c.state /\ g.c.attempt = w.c.attempt
        BY <1>2, <2>5, <2>8 DEF Trims, Notes, SameView
      <3>4. g.c.dhcp_auth_step # 2
        BY <1>2, <1>3, <2>4, <2>5, <2>8 DEF Trims
      <3> QED BY <1>3, <2>8, <3>1, <3>2, <3>3, <3>4 DEF Busy
    <2>10. CASE g.c.dhcp_auth_step = 0
      <3>1. x = DoWithDHCPUpload(g, sent)
        BY <1>1, <1>5, <2>10
      <3>2. Keeps(g, DoWithDHCPUpload(g, sent))
        BY <2>9, UploadKeeps DEF Keeps
      <3> QED BY <2>9, <3>1, <3>2, KeepsTwice DEF x
    <2>11. CASE g.c.dhcp_auth_step = 1
      <3>1. x = StartStateMachine(n, informed)
        BY <1>1, <1>5, <2>11
      <3>2. g.c \in Control /\ Typed(g)
        BY <2>9, ControlOf DEF Keeps, Good
      <3>3. b \in Control
        BY <3>2 DEF Control
      <3>4. /\ SameView(g.c, b) /\ b.pc = g.c.pc /\ b.armed = g.c.armed
            /\ b.handle = g.c.handle /\ b.running = g.c.running
        BY <3>2 DEF Control, SameView
      <3> HIDE DEF b
      <3>5. Typed(n) /\ n.c = b /\ Notes(g, n)
        BY <3>2, <3>3, <3>4, Noted
      <3> HIDE DEF n
      <3>6. Keeps(g, n)
        BY <2>9, <3>4, <3>5, NotesKeep DEF Keeps, Stepped
      <3>7. Keeps(n, StartStateMachine(n, informed))
        BY <3>6, StartKeeps DEF Keeps
      <3> QED BY <2>9, <3>1, <3>6, <3>7, KeepsTwice DEF x
    <2> QED BY <2>9, <2>10, <2>11
  <1> QED BY <1>4, <1>5

LEMMA BOOTPKeeps ==
  ASSUME NEW w, Good(w), ~Stuck(w), Busy(w), w.c.dhcp_auth_step # 2, NEW works \in BOOLEAN
  PROVE  Keeps(w, DoBOOTP(w, works))
  <1> DEFINE a == [w.c EXCEPT !.drained = FALSE]
             v == [w EXCEPT !.c = a]
             t == SetTimer([w EXCEPT !.c.drained = FALSE], "DHCP_IP")
             b == [t.c EXCEPT !.drained = TRUE]
             n == [t EXCEPT !.c = b]
  <1>1. DoBOOTP(w, works) =
          IF Repaired("BootpTwice") /\ "DHCP_IP" \in w.c.handle THEN w
          ELSE IF ~works THEN StopAuthentication(w, TRUE, TRUE)
          ELSE IF Repaired("BootpTimer") THEN t
          ELSE StopAuthentication([t EXCEPT !.c.drained = TRUE], TRUE, TRUE)
    BY DEF DoBOOTP
  <1>2. [w EXCEPT !.c.drained = FALSE] = v
    OBVIOUS
  <1>3. Keeps(w, w) /\ Keeps(w, StopAuthentication(w, TRUE, TRUE))
    BY StopKeeps DEF Keeps, Carries
  <1>4. ASSUME ~(Repaired("BootpTwice") /\ "DHCP_IP" \in w.c.handle)
        PROVE  Keeps(w, t)
    <2>1. w.c \in Control /\ Typed(w)
      BY ControlOf DEF Good
    <2>2. a \in Control
      BY <2>1 DEF Control
    <2>3. /\ SameView(w.c, a) /\ a.pc = w.c.pc /\ a.armed = w.c.armed
          /\ a.handle = w.c.handle /\ a.running = w.c.running
          /\ a.dhcp_auth_step = w.c.dhcp_auth_step
      BY <2>1 DEF Control, SameView
    <2> HIDE DEF a
    <2>4. Typed(v) /\ v.c = a /\ Notes(w, v)
      BY <2>1, <2>2, <2>3, Noted
    <2>5. t = SetTimer(v, "DHCP_IP")
      BY <1>2
    <2> HIDE DEF v, t
    <2>6. Keeps(w, v) /\ ~Stuck(v) /\ Busy(v) /\ v.c.dhcp_auth_step # 2
      BY <2>3, <2>4, NotesKeep DEF Good, Stepped, Stuck, Busy, SameView
    <2>7. Typed(t) /\ Arms(v, t, "DHCP_IP") /\ "DHCP_IP" \in Flags
      BY <2>4, <2>5, <2>6, SetTimerArms DEF Flags
    <2>8. OwnRepairs => "DHCP_IP" \notin v.c.handle
      BY <1>4, <2>3, <2>4 DEF OwnRepairs, Repaired
    <2>9. Keeps(v, t)
      BY <2>6, <2>7, <2>8, ArmsKeeps DEF Keeps, Busy
    <2> QED BY <2>6, <2>9, KeepsTwice
  <1> HIDE DEF t
  <1>5. ASSUME Keeps(w, t)
        PROVE  Keeps(w, StopAuthentication([t EXCEPT !.c.drained = TRUE], TRUE, TRUE))
    <2>0. [t EXCEPT !.c.drained = TRUE] = n
      OBVIOUS
    <2>1. t.c \in Control /\ Typed(t)
      BY <1>5, ControlOf DEF Good, Keeps
    <2>2. b \in Control
      BY <2>1 DEF Control
    <2>3. /\ SameView(t.c, b) /\ b.pc = t.c.pc /\ b.armed = t.c.armed
          /\ b.handle = t.c.handle /\ b.running = t.c.running
          /\ b.dhcp_auth_step = t.c.dhcp_auth_step
      BY <2>1 DEF Control, SameView
    <2> HIDE DEF b
    <2>4. Typed(n) /\ n.c = b /\ Notes(t, n)
      BY <2>1, <2>2, <2>3, Noted
    <2> HIDE DEF n
    <2>5. Keeps(t, n)
      BY <1>5, <2>3, <2>4, NotesKeep DEF Keeps, Good, Stepped
    <2>6. Keeps(n, StopAuthentication(n, TRUE, TRUE))
      BY <2>5, StopKeeps DEF Keeps
    <2> QED BY <1>5, <2>0, <2>5, <2>6, KeepsTwice
  <1> QED BY <1>1, <1>3, <1>4, <1>5

LEMMA LeaveKeeps ==
  ASSUME NEW w, Good(w), NEW f \in Flags
  PROVE  Keeps(w, OnTimerLeave(w, f))
  <1> DEFINE g == [w.c.gate EXCEPT ![f] = Open(w.c.gate[f])]
             a == [w.c EXCEPT !.gate = g]
             b == [w.c EXCEPT !.leaving = {f}]
  <1>1. w.c \in Control /\ Typed(w) /\ w.c.gate \in [Flags -> {"none", "open", "busy"}]
    BY ControlOf DEF Good, Control
  <1>2. OnTimerLeave(w, f) = CASE w.c.pc = "idle"    -> [w EXCEPT !.c = a]
                               [] w.c.pc = "joining" -> [w EXCEPT !.c = b]
                               [] OTHER              -> w
    BY DEF OnTimerLeave
  <1>3. g \in [Flags -> {"none", "open", "busy"}]
    BY <1>1 DEF Open
  <1> HIDE DEF g
  <1>4. a \in Control
    BY <1>1, <1>3 DEF Control
  <1>5. b \in Control
    BY <1>1 DEF Control
  <1>6. /\ SameView(w.c, a) /\ a.pc = w.c.pc /\ a.armed = w.c.armed
        /\ a.handle = w.c.handle /\ a.running = w.c.running
        /\ a.dhcp_auth_step = w.c.dhcp_auth_step
    BY <1>1 DEF Control, SameView
  <1>7. /\ SameView(w.c, b) /\ b.pc = w.c.pc /\ b.armed = w.c.armed
        /\ b.handle = w.c.handle /\ b.running = w.c.running
        /\ b.dhcp_auth_step = w.c.dhcp_auth_step
    BY <1>1 DEF Control, SameView
  <1> HIDE DEF a, b
  <1>8. Keeps(w, [w EXCEPT !.c = a])
    <2> DEFINE x == [w EXCEPT !.c = a]
    <2>1. Typed(x) /\ x.c = a /\ Notes(w, x)
      BY <1>1, <1>4, <1>6, Noted
    <2> HIDE DEF x
    <2>2. Keeps(w, x)
      BY <1>6, <2>1, NotesKeep DEF Good, Stepped
    <2> QED BY <2>2 DEF x
  <1>9. Keeps(w, [w EXCEPT !.c = b])
    <2> DEFINE x == [w EXCEPT !.c = b]
    <2>1. Typed(x) /\ x.c = b /\ Notes(w, x)
      BY <1>1, <1>5, <1>7, Noted
    <2> HIDE DEF x
    <2>2. Keeps(w, x)
      BY <1>7, <2>1, NotesKeep DEF Good, Stepped
    <2> QED BY <2>2 DEF x
  <1> QED BY <1>2, <1>8, <1>9 DEF Keeps, Carries
=============================================================================
