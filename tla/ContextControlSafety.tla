------------------------ MODULE ContextControlSafety ------------------------
(***************************************************************************)
(* The steps of ContextControl keep the invariant of its world, and what   *)
(* follows from it: the safety properties of the authentication control.   *)
(***************************************************************************)
EXTENDS ContextControlProofs

-----------------------------------------------------------------------------
(* What a handler finds *)

LEMMA QueueShrinks ==
  ASSUME NEW w, NEW x, Good(w), Typed(x), x.c = w.c, x.m = w.m, x.sender = w.sender,
         x.adapter = w.adapter, x.quit = w.quit,
         \A i \in DOMAIN x.queue : \E j \in DOMAIN w.queue : x.queue[i] = w.queue[j]
  PROVE  Good(x)
<1>1. Stepped(x.c) /\ Machined(x) /\ Closing(x)
  BY DEF Good, Machined, Closing
<1>2. SessionRepairs => Session(x)
  <2> SUFFICES ASSUME SessionRepairs PROVE Session(x)
    OBVIOUS
  <2>1. \A i \in DOMAIN x.queue : Truthful(x.queue[i], x.c, x.m)
    BY DEF Good, Session
  <2> QED BY <2>1 DEF Good, Session
<1>3. LifeRepairs => Lives(x)
  BY DEF Good, Lives
<1> QED BY <1>1, <1>2, <1>3 DEF Good

LEMMA TailOf ==
  ASSUME NEW S, NEW s \in Seq(S), s # <<>>
  PROVE  /\ Tail(s) \in Seq(S) /\ Head(s) = s[1] /\ 1 \in DOMAIN s /\ Head(s) \in S
         /\ \A i \in DOMAIN Tail(s) : i + 1 \in DOMAIN s /\ Tail(s)[i] = s[i + 1]
                                      /\ i \in Nat /\ i # 0
         /\ \A i \in DOMAIN s : i # 1 => i - 1 \in DOMAIN Tail(s) /\ s[i] = Tail(s)[i - 1]
<1>1. /\ DOMAIN s = 1..Len(s) /\ Len(s) \in Nat /\ Len(s) # 0
  OBVIOUS
<1>2. DOMAIN Tail(s) = 1..(Len(s) - 1) /\ \A i \in 1..(Len(s) - 1) : Tail(s)[i] = s[i + 1]
  OBVIOUS
<1>3. Tail(s) \in Seq(S) /\ Head(s) = s[1]
  OBVIOUS
<1>4. 1 \in DOMAIN s /\ s[1] \in S
  BY <1>1
<1> QED BY <1>1, <1>2, <1>3, <1>4

LEMMA WorldGood ==
  ASSUME Good(Now), c.pc = "idle", queue # <<>>
  PROVE  /\ Good(World) /\ ~Stuck(World) /\ queue \in Seq(Message)
         /\ World.c = c /\ World.m = m /\ World.queue = Tail(queue) /\ World.quit = quit
         /\ World.sender = sender /\ World.adapter = adapter
<1>1. /\ World.c = c /\ World.m = m /\ World.queue = Tail(queue) /\ World.quit = quit
      /\ World.sender = sender /\ World.adapter = adapter
  BY DEF World
<1>2. /\ Now.c = c /\ Now.m = m /\ Now.queue = queue /\ Now.quit = quit
      /\ Now.sender = sender /\ Now.adapter = adapter
  BY DEF Now
<1>3. Typed(Now) /\ queue \in Seq(Message)
  BY <1>2 DEF Good, Typed, Worlds
<1>4. /\ Tail(queue) \in Seq(Message)
      /\ \A i \in DOMAIN Tail(queue) : i + 1 \in DOMAIN queue /\ Tail(queue)[i] = queue[i + 1]
  BY <1>3, TailOf
<1>5. Typed(World)
  <2>1. /\ c \in Control /\ m \in MachineThread /\ sender \in Seq({"logoff", "CLOSE_ADAPTER"})
        /\ adapter \in BOOLEAN /\ quit \in {"no", "asked", "notified", "stopped"} /\ Held(c)
    BY <1>2, <1>3 DEF Typed, Worlds
  <2> QED BY <1>1, <1>4, <2>1 DEF Typed, Worlds, World
<1>6. Good(World)
  BY <1>1, <1>2, <1>4, <1>5, QueueShrinks
<1> QED BY <1>1, <1>3, <1>6 DEF Stuck

LEMMA LogoffMessageKeeps ==
  ASSUME NEW w, Good(w), NEW v \in BOOLEAN
  PROVE  LET x == [w EXCEPT !.c.logoff_message = v] IN Keeps(w, x) /\ Notes(w, x)
  <1> DEFINE d == [w.c EXCEPT !.logoff_message = v]
             x == [w EXCEPT !.c = d]
  <1>1. [w EXCEPT !.c.logoff_message = v] = x
    OBVIOUS
  <1>2. w.c \in Control /\ Typed(w)
    BY ControlOf DEF Good
  <1>3. d \in Control
    BY <1>2 DEF Control
  <1>4. /\ SameView(w.c, d) /\ d.pc = w.c.pc /\ d.armed = w.c.armed
        /\ d.handle = w.c.handle /\ d.running = w.c.running
        /\ d.dhcp_auth_step = w.c.dhcp_auth_step
    BY <1>2 DEF Control, SameView
  <1> HIDE DEF d
  <1>5. Typed(x) /\ x.c = d /\ Notes(w, x)
    BY <1>2, <1>3, <1>4, Noted
  <1> HIDE DEF x
  <1> QED BY <1>1, <1>4, <1>5, NotesKeep DEF Good, Stepped

LEMMA ReauthCountKeeps ==
  ASSUME NEW w, Good(w), NEW k \in 0..3
  PROVE  LET x == [w EXCEPT !.c.reauth_count = k] IN Keeps(w, x) /\ Notes(w, x)
  <1> DEFINE d == [w.c EXCEPT !.reauth_count = k]
             x == [w EXCEPT !.c = d]
  <1>1. [w EXCEPT !.c.reauth_count = k] = x
    OBVIOUS
  <1>2. w.c \in Control /\ Typed(w)
    BY ControlOf DEF Good
  <1>3. d \in Control
    BY <1>2 DEF Control
  <1>4. /\ SameView(w.c, d) /\ d.pc = w.c.pc /\ d.armed = w.c.armed
        /\ d.handle = w.c.handle /\ d.running = w.c.running
        /\ d.dhcp_auth_step = w.c.dhcp_auth_step
    BY <1>2 DEF Control, SameView
  <1> HIDE DEF d
  <1>5. Typed(x) /\ x.c = d /\ Notes(w, x)
    BY <1>2, <1>3, <1>4, Noted
  <1> HIDE DEF x
  <1> QED BY <1>1, <1>4, <1>5, NotesKeep DEF Good, Stepped

LEMMA FirstStepKeeps ==
  ASSUME NEW w, Good(w)
  PROVE  Keeps(w, [w EXCEPT !.c.dhcp_auth_step = 1])
  <1> DEFINE d == [w.c EXCEPT !.dhcp_auth_step = 1]
             x == [w EXCEPT !.c = d]
  <1>1. [w EXCEPT !.c.dhcp_auth_step = 1] = x
    OBVIOUS
  <1>2. w.c \in Control /\ Typed(w)
    BY ControlOf DEF Good
  <1>3. d \in Control
    BY <1>2 DEF Control
  <1>4. /\ SameView(w.c, d) /\ d.pc = w.c.pc /\ d.armed = w.c.armed
        /\ d.handle = w.c.handle /\ d.running = w.c.running
        /\ d.dhcp_auth_step = 1
    BY <1>2 DEF Control, SameView
  <1> HIDE DEF d
  <1>5. Typed(x) /\ x.c = d /\ Notes(w, x)
    BY <1>2, <1>3, <1>4, Noted
  <1> HIDE DEF x
  <1> QED BY <1>1, <1>4, <1>5, NotesKeep DEF Stepped

\* A handler runs to its end, hangs, crashes or waits for the machine.  It leaves the
\* queue as it is, or appends what StartProcessBusiness tells the thread itself.
Follows(w, x) ==
  /\ x.c.machine_thread = w.c.machine_thread /\ x.c.pc # "exited"
  /\ x.quit \in {w.quit, "asked"}
  /\ x.queue \in {w.queue, Append(w.queue, Msg("CONNECT_NOTIFY", "timer", w.c.attempt))}

Handled == \E x : Become(x) /\ Good(x) /\ Follows(World, x)

LEMMA KeptIsHandled ==
  ASSUME Good(Now), c.pc = "idle", queue # <<>>, NEW x, Keeps(World, x), Become(x)
  PROVE  Handled
  BY WorldGood DEF Handled, Keeps, Carries, Follows

LEMMA KeepsItself == ASSUME NEW w, Good(w) PROVE Keeps(w, w)
  BY DEF Keeps, Carries
-----------------------------------------------------------------------------
(* The handlers *)

\* A report that is believed is of the session the client is making.
LEMMA FreshReport ==
  ASSUME Good(Now), Receive("RETURN"), Arg = "AUTHENTICATED", Current, ~IsFailure(World)
  PROVE  Busy(World) /\ (LifeRepairs => c.machine_thread)
<1>1. /\ Good(World) /\ ~Stuck(World) /\ queue \in Seq(Message)
      /\ World.c = c /\ World.m = m /\ World.queue = Tail(queue)
  BY WorldGood DEF Receive
<1>2. Now.c = c /\ Now.m = m /\ Now.queue = queue /\ c.pc = "idle"
  BY DEF Now, Receive
<1>3. Head(queue) = queue[1] /\ 1 \in DOMAIN queue
  BY <1>1, TailOf DEF Receive
<1>4. QuietRepairs \/ SessionRepairs \/ LifeRepairs => Repaired("StaleReport")
  BY DEF QuietRepairs, SessionRepairs, LifeRepairs, Repaired
<1>5. Repaired("StaleReport") => c.state # "LOGOFF" /\ Head(queue).at = c.attempt
  BY DEF Current
<1>6. ASSUME SessionRepairs PROVE heard = c.attempt
  <2>1. Truthful(queue[1], c, m)
    BY <1>2, <1>3, <1>6 DEF Good, Session
  <2>2. ~c.reconnect_fail
    BY <1>1, <1>6 DEF IsFailure, SessionRepairs, Repaired
  <2> QED BY <1>3, <1>4, <1>5, <1>6, <2>1, <2>2 DEF Truthful, Receive, Arg
<1>7. ASSUME LifeRepairs PROVE c.state # "INVALID"
  BY <1>2, <1>3, <1>7 DEF Good, Lives, Receive
<1>8. ASSUME LifeRepairs PROVE c.machine_thread
  <2>1. c.state \in {"INVALID", "AUTHENTICATING", "AUTHENTICATED", "LOGOFF"}
    BY <1>1, Fields DEF Good
  <2> QED BY <1>2, <1>4, <1>5, <1>7, <1>8, <2>1 DEF Good, Lives
<1> QED BY <1>1, <1>4, <1>5, <1>6, <1>7, <1>8 DEF Busy

\* A session is opened at the end of a handler.
LEMMA OpenIsHandled ==
  ASSUME Good(Now), c.pc = "idle", queue # <<>>, NEW w, Keeps(World, w), ~Stuck(w),
         Busy(w), LifeRepairs => c.machine_thread, w.c.attempt = c.attempt,
         NEW wanted \in SUBSET Helpers, NEW renew \in BOOLEAN,
         Become(DoForSTATE_AUTHENTICATED(w, wanted, renew))
  PROVE  Handled
<1> DEFINE x == DoForSTATE_AUTHENTICATED(w, wanted, renew)
<1>1. /\ Good(World) /\ ~Stuck(World) /\ World.c = c
  BY WorldGood
<1>2. Good(w) /\ Typed(w) /\ Carries(World, w)
  BY DEF Keeps, Good
<1>3. Typed(x) /\ Opens(w, x)
  BY <1>2, DoForOpens
<1> HIDE DEF x
<1>4. Good(x)
  <2>1. w.c.machine_thread = c.machine_thread
    BY <1>1, <1>2 DEF Carries
  <2>2. (SessionRepairs => heard = w.c.attempt) /\ (LifeRepairs => w.c.machine_thread)
    BY <2>1 DEF Busy
  <2> QED BY <1>2, <1>3, <2>2, OpensGood
<1>5. Follows(World, x)
  BY <1>1, <1>2, <1>3 DEF Follows, Carries, Opens, Stuck
<1> QED BY <1>4, <1>5 DEF Handled, x

LEMMA OnAuthenticatedHandled ==
  ASSUME Good(Now), NEW wanted \in Asked, NEW renew \in BOOLEAN, NEW works \in BOOLEAN,
         OnAuthenticated(wanted, renew, works)
  PROVE  Handled
  <1> DEFINE w == [World EXCEPT !.c.reauth_count = 0]
             e == DeinitAll_Success(w)
             d == GetDHCPAuthStep(e)
  <1>1. /\ Good(World) /\ ~Stuck(World) /\ World.c = c /\ c.pc = "idle" /\ queue # <<>>
    BY WorldGood DEF OnAuthenticated, Receive
  <1>2. Keeps(World, w) /\ Notes(World, w)
    <2>1. 0 \in 0..3
      OBVIOUS
    <2> QED BY <1>1, <2>1, ReauthCountKeeps
  <1>3. /\ w.c.connect_fail = c.connect_fail /\ w.c.reconnect_fail = c.reconnect_fail
        /\ w.c.logoff_message = c.logoff_message
    BY <1>1, ControlOf DEF Good, Control
  <1>4. Become(IF ~Current THEN World
               ELSE IF IsFailure(w) THEN [w EXCEPT !.c.logoff_message = TRUE]
               ELSE IF ~d.c.dhcp_enabled \/ d.c.dhcp_auth_step = 2
               THEN DoForSTATE_AUTHENTICATED(d, wanted, renew)
               ELSE DoBOOTP(d, works))
    BY DEF OnAuthenticated
  <1>5. IsFailure(w) <=> IsFailure(World)
    BY <1>1, <1>3 DEF IsFailure
  <1> HIDE DEF w
  <1>6. Keeps(w, e) /\ Calms(w, e)
    BY <1>2, DeinitKeeps DEF Keeps
  <1>7. ~Stuck(e)
    BY <1>1, <1>2, <1>6 DEF Stuck, Notes, Calms
  <1> HIDE DEF e
  <1>8. Keeps(e, d) /\ Notes(e, d)
    BY <1>6, <1>7, GetStepKeeps DEF Keeps
  <1> HIDE DEF d
  <1>9. Keeps(World, d) /\ ~Stuck(d) /\ d.c.state = c.state /\ d.c.attempt = c.attempt
    <2>1. Keeps(World, e)
      BY <1>2, <1>6, KeepsTwice
    <2>2. Keeps(World, d)
      BY <1>8, <2>1, KeepsTwice
    <2> QED BY <1>1, <1>2, <1>6, <1>7, <1>8, <2>2 DEF Stuck, Notes, Calms, SameView
  <1>10. CASE ~Current
    BY <1>1, <1>4, <1>10, KeptIsHandled, KeepsItself
  <1>11. CASE Current /\ IsFailure(w)
    <2> DEFINE x == [w EXCEPT !.c.logoff_message = TRUE]
    <2>1. Keeps(w, x)
      BY <1>2, LogoffMessageKeeps DEF Keeps
    <2>2. Become(x)
      BY <1>4, <1>11
    <2> HIDE DEF x
    <2>3. Keeps(World, x)
      BY <1>2, <2>1, KeepsTwice
    <2> QED BY <1>1, <2>2, <2>3, KeptIsHandled
  <1>12. CASE Current /\ ~IsFailure(w)
    <2>1. Busy(World) /\ (LifeRepairs => c.machine_thread)
      BY <1>5, <1>12, FreshReport DEF OnAuthenticated
    <2>2. Busy(d)
      BY <1>1, <1>9, <2>1 DEF Busy
    <2>3. wanted \in SUBSET Helpers
      BY DEF Asked, Helpers
    <2>4. CASE ~d.c.dhcp_enabled \/ d.c.dhcp_auth_step = 2
      BY <1>1, <1>4, <1>9, <1>12, <2>1, <2>2, <2>3, <2>4, OpenIsHandled
    <2>5. CASE ~(~d.c.dhcp_enabled \/ d.c.dhcp_auth_step = 2)
      <3> DEFINE x == DoBOOTP(d, works)
      <3>1. Keeps(d, x)
        BY <1>9, <2>2, <2>5, BOOTPKeeps DEF Keeps
      <3>2. Become(x)
        BY <1>4, <1>12, <2>5
      <3> HIDE DEF x
      <3>3. Keeps(World, x)
        BY <1>9, <3>1, KeepsTwice
      <3> QED BY <1>1, <3>2, <3>3, KeptIsHandled
    <2> QED BY <2>4, <2>5
  <1> QED BY <1>10, <1>11, <1>12

LEMMA OnLogoffHandled ==
  ASSUME Good(Now), OnLogoff
  PROVE  Handled
  <1> DEFINE again == c.connect_fail /\ ~c.logoff_message
             s == StopAuthentication(World, ~again, TRUE)
             t == IF Repaired("Backoff") THEN KillTimer(s, "REAUTH") ELSE s
             n == [t EXCEPT !.c.reauth_count = @ + 1]
             x == SetTimer(n, "REAUTH")
  <1>1. /\ Good(World) /\ ~Stuck(World) /\ World.c = c /\ c.pc = "idle" /\ queue # <<>>
    BY WorldGood DEF OnLogoff, Receive
  <1>2. Become(IF ~Current THEN World
               ELSE IF again /\ ~Stuck(t) /\ t.c.reauth_count < 3 THEN x ELSE s)
    BY DEF OnLogoff
  <1>3. again \in BOOLEAN
    BY <1>1, ControlOf DEF Good, Control
  <1> HIDE DEF again
  <1>4. Keeps(World, s)
    BY <1>1, <1>3, StopKeeps
  <1> HIDE DEF s
  <1>5. Keeps(s, t) /\ (Repaired("Backoff") /\ ~Stuck(t) => "REAUTH" \notin t.c.handle)
    BY <1>4, KillKeeps, KillTimerTrims, KeepsItself DEF Keeps, Good, Flags, Stuck
  <1> HIDE DEF t
  <1>6. ASSUME ~Stuck(t), t.c.reauth_count < 3
        PROVE  Keeps(World, x)
    <2> DEFINE k == t.c.reauth_count + 1
    <2>1. k \in 0..3
      <3>1. t.c.reauth_count \in 0..3
        BY <1>5, ControlOf DEF Keeps, Good, Control
      <3> QED BY <1>6, <3>1
    <2>2. n = [t EXCEPT !.c.reauth_count = k]
      OBVIOUS
    <2> HIDE DEF k, n
    <2>3. Keeps(t, n) /\ Notes(t, n)
      BY <1>5, <2>1, <2>2, ReauthCountKeeps DEF Keeps
    <2>4. ~Stuck(n) /\ (OwnRepairs => "REAUTH" \notin n.c.handle) /\ "REAUTH" \in Flags
      BY <1>5, <1>6, <2>3 DEF Stuck, Notes, OwnRepairs, Repaired, Flags
    <2>5. Typed(x) /\ Arms(n, x, "REAUTH")
      BY <2>3, <2>4, SetTimerArms DEF Keeps, Good
    <2> HIDE DEF x
    <2>6. Keeps(n, x)
      BY <2>3, <2>4, <2>5, ArmsKeeps DEF Keeps
    <2>7. Keeps(World, t)
      BY <1>4, <1>5, KeepsTwice
    <2>8. Keeps(World, n)
      BY <2>3, <2>7, KeepsTwice
    <2> QED BY <2>6, <2>8, KeepsTwice
  <1> HIDE DEF x
  <1>7. Keeps(World, World)
    BY <1>1, KeepsItself
  <1> QED BY <1>1, <1>2, <1>4, <1>6, <1>7, KeptIsHandled
LEMMA OfferHandled ==
  ASSUME NEW w, Good(w), ~Stuck(w), "DHCP_IP" \in w.c.handle, NEW offered \in BOOLEAN,
         NEW informed \in BOOLEAN, NEW sent \in BOOLEAN
  PROVE  Keeps(w, IsIPOffered(w, offered, informed, sent))
BY OfferedKeeps, WaitKeeps DEF IsIPOffered

LEMMA OnTimerHandled ==
  ASSUME Good(Now), NEW f \in Flags, NEW offered \in BOOLEAN, NEW informed \in BOOLEAN,
         NEW sent \in BOOLEAN, OnTimer(f, offered, informed, sent)
  PROVE  Handled
  <1> DEFINE residual == f \notin c.handle /\ (f = "DHCP_IP" \/ Repaired("StaleTick"))
             k == KillTimer(World, f)
             s == CancelWaitDHCPAuthResultTimer(World)
             w == CASE f = "RECONNECT"    -> Restart(World, informed)
                    [] f = "DHCP_TIMEOUT" -> StopAuthentication(s, TRUE, TRUE)
                    [] f = "DHCP_IP"      -> IsIPOffered(World, offered, informed, sent)
                    [] f = "REAUTH"       -> StartStateMachine(k, informed)
             y == IF residual THEN World ELSE w
             x == OnTimerLeave(y, f)
  <1>1. /\ Good(World) /\ ~Stuck(World) /\ World.c = c /\ c.pc = "idle" /\ queue # <<>>
    BY WorldGood DEF OnTimer, Receive
  <1>2. Become(x)
    BY DEF OnTimer
  <1>3. ASSUME ~residual PROVE Keeps(World, w)
    <2>1. CASE f = "RECONNECT"
      BY <1>1, <2>1, RestartKeeps
    <2>2. CASE f = "DHCP_TIMEOUT"
      <3>1. Keeps(World, s)
        BY <1>1, KillKeeps DEF CancelWaitDHCPAuthResultTimer, Flags
      <3> HIDE DEF s
      <3>2. Keeps(s, StopAuthentication(s, TRUE, TRUE))
        BY <3>1, StopKeeps DEF Keeps
      <3> QED BY <2>2, <3>1, <3>2, KeepsTwice
    <2>3. CASE f = "DHCP_IP"
      BY <1>1, <1>3, <2>3, OfferHandled
    <2>4. CASE f = "REAUTH"
      <3>1. Keeps(World, k)
        BY <1>1, KillKeeps
      <3> HIDE DEF k
      <3>2. Keeps(k, StartStateMachine(k, informed))
        BY <3>1, StartKeeps DEF Keeps
      <3> QED BY <2>4, <3>1, <3>2, KeepsTwice
    <2> QED BY <2>1, <2>2, <2>3, <2>4 DEF Flags
  <1> HIDE DEF residual, w
  <1>4. Keeps(World, y)
    BY <1>1, <1>3, KeepsItself
  <1> HIDE DEF y
  <1>5. Keeps(y, x)
    BY <1>4, LeaveKeeps DEF Keeps
  <1> HIDE DEF x
  <1>6. Keeps(World, x)
    BY <1>4, <1>5, KeepsTwice
  <1> QED BY <1>1, <1>2, <1>6, KeptIsHandled

LEMMA OnAdaptersStateHandled ==
  ASSUME Good(Now), NEW informed \in BOOLEAN, OnAdaptersState(informed)
  PROVE  Handled
  <1> DEFINE first == [World EXCEPT !.c.dhcp_auth_step = 1]
             told == SendLogOffPacket(first)
             x == CASE Arg \in {"UP", "IP_CHANGED"} -> Restart(first, informed)
                    [] Arg = "MAC_CHANGED" -> StartStateMachine(told, informed)
                    [] Arg = "DOWN"     -> StopAuthentication(World, FALSE, FALSE)
                    [] Arg = "MULTIPLE" -> StopAuthentication(World, TRUE, TRUE)
  <1>1. /\ Good(World) /\ ~Stuck(World) /\ World.c = c /\ c.pc = "idle" /\ queue # <<>>
        /\ queue \in Seq(Message)
    BY WorldGood DEF OnAdaptersState, Receive
  <1>2. Become(x)
    BY DEF OnAdaptersState
  <1>3. Arg \in AdapterMessages
    <2>1. Head(queue) \in Message
      BY <1>1, TailOf
    <2> QED BY <2>1 DEF Message, OnAdaptersState, Receive, Arg
  <1>4. Keeps(World, first)
    BY <1>1, FirstStepKeeps
  <1> HIDE DEF first
  <1>5. Keeps(first, told)
    BY <1>4, TellsKeep DEF Keeps
  <1> HIDE DEF told
  <1>6. Keeps(World, Restart(first, informed))
    <2>1. Keeps(first, Restart(first, informed))
      BY <1>4, RestartKeeps DEF Keeps
    <2> QED BY <1>4, <2>1, KeepsTwice
  <1>7. Keeps(World, StartStateMachine(told, informed))
    <2>1. Keeps(told, StartStateMachine(told, informed))
      BY <1>5, StartKeeps DEF Keeps
    <2>2. Keeps(World, told)
      BY <1>4, <1>5, KeepsTwice
    <2> QED BY <2>1, <2>2, KeepsTwice
  <1>8. /\ Keeps(World, StopAuthentication(World, FALSE, FALSE))
        /\ Keeps(World, StopAuthentication(World, TRUE, TRUE))
    BY <1>1, StopKeeps
  <1>9. Keeps(World, x)
    BY <1>3, <1>6, <1>7, <1>8 DEF AdapterMessages
  <1> HIDE DEF x
  <1> QED BY <1>1, <1>2, <1>9, KeptIsHandled

LEMMA OnConnectNotifyHandled ==
  ASSUME Good(Now), NEW informed \in BOOLEAN, NEW auto \in BOOLEAN,
         OnConnectNotify(informed, auto)
  PROVE  Handled
  <1> DEFINE x == CASE Arg = "quit"      -> StopAuthentication(World, TRUE, TRUE)
                    [] Arg = "handshake" -> StartStateMachine(World, informed)
                    [] Arg = "timer"     -> IF ~Current THEN World
                                            ELSE IF auto THEN Renew(World)
                                            ELSE KillTimer(World, "RECONNECT")
  <1>1. /\ Good(World) /\ ~Stuck(World) /\ World.c = c /\ c.pc = "idle" /\ queue # <<>>
        /\ queue \in Seq(Message)
    BY WorldGood DEF OnConnectNotify, Receive
  <1>2. Become(x)
    BY DEF OnConnectNotify
  <1>3. Arg \in {"quit", "handshake", "timer"}
    <2>1. Head(queue) \in Message
      BY <1>1, TailOf
    <2> QED BY <2>1 DEF Message, OnConnectNotify, Receive, Arg
  <1>4. /\ Keeps(World, StopAuthentication(World, TRUE, TRUE))
        /\ Keeps(World, StartStateMachine(World, informed))
        /\ Keeps(World, KillTimer(World, "RECONNECT")) /\ Keeps(World, World)
    BY <1>1, StopKeeps, StartKeeps, KillKeeps, KeepsItself DEF Flags
  <1>5. Current => Keeps(World, Renew(World))
    BY <1>1, RenewKeeps DEF Current, QuietRepairs, Repaired
  <1>6. Keeps(World, x)
    BY <1>3, <1>4, <1>5
  <1> HIDE DEF x
  <1> QED BY <1>1, <1>2, <1>6, KeptIsHandled
LEMMA OnSaWantReAuthHandled ==
  ASSUME Good(Now), NEW informed \in BOOLEAN, OnSaWantReAuth(informed)
  PROVE  Handled
BY WorldGood, RestartKeeps, KeptIsHandled DEF OnSaWantReAuth, Receive

LEMMA SaidAndStopped ==
  ASSUME Good(Now), c.pc = "idle", queue # <<>>,
         Become(StopAuthentication([World EXCEPT !.c.logoff_message = TRUE], TRUE, TRUE))
  PROVE  Handled
  <1> DEFINE w == [World EXCEPT !.c.logoff_message = TRUE]
             x == StopAuthentication(w, TRUE, TRUE)
  <1>1. Good(World)
    BY WorldGood
  <1>2. Keeps(World, w)
    BY <1>1, LogoffMessageKeeps
  <1>3. Become(x)
    OBVIOUS
  <1> HIDE DEF w
  <1>4. Keeps(w, x)
    BY <1>2, StopKeeps DEF Keeps
  <1> HIDE DEF x
  <1>5. Keeps(World, x)
    BY <1>2, <1>4, KeepsTwice
  <1> QED BY <1>3, <1>5, KeptIsHandled

\* The thread stops where it is, having hung or crashed.
LEMMA Breaks ==
  ASSUME NEW w, Good(w), ~Stuck(w), NEW p \in {"hung", "crashed"},
         p = "crashed" => ~LifeRepairs
  PROVE  Keeps(w, [w EXCEPT !.c.pc = p])
  <1> DEFINE d == [w.c EXCEPT !.pc = p]
             x == [w EXCEPT !.c = d]
  <1>1. [w EXCEPT !.c.pc = p] = x
    OBVIOUS
  <1>2. w.c \in Control /\ Typed(w) /\ w.c.pc = "idle"
    BY ControlOf DEF Good, Stuck
  <1>3. d \in Control
    BY <1>2 DEF Control
  <1>4. /\ SameView(w.c, d) /\ d.pc = p /\ d.armed = w.c.armed
        /\ d.handle = w.c.handle /\ d.running = w.c.running
        /\ d.dhcp_auth_step = w.c.dhcp_auth_step
    BY <1>2 DEF Control, SameView
  <1> HIDE DEF d
  <1>5. Held(d) /\ Owned(d)
    BY <1>2, <1>4 DEF Typed, Held, Owned
  <1>6. Typed(x) /\ x.c = d /\ SameRest(w, x)
    BY <1>2, <1>3, <1>5, Put
  <1> HIDE DEF x
  <1>7. Stepped(x.c) /\ Machined(x) /\ Closing(x)
    BY <1>2, <1>4, <1>6 DEF Good, Stepped, Machined, Closing, SameRest, SameView
  <1>8. Quiet(x.c) /\ (LifeRepairs => Lives(x))
    BY <1>4, <1>6 DEF Quiet, Lives
  <1>9. SessionRepairs => Session(x)
    BY <1>4, <1>6 DEF Good, Session, SameRest, SameView, Truthful
  <1> QED BY <1>1, <1>4, <1>5, <1>6, <1>7, <1>8, <1>9
          DEF Good, Keeps, Carries, SameRest, SameView

LEMMA ONSAMWantLogOffHandled ==
  ASSUME Good(Now), ONSAMWantLogOff
  PROVE  Handled
<1>1. /\ Good(World) /\ ~Stuck(World) /\ c.pc = "idle" /\ queue # <<>>
  BY WorldGood DEF ONSAMWantLogOff, Receive
<1>2. CASE Arg = "null" /\ ~Repaired("NullText")
  <2> DEFINE x == [World EXCEPT !.c.pc = "crashed"]
  <2>1. ~LifeRepairs
    BY <1>2 DEF LifeRepairs, Repaired
  <2>2. Keeps(World, x)
    BY <1>1, <2>1, Breaks
  <2>3. Become(x)
    BY <1>2 DEF ONSAMWantLogOff
  <2> HIDE DEF x
  <2> QED BY <1>1, <2>2, <2>3, KeptIsHandled
<1>3. CASE ~(Arg = "null" /\ ~Repaired("NullText"))
  BY <1>1, <1>3, SaidAndStopped DEF ONSAMWantLogOff
<1> QED BY <1>2, <1>3

LEMMA StopIsHandled ==
  ASSUME Good(Now), c.pc = "idle", queue # <<>>, NEW quits \in BOOLEAN,
         NEW tells \in BOOLEAN, Become(StopAuthentication(World, quits, tells))
  PROVE  Handled
BY WorldGood, StopKeeps, KeptIsHandled

LEMMA OnRcvDHCPAuthResultHandled ==
  ASSUME Good(Now), NEW wanted \in Asked, NEW renew \in BOOLEAN,
         OnRcvDHCPAuthResult(wanted, renew)
  PROVE  Handled
  <1> DEFINE w == CancelWaitDHCPAuthResultTimer(World)
             n == [w EXCEPT !.c.logoff_message = (Arg = "text")]
             s == StopAuthentication(n, TRUE, TRUE)
  <1>1. /\ Good(World) /\ ~Stuck(World) /\ World.c = c /\ c.pc = "idle" /\ queue # <<>>
        /\ Now.c = c
    BY WorldGood DEF OnRcvDHCPAuthResult, Receive, Now
  <1>2. Become(IF "DHCP_TIMEOUT" \notin c.handle THEN World
               ELSE IF Arg = "yes" THEN DoForSTATE_AUTHENTICATED(w, wanted, renew) ELSE s)
    BY DEF OnRcvDHCPAuthResult
  <1>3. Keeps(World, w) /\ Typed(w) /\ Trims(World, w)
    BY <1>1, KillKeeps, KillTimerTrims DEF CancelWaitDHCPAuthResultTimer, Flags, Good
  <1> HIDE DEF w
  <1>4. Keeps(World, s)
    <2>1. (Arg = "text") \in BOOLEAN
      OBVIOUS
    <2>2. Keeps(w, n)
      BY <1>3, <2>1, LogoffMessageKeeps DEF Keeps
    <2> HIDE DEF n
    <2>3. Keeps(n, s)
      BY <2>2, StopKeeps DEF Keeps
    <2> HIDE DEF s
    <2>4. Keeps(World, n)
      BY <1>3, <2>2, KeepsTwice
    <2> QED BY <2>3, <2>4, KeepsTwice
  <1> HIDE DEF s
  <1>5. CASE "DHCP_TIMEOUT" \notin c.handle
    BY <1>1, <1>2, <1>5, KeepsItself, KeptIsHandled
  <1>6. CASE "DHCP_TIMEOUT" \in c.handle /\ Arg # "yes"
    BY <1>1, <1>2, <1>4, <1>6, KeptIsHandled
  <1>7. CASE "DHCP_TIMEOUT" \in c.handle /\ Arg = "yes"
    <2>1. Become(DoForSTATE_AUTHENTICATED(w, wanted, renew))
      BY <1>2, <1>7
    <2>2. wanted \in SUBSET Helpers
      BY DEF Asked, Helpers
    <2>3. CASE Stuck(w)
      BY <1>1, <1>3, <2>1, <2>3, KeptIsHandled DEF DoForSTATE_AUTHENTICATED
    <2>4. CASE ~Stuck(w)
      <3>1. Busy(World)
        BY <1>1, <1>7, BusySearch
      <3>2. Busy(w) /\ w.c.attempt = c.attempt
        BY <1>1, <1>3, <3>1 DEF Busy, Trims, SameView
      <3>3. ASSUME LifeRepairs PROVE c.machine_thread
        <4>1. c.state \in {"INVALID", "AUTHENTICATING", "AUTHENTICATED", "LOGOFF"}
          BY <1>1, Fields DEF Good
        <4>2. c.state \notin {"INVALID", "LOGOFF"}
          BY <1>1, <3>1, <3>3 DEF Busy, QuietRepairs, LifeRepairs
        <4> QED BY <1>1, <3>3, <4>1, <4>2 DEF Good, Lives
      <3> QED BY <1>1, <1>3, <2>1, <2>2, <2>4, <3>2, <3>3, OpenIsHandled
    <2> QED BY <2>3, <2>4
  <1> QED BY <1>5, <1>6, <1>7

LEMMA OnRecvFailureHandled ==
  ASSUME Good(Now), OnRecvFailure
  PROVE  Handled
BY WorldGood, KillKeeps, KeptIsHandled DEF OnRecvFailure, Receive, Flags
-----------------------------------------------------------------------------
(* From the world a step leaves to the state it leaves *)

LEMMA BecomeIs ==
  ASSUME NEW x, Typed(x), Become(x) PROVE x = Now'
BY DEF Typed, Worlds, Become, Now

LEMMA BecomeGood ==
  ASSUME NEW x, Good(x), x = Now', heard' = heard
  PROVE  Good(Now)'
<1>1. Typed(Now)' /\ Stepped(Now.c)' /\ Machined(Now)' /\ Closing(Now)'
  BY DEF Good
<1>2. /\ OwnRepairs' => Owned(Now.c)'
      /\ QuietRepairs' => Quiet(Now.c)'
  BY DEF Good, OwnRepairs, QuietRepairs
<1>3. SessionRepairs' => Session(Now)'
  BY DEF Good, Session, SessionRepairs, Truthful
<1>4. LifeRepairs' => Lives(Now)'
  BY DEF Good, LifeRepairs
<1> QED BY <1>1, <1>2, <1>3, <1>4 DEF Good

LEMMA NowTyped ==
  /\ Typed(Now) <=> /\ c \in Control /\ queue \in Seq(Message) /\ m \in MachineThread
                    /\ sender \in Seq({"logoff", "CLOSE_ADAPTER"}) /\ adapter \in BOOLEAN
                    /\ quit \in {"no", "asked", "notified", "stopped"} /\ Held(c)
  /\ Now.c = c /\ Now.m = m /\ Now.queue = queue /\ Now.quit = quit
  /\ Now.sender = sender /\ Now.adapter = adapter
BY DEF Typed, Worlds, Now

LEMMA NextTyped ==
  ASSUME c' \in Control, queue' \in Seq(Message), m' \in MachineThread,
         sender' \in Seq({"logoff", "CLOSE_ADAPTER"}), adapter' \in BOOLEAN,
         quit' \in {"no", "asked", "notified", "stopped"}, Held(c')
  PROVE  Typed(Now)'
BY DEF Typed, Worlds, Now

\* Messages are put behind those that wait.
Grows(q, r) ==
  /\ r \in Seq(Message) /\ DOMAIN q \subseteq DOMAIN r
  /\ \A i \in DOMAIN q : r[i] = q[i]

LEMMA AppendGrows ==
  ASSUME NEW q \in Seq(Message), NEW e \in Message
  PROVE  LET r == Append(q, e) IN
           /\ Grows(q, r) /\ \A i \in DOMAIN r \ DOMAIN q : r[i] = e
           /\ \A i \in DOMAIN r \ DOMAIN q : \A j \in DOMAIN q : j \in 1..(i - 1)
  <1> DEFINE r == Append(q, e)
  <1>1. /\ r \in Seq(Message) /\ DOMAIN q = 1..Len(q) /\ Len(q) \in Nat
        /\ DOMAIN r = 1..(Len(q) + 1)
        /\ \A i \in 1..(Len(q) + 1) : r[i] = IF i = Len(q) + 1 THEN e ELSE q[i]
    OBVIOUS
  <1> HIDE DEF r
  <1>2. Grows(q, r)
    BY <1>1 DEF Grows
  <1>3. \A i \in DOMAIN r \ DOMAIN q : i = Len(q) + 1
    BY <1>1
  <1> QED BY <1>1, <1>2, <1>3 DEF r

LEMMA PairGrows ==
  ASSUME NEW q \in Seq(Message), NEW e \in Message, NEW f \in Message
  PROVE  LET r == q \o <<e, f>> IN
           Grows(q, r) /\ \A i \in DOMAIN r \ DOMAIN q : r[i] \in {e, f}
  <1> DEFINE p == Append(q, e)
             r == Append(p, f)
  <1>1. q \o <<e, f>> = r
    OBVIOUS
  <1>2. Grows(q, p) /\ \A i \in DOMAIN p \ DOMAIN q : p[i] = e
    BY AppendGrows
  <1> HIDE DEF p
  <1>3. Grows(p, r) /\ \A i \in DOMAIN r \ DOMAIN p : r[i] = f
    BY <1>2, AppendGrows DEF Grows
  <1> HIDE DEF r
  <1> QED BY <1>1, <1>2, <1>3 DEF Grows

\* What a step of another thread, or of the machine, may do without an order: a report
\* of success is of the attempt the machine has, and true, or the machine gave it up.
Works ==
  /\ c'.pc = c.pc /\ c'.state = c.state /\ c'.attempt = c.attempt
  /\ c'.machine_thread = c.machine_thread /\ c'.handle = c.handle
  /\ c'.running = c.running /\ c'.dhcp_auth_step = c.dhcp_auth_step /\ c'.armed = c.armed
  /\ m'.at = m.at /\ m'.inbox = m.inbox /\ (Runs(m') <=> Runs(m))
  /\ m'.st = "none" <=> m.st = "none"
  /\ m.st \in {"logoff", "ended"} =>
       m'.st \in {"logoff", "ended"} /\ c'.reconnect_fail = c.reconnect_fail
  /\ sender' = sender \/ (Runs(m) /\ sender' = Append(sender, "logoff"))
  /\ adapter' = adapter
  /\ heard' = heard \/ heard' = m.at
  /\ Grows(queue, queue')
  /\ \A i \in DOMAIN queue' \ DOMAIN queue :
       queue'[i].type = "RETURN" =>
         /\ Runs(m)
         /\ queue'[i].arg = "AUTHENTICATED" =>
              /\ queue'[i].at = m.at
              /\ heard' = m.at \/ (c'.reconnect_fail /\ m'.st = "logoff")

LEMMA LogoffAppended ==
  ASSUME NEW w, Typed(w), NEW x, Closing(w), Runs(w.m), x.adapter = w.adapter,
         x.sender = Append(w.sender, "logoff")
  PROVE  Closing(x)
<1>1. w.sender \in Seq({"logoff", "CLOSE_ADAPTER"})
  BY Fields
<1>2. /\ DOMAIN x.sender = 1..(Len(w.sender) + 1) /\ DOMAIN w.sender = 1..Len(w.sender)
      /\ Len(w.sender) \in Nat
      /\ \A i \in DOMAIN x.sender :
           x.sender[i] = IF i = Len(w.sender) + 1 THEN "logoff" ELSE w.sender[i]
  BY <1>1
<1>3. \A i \in DOMAIN x.sender : x.sender[i] # "CLOSE_ADAPTER"
  BY <1>2 DEF Closing
<1>4. \A i \in DOMAIN x.sender : \A j \in 1..i : j \in DOMAIN x.sender
  BY <1>2
<1> QED BY <1>3, <1>4 DEF Closing

LEMMA WorksGood ==
  ASSUME Good(Now), Typed(Now)', Works
  PROVE  Good(Now)'
<1> USE NowTyped
<1>1. /\ Now.c' = c' /\ Now.m' = m' /\ Now.queue' = queue'
      /\ Now.sender' = sender' /\ Now.adapter' = adapter'
  BY DEF Now
<1>2. Stepped(Now.c)'
  BY <1>1 DEF Good, Stepped, Works
<1>3. Machined(Now)'
  BY <1>1 DEF Good, Machined, Works
<1>4. Closing(Now)'
  <2>1. CASE sender' = sender
    BY <1>1, <2>1 DEF Good, Closing, Works
  <2>2. CASE Runs(m) /\ sender' = Append(sender, "logoff")
    BY <1>1, <2>2, LogoffAppended DEF Good, Works
  <2> QED BY <2>1, <2>2 DEF Works
<1>5. OwnRepairs' => Owned(Now.c)'
  BY <1>1 DEF Good, Works, Owned, OwnRepairs
<1>6. QuietRepairs' => Quiet(Now.c)'
  BY <1>1 DEF Good, Works, Quiet, QuietRepairs
<1>7. LifeRepairs' => Lives(Now)'
  <2> SUFFICES ASSUME LifeRepairs PROVE Lives(Now)'
    BY DEF LifeRepairs
  <2>1. ASSUME c.pc = "idle", c.state = "INVALID", NEW i \in DOMAIN queue'
        PROVE  queue'[i].type # "RETURN"
    <3>1. m.st = "none" /\ \A j \in DOMAIN queue : queue[j].type # "RETURN"
      BY <2>1 DEF Good, Lives
    <3> QED BY <2>1, <3>1 DEF Works, Grows, Runs
  <2> QED BY <1>1, <2>1 DEF Good, Lives, Works
<1>8. SessionRepairs' => Session(Now)'
  <2> SUFFICES ASSUME SessionRepairs PROVE Session(Now)'
    BY DEF SessionRepairs
  <2>1. /\ heard \in Nat /\ heard <= m.at /\ m.at <= c.attempt
        /\ c.state = "AUTHENTICATED" => heard = c.attempt
        /\ c.handle \cap {"DHCP_IP", "DHCP_TIMEOUT"} # {} => heard = c.attempt
        /\ StartsOrdered(m, c.attempt)
        /\ \A i \in DOMAIN queue : Truthful(queue[i], c, m)
    BY DEF Good, Session
  <2>2. m.at \in Nat /\ c.attempt \in Nat
    BY DEF Good, MachineThread, Control
  <2>3. heard = c.attempt => heard' = c.attempt /\ m.at = c.attempt
    BY <2>1, <2>2 DEF Works
  <2>4. heard' \in Nat /\ heard' <= m.at
    BY <2>1, <2>2 DEF Works
  <2>5. StartsOrdered(m', c.attempt)
    BY <2>1 DEF StartsOrdered, Works
  <2>6. ASSUME NEW i \in DOMAIN queue' PROVE Truthful(queue[i], c, m)'
    <3>1. CASE i \in DOMAIN queue
      <4>1. Truthful(queue[i], c, m) /\ queue'[i] = queue[i]
        BY <2>1, <3>1 DEF Works, Grows
      <4> QED BY <2>3, <4>1 DEF Truthful, Works
    <3>2. CASE i \notin DOMAIN queue
      BY <2>1, <2>2, <2>6, <3>2 DEF Truthful, Works
    <3> QED BY <3>1, <3>2
  <2> QED BY <1>1, <2>1, <2>3, <2>4, <2>5, <2>6 DEF Session, Works
<1> QED BY <1>1, <1>2, <1>3, <1>4, <1>5, <1>6, <1>7, <1>8 DEF Good
-----------------------------------------------------------------------------
(* The steps of the others *)

\* The control thread is not told to begin or to end.
Announces ==
  \A i \in DOMAIN queue' \ DOMAIN queue : queue'[i].type \notin {"START_MACHINE", "STOP_THREAD"}

Outside == Good(Now)' /\ Works /\ Announces /\ quit' \in {quit, "asked"}

LEMMA QueueStays ==
  ASSUME queue \in Seq(Message), queue' = queue
  PROVE  Grows(queue, queue') /\ DOMAIN queue' \ DOMAIN queue = {}
BY DEF Grows

LEMMA ReportGrows ==
  ASSUME queue \in Seq(Message), m \in MachineThread, NEW type \in Types, NEW arg \in Args,
         type \notin {"CONNECT_NOTIFY", "ADAPTER"}, Report(type, arg)
  PROVE  /\ queue' \in Seq(Message) /\ Grows(queue, queue')
         /\ \A i \in DOMAIN queue' \ DOMAIN queue :
              queue'[i].type = type /\ queue'[i].arg = arg /\ queue'[i].at = m.at
  <1> DEFINE e == Msg(type, arg, m.at)
  <1>1. e \in Message /\ e.type = type /\ e.arg = arg /\ e.at = m.at
    BY DEF Msg, Message, MachineThread
  <1>2. queue' = Append(queue, e)
    BY DEF Report
  <1> HIDE DEF e
  <1>3. Grows(queue, queue') /\ \A i \in DOMAIN queue' \ DOMAIN queue : queue'[i] = e
    BY <1>1, <1>2, AppendGrows
  <1> QED BY <1>1, <1>3 DEF Grows

LEMMA MachineRequestOutside ==
  ASSUME Good(Now), MachineRequest
  PROVE  Outside
<1>1. /\ c \in Control /\ queue \in Seq(Message) /\ m \in MachineThread /\ Held(c)
      /\ sender \in Seq({"logoff", "CLOSE_ADAPTER"}) /\ adapter \in BOOLEAN
      /\ quit \in {"no", "asked", "notified", "stopped"}
  BY NowTyped DEF Good
<1>2. /\ m' \in MachineThread /\ m'.st = "asked" /\ m'.at = m.at /\ m'.inbox = m.inbox
      /\ Runs(m) /\ m.st \notin {"logoff", "ended"} /\ Runs(m')
  BY <1>1 DEF MachineRequest, MachineThread, Runs
<1>3. (link = "ruijie") \in BOOLEAN
  OBVIOUS
<1>4. c' \in Control
  BY <1>1, <1>3 DEF MachineRequest, Control
<1>5. /\ c'.pc = c.pc /\ c'.state = c.state /\ c'.attempt = c.attempt
      /\ c'.machine_thread = c.machine_thread /\ c'.handle = c.handle
      /\ c'.running = c.running /\ c'.dhcp_auth_step = c.dhcp_auth_step
      /\ c'.armed = c.armed
  BY <1>1 DEF MachineRequest, Control
<1>6. Grows(queue, queue') /\ DOMAIN queue' \ DOMAIN queue = {}
  BY <1>1, QueueStays DEF MachineRequest
<1>7. Works
  BY <1>2, <1>5, <1>6 DEF Works, MachineRequest, Runs
<1>8. Typed(Now)'
  BY <1>1, <1>2, <1>4, <1>5, NextTyped DEF MachineRequest, Held
<1> QED BY <1>6, <1>7, <1>8, WorksGood DEF Outside, Announces, MachineRequest

LEMMA MachineSuccessOutside ==
  ASSUME Good(Now), MachineSuccess
  PROVE  Outside
<1>1. /\ c \in Control /\ queue \in Seq(Message) /\ m \in MachineThread /\ Held(c)
      /\ sender \in Seq({"logoff", "CLOSE_ADAPTER"}) /\ adapter \in BOOLEAN
      /\ quit \in {"no", "asked", "notified", "stopped"}
  BY NowTyped DEF Good
<1>2. /\ m' \in MachineThread /\ m'.st = "online" /\ m'.at = m.at /\ m'.inbox = m.inbox
      /\ Runs(m) /\ m.st \notin {"logoff", "ended"} /\ Runs(m')
  BY <1>1 DEF MachineSuccess, MachineThread, Runs
<1>4. c' \in Control
  BY <1>1 DEF MachineSuccess, Control
<1>5. /\ c'.pc = c.pc /\ c'.state = c.state /\ c'.attempt = c.attempt
      /\ c'.machine_thread = c.machine_thread /\ c'.handle = c.handle
      /\ c'.running = c.running /\ c'.dhcp_auth_step = c.dhcp_auth_step
      /\ c'.armed = c.armed
  BY <1>1 DEF MachineSuccess, Control
<1>6. /\ queue' \in Seq(Message) /\ Grows(queue, queue')
      /\ \A i \in DOMAIN queue' \ DOMAIN queue :
           queue'[i].type = "RETURN" /\ queue'[i].at = m.at
  BY <1>1, ReportGrows, QueueStays DEF MachineSuccess, Types, Args
<1>7. Works
  BY <1>2, <1>5, <1>6 DEF Works, MachineSuccess, Runs
<1>8. Typed(Now)'
  BY <1>1, <1>2, <1>4, <1>5, <1>6, NextTyped DEF MachineSuccess, Held
<1> QED BY <1>6, <1>7, <1>8, WorksGood DEF Outside, Announces, MachineSuccess

LEMMA MachineGivesUpOutside ==
  ASSUME Good(Now), MachineGivesUp
  PROVE  Outside
<1>1. /\ c \in Control /\ queue \in Seq(Message) /\ m \in MachineThread /\ Held(c)
      /\ sender \in Seq({"logoff", "CLOSE_ADAPTER"}) /\ adapter \in BOOLEAN
      /\ quit \in {"no", "asked", "notified", "stopped"}
  BY NowTyped DEF Good
<1>2. /\ m' \in MachineThread /\ m'.st = "logoff" /\ m'.at = m.at /\ m'.inbox = m.inbox
      /\ Runs(m) /\ m.st \notin {"logoff", "ended"} /\ Runs(m')
  BY <1>1 DEF MachineGivesUp, MachineThread, Runs
<1>4. c' \in Control
  BY <1>1 DEF MachineGivesUp, Control
<1>5. /\ c'.pc = c.pc /\ c'.state = c.state /\ c'.attempt = c.attempt
      /\ c'.machine_thread = c.machine_thread /\ c'.handle = c.handle
      /\ c'.running = c.running /\ c'.dhcp_auth_step = c.dhcp_auth_step
      /\ c'.armed = c.armed /\ c'.reconnect_fail
  BY <1>1 DEF MachineGivesUp, Control
<1>6. /\ queue' \in Seq(Message) /\ Grows(queue, queue')
      /\ \A i \in DOMAIN queue' \ DOMAIN queue :
           queue'[i].type = "RETURN" /\ queue'[i].at = m.at
  BY <1>1, ReportGrows DEF MachineGivesUp, Types, Args
<1>7. Works
  BY <1>2, <1>5, <1>6 DEF Works, MachineGivesUp, Runs
<1>8. Typed(Now)'
  BY <1>1, <1>2, <1>4, <1>5, <1>6, NextTyped DEF MachineGivesUp, Held
<1> QED BY <1>6, <1>7, <1>8, WorksGood DEF Outside, Announces, MachineGivesUp

LEMMA MachineFailureOutside ==
  ASSUME Good(Now), NEW text \in BOOLEAN, NEW again \in BOOLEAN, MachineFailure(text, again)
  PROVE  Outside
<1>1. /\ c \in Control /\ queue \in Seq(Message) /\ m \in MachineThread /\ Held(c)
      /\ sender \in Seq({"logoff", "CLOSE_ADAPTER"}) /\ adapter \in BOOLEAN
      /\ quit \in {"no", "asked", "notified", "stopped"}
  BY NowTyped DEF Good
<1>2. /\ m' \in MachineThread /\ m'.at = m.at /\ m'.inbox = m.inbox
      /\ Runs(m) /\ m.st \notin {"logoff", "ended"} /\ Runs(m')
  BY <1>1 DEF MachineFailure, MachineThread, Runs
<1>4. c' \in Control
  <2> DEFINE fails == c.connect_fail \/ ~again
  <2>1. fails \in BOOLEAN
    BY <1>1 DEF Control
  <2>2. c' = [c EXCEPT !.logoff_message = text, !.connect_fail = fails]
    BY DEF MachineFailure
  <2> HIDE DEF fails
  <2> QED BY <1>1, <2>1, <2>2 DEF Control
<1>5. /\ c'.pc = c.pc /\ c'.state = c.state /\ c'.attempt = c.attempt
      /\ c'.machine_thread = c.machine_thread /\ c'.handle = c.handle
      /\ c'.running = c.running /\ c'.dhcp_auth_step = c.dhcp_auth_step
      /\ c'.armed = c.armed
  BY <1>1 DEF MachineFailure, Control
<1>6. /\ queue' \in Seq(Message) /\ Grows(queue, queue')
      /\ \A i \in DOMAIN queue' \ DOMAIN queue : queue'[i].type = "EAP_FAILURE"
  BY <1>1, ReportGrows DEF MachineFailure, Types, Args
<1>7. Works
  BY <1>2, <1>5, <1>6 DEF Works, MachineFailure, Runs
<1>8. Typed(Now)'
  BY <1>1, <1>2, <1>4, <1>5, <1>6, NextTyped DEF MachineFailure, Held
<1> QED BY <1>6, <1>7, <1>8, WorksGood DEF Outside, Announces, MachineFailure

LEMMA MachineRefusedOutside ==
  ASSUME Good(Now), NEW text \in BOOLEAN, MachineRefused(text)
  PROVE  Outside
<1> DEFINE e == Msg("EAP_FAILURE", "none", m.at)
           f == IF c.is_ruijie_nas THEN Msg("FORCE_OFFLINE", "null", m.at)
                                   ELSE Msg("COMPATIBLE_LOGOFF", "none", m.at)
<1>1. /\ c \in Control /\ queue \in Seq(Message) /\ m \in MachineThread /\ Held(c)
      /\ sender \in Seq({"logoff", "CLOSE_ADAPTER"}) /\ adapter \in BOOLEAN
      /\ quit \in {"no", "asked", "notified", "stopped"}
  BY NowTyped DEF Good
<1>2. /\ m' \in MachineThread /\ m'.at = m.at /\ m'.inbox = m.inbox
      /\ Runs(m) /\ m.st \notin {"logoff", "ended"} /\ Runs(m')
  BY <1>1 DEF MachineRefused, MachineThread, Runs
<1>4. c' \in Control
  BY <1>1 DEF MachineRefused, Control
<1>5. /\ c'.pc = c.pc /\ c'.state = c.state /\ c'.attempt = c.attempt
      /\ c'.machine_thread = c.machine_thread /\ c'.handle = c.handle
      /\ c'.running = c.running /\ c'.dhcp_auth_step = c.dhcp_auth_step
      /\ c'.armed = c.armed
  BY <1>1 DEF MachineRefused, Control
<1>6. /\ queue' \in Seq(Message) /\ Grows(queue, queue')
      /\ \A i \in DOMAIN queue' \ DOMAIN queue :
           queue'[i].type \in {"EAP_FAILURE", "FORCE_OFFLINE", "COMPATIBLE_LOGOFF"}
  <2>1. e \in Message /\ e.type = "EAP_FAILURE"
    BY <1>1 DEF Msg, Message, MachineThread, Types, Args
  <2>2. f \in Message /\ f.type \in {"FORCE_OFFLINE", "COMPATIBLE_LOGOFF"}
    BY <1>1 DEF Msg, Message, MachineThread, Types, Args
  <2>3. queue' = queue \o <<e, f>>
    BY DEF MachineRefused
  <2> HIDE DEF e, f
  <2>4. Grows(queue, queue') /\ \A i \in DOMAIN queue' \ DOMAIN queue : queue'[i] \in {e, f}
    BY <1>1, <2>1, <2>2, <2>3, PairGrows
  <2> QED BY <2>1, <2>2, <2>4 DEF Grows
<1>7. Works
  BY <1>2, <1>5, <1>6 DEF Works, MachineRefused, Runs
<1>8. Typed(Now)'
  BY <1>1, <1>2, <1>4, <1>5, <1>6, NextTyped DEF MachineRefused, Held
<1> QED BY <1>6, <1>7, <1>8, WorksGood DEF Outside, Announces, MachineRefused

LEMMA MachineTimeoutOutside ==
  ASSUME Good(Now), MachineTimeout
  PROVE  Outside
<1>1. /\ c \in Control /\ queue \in Seq(Message) /\ m \in MachineThread /\ Held(c)
      /\ sender \in Seq({"logoff", "CLOSE_ADAPTER"}) /\ adapter \in BOOLEAN
      /\ quit \in {"no", "asked", "notified", "stopped"}
  BY NowTyped DEF Good
<1>2. /\ m' \in MachineThread /\ m'.at = m.at /\ m'.inbox = m.inbox
      /\ Runs(m) /\ m.st \notin {"logoff", "ended"} /\ Runs(m')
  BY <1>1 DEF MachineTimeout, MachineThread, Runs
<1>4. c' \in Control
  BY <1>1 DEF MachineTimeout, Control
<1>5. /\ c'.pc = c.pc /\ c'.state = c.state /\ c'.attempt = c.attempt
      /\ c'.machine_thread = c.machine_thread /\ c'.handle = c.handle
      /\ c'.running = c.running /\ c'.dhcp_auth_step = c.dhcp_auth_step
      /\ c'.armed = c.armed
  BY <1>1 DEF MachineTimeout, Control
<1>6. Grows(queue, queue') /\ DOMAIN queue' \ DOMAIN queue = {}
  BY <1>1, QueueStays DEF MachineTimeout
<1>7. Works
  BY <1>2, <1>5, <1>6 DEF Works, MachineTimeout, Runs
<1>8. Typed(Now)'
  BY <1>1, <1>2, <1>4, <1>5, NextTyped DEF MachineTimeout, Held
<1> QED BY <1>6, <1>7, <1>8, WorksGood DEF Outside, Announces, MachineTimeout

LEMMA HoldEndsOutside ==
  ASSUME Good(Now), HoldEnds
  PROVE  Outside
<1>1. /\ c \in Control /\ queue \in Seq(Message) /\ m \in MachineThread /\ Held(c)
      /\ sender \in Seq({"logoff", "CLOSE_ADAPTER"}) /\ adapter \in BOOLEAN
      /\ quit \in {"no", "asked", "notified", "stopped"}
  BY NowTyped DEF Good
<1>2. /\ m' \in MachineThread /\ m'.at = m.at /\ m'.inbox = m.inbox
      /\ Runs(m) /\ m.st \notin {"logoff", "ended"} /\ Runs(m')
  BY <1>1 DEF HoldEnds, MachineThread, Runs
<1>3. /\ sender' \in Seq({"logoff", "CLOSE_ADAPTER"})
      /\ sender' = sender \/ sender' = Append(sender, "logoff")
  <2>1. "logoff" \in {"logoff", "CLOSE_ADAPTER"}
    OBVIOUS
  <2> QED BY <1>1, <2>1, AppendOf DEF HoldEnds
<1>6. /\ queue' \in Seq(Message) /\ Grows(queue, queue')
      /\ \A i \in DOMAIN queue' \ DOMAIN queue :
           queue'[i].type = "RETURN" /\ queue'[i].arg = "LOGOFF"
  BY <1>1, ReportGrows, QueueStays DEF HoldEnds, Types, Args
<1>7. Works
  BY <1>2, <1>3, <1>6 DEF Works, HoldEnds, Runs
<1>8. Typed(Now)'
  BY <1>1, <1>2, <1>3, <1>6, NextTyped DEF HoldEnds
<1> QED BY <1>6, <1>7, <1>8, WorksGood DEF Outside, Announces, HoldEnds
LEMMA MessageGrows ==
  ASSUME queue \in Seq(Message), NEW e \in Message, queue' = Append(queue, e)
  PROVE  /\ queue' \in Seq(Message) /\ Grows(queue, queue')
         /\ \A i \in DOMAIN queue' \ DOMAIN queue : queue'[i] = e
BY AppendGrows DEF Grows

LEMMA TickOutside ==
  ASSUME Good(Now), NEW f \in Flags, Tick(f)
  PROVE  Outside
<1> DEFINE e == Msg("TIMER", f, c.attempt)
           g == [c.gate EXCEPT ![f] = "busy"]
<1>1. /\ c \in Control /\ queue \in Seq(Message) /\ m \in MachineThread /\ Held(c)
      /\ sender \in Seq({"logoff", "CLOSE_ADAPTER"}) /\ adapter \in BOOLEAN
      /\ quit \in {"no", "asked", "notified", "stopped"}
  BY NowTyped DEF Good
<1>2. e \in Message /\ e.type = "TIMER"
  BY <1>1 DEF Msg, Message, Control, Types, Args
<1>3. queue' = Append(queue, e) /\ c' = [c EXCEPT !.gate = g]
  BY DEF Tick
<1> HIDE DEF e
<1>4. g \in [Flags -> {"none", "open", "busy"}]
  BY <1>1 DEF Control
<1> HIDE DEF g
<1>5. c' \in Control
  BY <1>1, <1>3, <1>4 DEF Control
<1>6. /\ c'.pc = c.pc /\ c'.state = c.state /\ c'.attempt = c.attempt
      /\ c'.machine_thread = c.machine_thread /\ c'.handle = c.handle
      /\ c'.running = c.running /\ c'.dhcp_auth_step = c.dhcp_auth_step
      /\ c'.armed = c.armed /\ c'.reconnect_fail = c.reconnect_fail
  BY <1>1, <1>3 DEF Control
<1>7. /\ queue' \in Seq(Message) /\ Grows(queue, queue')
      /\ \A i \in DOMAIN queue' \ DOMAIN queue : queue'[i] = e
  BY <1>1, <1>2, <1>3, MessageGrows
<1>8. Works
  BY <1>2, <1>6, <1>7 DEF Works, Tick
<1>9. Typed(Now)'
  BY <1>1, <1>5, <1>6, <1>7, NextTyped DEF Tick, Held
<1> QED BY <1>2, <1>7, <1>8, <1>9, WorksGood DEF Outside, Announces, Tick

LEMMA MessagesOfTyped ==
  ASSUME c \in Control, NEW e \in Events, e # "quit", NEW msg \in MessagesOf(e)
  PROVE  msg \in Message /\ msg.type \notin {"RETURN", "START_MACHINE", "STOP_THREAD"}
<1>0. c.attempt \in Nat
  BY DEF Control
<1>1. CASE e = "DHCP_RESULT"
  BY <1>0, <1>1 DEF MessagesOf, Msg, Message, Types, Args, AdapterMessages, ServerMessages
<1>2. CASE e = "HANDSHAKE"
  BY <1>0, <1>2 DEF MessagesOf, Msg, Message, Types, Args, AdapterMessages, ServerMessages
<1>3. CASE e = "FORCE_OFFLINE"
  BY <1>0, <1>3 DEF MessagesOf, Msg, Message, Types, Args, AdapterMessages, ServerMessages
<1>4. CASE e \in AdapterMessages
  <2>1. msg = Msg("ADAPTER", e, c.attempt)
    BY <1>4 DEF MessagesOf, AdapterMessages
  <2> QED BY <1>0, <1>4, <2>1 DEF Msg, Message, Types, Args
<1>5. CASE e \in {"REAUTH", "OTHER_WANT_LOGOFF", "PROXY_RESULT"}
  <2>1. msg = Msg(e, "none", c.attempt)
    BY <1>5 DEF MessagesOf, AdapterMessages
  <2> QED BY <1>0, <1>5, <2>1 DEF Msg, Message, Types, Args
<1> QED BY <1>1, <1>2, <1>3, <1>4, <1>5 DEF Events, ServerMessages

LEMMA PostOutside ==
  ASSUME Good(Now), NEW e \in Events, Post(e)
  PROVE  Outside
<1> DEFINE up == IF e \in {"UP", "DOWN"} THEN e = "UP" ELSE c.nic_up
<1>1. /\ c \in Control /\ queue \in Seq(Message) /\ m \in MachineThread /\ Held(c)
      /\ sender \in Seq({"logoff", "CLOSE_ADAPTER"}) /\ adapter \in BOOLEAN
      /\ quit \in {"no", "asked", "notified", "stopped"}
  BY NowTyped DEF Good
<1>2. PICK msg \in MessagesOf(e) : queue' = Append(queue, msg)
  BY DEF Post
<1>3. msg \in Message /\ msg.type \notin {"RETURN", "START_MACHINE", "STOP_THREAD"}
  <2>1. e # "quit"
    BY DEF Post, CanPost, ServerMessages
  <2> QED BY <1>1, <2>1, MessagesOfTyped
<1>4. up \in BOOLEAN /\ c' = [c EXCEPT !.nic_up = up]
  BY <1>1 DEF Post, Control
<1> HIDE DEF up
<1>5. c' \in Control
  BY <1>1, <1>4 DEF Control
<1>6. /\ c'.pc = c.pc /\ c'.state = c.state /\ c'.attempt = c.attempt
      /\ c'.machine_thread = c.machine_thread /\ c'.handle = c.handle
      /\ c'.running = c.running /\ c'.dhcp_auth_step = c.dhcp_auth_step
      /\ c'.armed = c.armed /\ c'.reconnect_fail = c.reconnect_fail
  BY <1>1, <1>4 DEF Control
<1>7. /\ queue' \in Seq(Message) /\ Grows(queue, queue')
      /\ \A i \in DOMAIN queue' \ DOMAIN queue : queue'[i] = msg
  BY <1>1, <1>2, <1>3, MessageGrows
<1>8. Works
  BY <1>3, <1>6, <1>7 DEF Works, Post
<1>9. Typed(Now)'
  BY <1>1, <1>5, <1>6, <1>7, NextTyped DEF Post, Held
<1> QED BY <1>3, <1>7, <1>8, <1>9, WorksGood DEF Outside, Announces, Post

LEMMA UserQuitsOutside ==
  ASSUME Good(Now), UserQuits
  PROVE  Outside
<1>1. /\ c \in Control /\ queue \in Seq(Message) /\ m \in MachineThread /\ Held(c)
      /\ sender \in Seq({"logoff", "CLOSE_ADAPTER"}) /\ adapter \in BOOLEAN
  BY NowTyped DEF Good
<1>2. Grows(queue, queue') /\ DOMAIN queue' \ DOMAIN queue = {}
  BY <1>1, QueueStays DEF UserQuits
<1>3. Works
  BY <1>2 DEF Works, UserQuits
<1>4. Typed(Now)'
  BY <1>1, NextTyped DEF UserQuits
<1> QED BY <1>2, <1>3, <1>4, WorksGood DEF Outside, Announces, UserQuits

\* do_quit posts the notice of the quit, and then the order to end.
IsQuit(x) == x.type = "CONNECT_NOTIFY" /\ x.arg = "quit"

LEMMA DoQuitWorks ==
  ASSUME Good(Now), DoQuit
  PROVE  /\ Good(Now)' /\ Works
         /\ \A i \in DOMAIN queue' \ DOMAIN queue :
              /\ IF quit = "asked" THEN IsQuit(queue'[i]) ELSE queue'[i].type = "STOP_THREAD"
              /\ \A j \in DOMAIN queue : j \in 1..(i - 1)
         /\ DOMAIN queue' \ DOMAIN queue # {}
<1> DEFINE e == IF quit = "asked" THEN Msg("CONNECT_NOTIFY", "quit", 0)
                ELSE Msg("STOP_THREAD", "none", 0)
<1>1. /\ c \in Control /\ queue \in Seq(Message) /\ m \in MachineThread /\ Held(c)
      /\ sender \in Seq({"logoff", "CLOSE_ADAPTER"}) /\ adapter \in BOOLEAN
      /\ quit' \in {"no", "asked", "notified", "stopped"}
  BY NowTyped DEF Good, DoQuit
<1>2. /\ e \in Message /\ e.type # "RETURN"
      /\ IF quit = "asked" THEN IsQuit(e) ELSE e.type = "STOP_THREAD"
  BY DEF Msg, Message, Types, Args, IsQuit
<1>3. queue' = Append(queue, e)
  BY DEF DoQuit
<1> HIDE DEF e
<1>4. /\ queue' \in Seq(Message) /\ Grows(queue, queue')
      /\ \A i \in DOMAIN queue' \ DOMAIN queue : queue'[i] = e
  BY <1>1, <1>2, <1>3, MessageGrows
<1>5. Works
  BY <1>2, <1>4 DEF Works, DoQuit
<1>6. Typed(Now)'
  BY <1>1, <1>4, NextTyped DEF DoQuit
<1>7. \A i \in DOMAIN queue' \ DOMAIN queue : \A j \in DOMAIN queue : j \in 1..(i - 1)
  BY <1>1, <1>2, <1>3, AppendGrows
<1>8. DOMAIN queue' \ DOMAIN queue # {}
  <2>1. DOMAIN queue = 1..Len(queue) /\ DOMAIN queue' = 1..(Len(queue) + 1) /\ Len(queue) \in Nat
    BY <1>1, <1>3
  <2>2. Len(queue) + 1 \in DOMAIN queue' /\ Len(queue) + 1 \notin DOMAIN queue
    BY <2>1
  <2> QED BY <2>2
<1> QED BY <1>2, <1>4, <1>5, <1>6, <1>7, <1>8, WorksGood
-----------------------------------------------------------------------------
(* The machine's orders, the sender, and the end of the machine *)

LEMMA InboxTail ==
  ASSUME m \in MachineThread, m.inbox # <<>>, NEW n, n.inbox = Tail(m.inbox),
         NEW k \in Nat, StartsOrdered(m, k),
         n.at = IF Head(m.inbox).order = "START" THEN Head(m.inbox).at ELSE m.at
  PROVE  /\ StartsOrdered(n, k)
         /\ Head(m.inbox).order = "START" => m.at < n.at /\ n.at <= k
<1>1. m.inbox \in Seq([order : Orders, at : Nat]) /\ m.at \in Nat
  BY DEF MachineThread
<1>2. /\ Head(m.inbox) = m.inbox[1] /\ 1 \in DOMAIN m.inbox
      /\ \A i \in DOMAIN n.inbox : i + 1 \in DOMAIN m.inbox /\ n.inbox[i] = m.inbox[i + 1]
                                   /\ i \in Nat /\ i # 0
  BY <1>1, TailOf
<1>3. Head(m.inbox).order = "START" => m.at < n.at /\ n.at <= k
  BY <1>2 DEF StartsOrdered
<1>4. ASSUME NEW i \in DOMAIN n.inbox, n.inbox[i].order = "START"
      PROVE  /\ n.at < n.inbox[i].at /\ n.inbox[i].at <= k
             /\ \A j \in 1..(i - 1) : n.inbox[j].order = "START" => n.inbox[j].at < n.inbox[i].at
  <2>1. i + 1 \in DOMAIN m.inbox /\ n.inbox[i] = m.inbox[i + 1] /\ i \in Nat /\ i # 0
    BY <1>2, <1>4
  <2>2. /\ m.at < n.inbox[i].at /\ n.inbox[i].at <= k
        /\ \A j \in 1..i : m.inbox[j].order = "START" => m.inbox[j].at < n.inbox[i].at
    BY <1>4, <2>1 DEF StartsOrdered
  <2>3. n.at < n.inbox[i].at
    BY <1>2, <2>1, <2>2
  <2>4. ASSUME NEW j \in 1..(i - 1), n.inbox[j].order = "START"
        PROVE  n.inbox[j].at < n.inbox[i].at
    <3>1. j \in DOMAIN n.inbox /\ j + 1 \in 1..i
      <4>1. DOMAIN n.inbox = 1..Len(n.inbox) /\ Len(n.inbox) \in Nat
        BY <1>1
      <4> QED BY <1>4, <4>1
    <3> QED BY <1>2, <2>2, <2>4, <3>1
  <2> QED BY <2>2, <2>3, <2>4
<1> QED BY <1>3, <1>4 DEF StartsOrdered

LEMMA StopsTail ==
  ASSUME m \in MachineThread, m.inbox # <<>>, NEW n, n.inbox = Tail(m.inbox),
         NEW P, \A i \in DOMAIN m.inbox : m.inbox[i].order = "STOP" => P
  PROVE  /\ \A i \in DOMAIN n.inbox : n.inbox[i].order = "STOP" => P
         /\ Head(m.inbox).order = "STOP" => P
<1>1. m.inbox \in Seq([order : Orders, at : Nat])
  BY DEF MachineThread
<1> QED BY <1>1, TailOf

LEMMA FailsTyped ==
  ASSUME NEW d \in Control, NEW a \in BOOLEAN, NEW b \in BOOLEAN
  PROVE  [d EXCEPT !.reconnect_fail = a, !.connect_fail = b] \in Control
  BY DEF Control

LEMMA JoinedTyped ==
  ASSUME NEW d \in Control, NEW l \in SUBSET Flags,
         NEW g \in [Flags -> {"none", "open", "busy"}]
  PROVE  [d EXCEPT !.pc = "idle", !.machine_thread = FALSE, !.leaving = l, !.gate = g]
           \in Control
  BY DEF Control

LEMMA MachineStartGood ==
  ASSUME Good(Now), MachineStart
  PROVE  Good(Now)'
<1> USE NowTyped
<1>1. /\ c \in Control /\ queue \in Seq(Message) /\ m \in MachineThread /\ Held(c)
      /\ sender \in Seq({"logoff", "CLOSE_ADAPTER"}) /\ adapter \in BOOLEAN
      /\ quit \in {"no", "asked", "notified", "stopped"}
  BY DEF Good
<1>2. /\ m'.st = "connecting" /\ m'.at = Head(m.inbox).at /\ m'.inbox = Tail(m.inbox)
      /\ Runs(m) /\ Runs(m') /\ Head(m.inbox).order = "START" /\ m.inbox # <<>>
      /\ m.at \in Nat /\ c.attempt \in Nat
  BY <1>1 DEF MachineStart, TakeOrder, MachineReady, MachineRuns, Runs, MachineThread, Control
<1>3. m' \in MachineThread
  <2>1. m.inbox \in Seq([order : Orders, at : Nat])
    BY <1>1 DEF MachineThread
  <2>2. Head(m.inbox) \in [order : Orders, at : Nat] /\ Tail(m.inbox) \in Seq([order : Orders, at : Nat])
    BY <1>2, <2>1, TailOf
  <2>3. Head(m.inbox).at \in Nat
    BY <2>2
  <2> QED BY <2>2, <2>3 DEF MachineStart, MachineThread
<1>4. c' \in Control
  <2>1. c' = [c EXCEPT !.reconnect_fail = FALSE, !.connect_fail = FALSE]
    BY DEF MachineStart
  <2> QED BY <1>1, <2>1, FailsTyped
<1>5. /\ c'.pc = c.pc /\ c'.state = c.state /\ c'.attempt = c.attempt
      /\ c'.machine_thread = c.machine_thread /\ c'.handle = c.handle
      /\ c'.running = c.running /\ c'.dhcp_auth_step = c.dhcp_auth_step
      /\ c'.armed = c.armed
  BY <1>1 DEF MachineStart, Control
<1>6. /\ queue' = queue /\ sender' = sender /\ adapter' = adapter /\ quit' = quit
      /\ heard' = heard
  BY DEF MachineStart
<1>7. Typed(Now)'
  BY <1>1, <1>3, <1>4, <1>5, <1>6, NextTyped DEF Held
<1>8. /\ Now.c' = c' /\ Now.m' = m' /\ Now.queue' = queue'
      /\ Now.sender' = sender' /\ Now.adapter' = adapter'
  BY DEF Now
<1>9. Stepped(Now.c)' /\ Closing(Now)'
  BY <1>2, <1>5, <1>6, <1>8 DEF Good, Stepped, Closing
<1>10. Machined(Now)'
  <2>1. \A i \in DOMAIN m'.inbox : m'.inbox[i].order = "STOP" => c.pc = "joining"
    <3>1. \A i \in DOMAIN m.inbox : m.inbox[i].order = "STOP" => c.pc = "joining"
      BY DEF Good, Machined
    <3> QED BY <1>1, <1>2, <3>1, StopsTail
  <2> QED BY <1>2, <1>5, <1>8, <2>1 DEF Good, Machined
<1>11. OwnRepairs' => Owned(Now.c)'
  BY <1>5, <1>8 DEF Good, Owned, OwnRepairs
<1>12. QuietRepairs' => Quiet(Now.c)'
  BY <1>5, <1>8 DEF Good, Quiet, QuietRepairs
<1>13. LifeRepairs' => Lives(Now)'
  BY <1>2, <1>5, <1>6, <1>8 DEF Good, Lives, LifeRepairs, Runs
<1>14. SessionRepairs' => Session(Now)'
  <2> SUFFICES ASSUME SessionRepairs PROVE Session(Now)'
    BY DEF SessionRepairs
  <2>1. /\ heard \in Nat /\ heard <= m.at /\ m.at <= c.attempt /\ StartsOrdered(m, c.attempt)
        /\ \A i \in DOMAIN queue : Truthful(queue[i], c, m)
        /\ c.state = "AUTHENTICATED" => heard = c.attempt
        /\ c.handle \cap {"DHCP_IP", "DHCP_TIMEOUT"} # {} => heard = c.attempt
    BY DEF Good, Session
  <2>2. StartsOrdered(m', c.attempt) /\ m.at < m'.at /\ m'.at <= c.attempt
    <3>1. Head(m.inbox).order = "START" /\ m'.at = Head(m.inbox).at /\ m'.inbox = Tail(m.inbox)
      BY <1>2
    <3> QED BY <1>1, <1>2, <2>1, <3>1, InboxTail
  <2>3. m'.at \in Nat /\ heard <= m'.at
    BY <1>2, <1>3, <2>1, <2>2 DEF MachineThread
  <2>4. ASSUME NEW i \in DOMAIN queue PROVE Truthful(queue[i], c, m)'
    BY <1>2, <1>3, <1>5, <1>6, <2>1, <2>2 DEF Truthful, MachineThread
  <2> QED BY <1>5, <1>6, <1>8, <2>1, <2>2, <2>3, <2>4 DEF Session
<1> QED BY <1>7, <1>8, <1>9, <1>10, <1>11, <1>12, <1>13, <1>14 DEF Good
LEMMA MachineLogoffGood ==
  ASSUME Good(Now), MachineLogoff
  PROVE  Good(Now)'
<1> USE NowTyped
<1>1. /\ c \in Control /\ queue \in Seq(Message) /\ m \in MachineThread /\ Held(c)
      /\ sender \in Seq({"logoff", "CLOSE_ADAPTER"}) /\ adapter \in BOOLEAN
      /\ quit \in {"no", "asked", "notified", "stopped"}
  BY DEF Good
<1>2. /\ m'.st = (IF m.st = "idle" THEN "idle" ELSE "logoff") /\ m'.at = m.at
      /\ m'.inbox = Tail(m.inbox)
      /\ Runs(m) /\ Runs(m') /\ Head(m.inbox).order = "LOGOFF" /\ m.inbox # <<>>
      /\ m.at \in Nat /\ c.attempt \in Nat
  BY <1>1 DEF MachineLogoff, TakeOrder, MachineReady, MachineRuns, Runs, MachineThread, Control
<1>3. m' \in MachineThread
  <2>1. m.inbox \in Seq([order : Orders, at : Nat])
    BY <1>1 DEF MachineThread
  <2>2. Tail(m.inbox) \in Seq([order : Orders, at : Nat])
    BY <1>2, <2>1, TailOf
  <2> QED BY <1>1, <2>2 DEF MachineLogoff, MachineThread
<1>4. /\ queue' = queue /\ c' = c /\ adapter' = adapter /\ quit' = quit /\ heard' = heard
      /\ sender' = sender \/ sender' = Append(sender, "logoff")
  BY DEF MachineLogoff
<1>5. sender' \in Seq({"logoff", "CLOSE_ADAPTER"})
  <2>1. "logoff" \in {"logoff", "CLOSE_ADAPTER"}
    OBVIOUS
  <2> QED BY <1>1, <1>4, <2>1, AppendOf
<1>6. Typed(Now)'
  BY <1>1, <1>3, <1>4, <1>5, NextTyped
<1>7. /\ Now.c' = c' /\ Now.m' = m' /\ Now.queue' = queue'
      /\ Now.sender' = sender' /\ Now.adapter' = adapter'
  BY DEF Now
<1>8. Closing(Now)'
  <2>1. CASE sender' = sender
    BY <1>2, <1>4, <1>7, <2>1 DEF Good, Closing
  <2>2. CASE sender' = Append(sender, "logoff")
    BY <1>2, <1>4, <1>7, <2>2, LogoffAppended DEF Good
  <2> QED BY <1>4, <2>1, <2>2
<1>9. Machined(Now)'
  <2>1. \A i \in DOMAIN m'.inbox : m'.inbox[i].order = "STOP" => c.pc = "joining"
    <3>1. \A i \in DOMAIN m.inbox : m.inbox[i].order = "STOP" => c.pc = "joining"
      BY DEF Good, Machined
    <3> QED BY <1>1, <1>2, <3>1, StopsTail
  <2> QED BY <1>2, <1>4, <1>7, <2>1 DEF Good, Machined, Runs
<1>10. /\ Stepped(Now.c)' /\ (OwnRepairs' => Owned(Now.c)')
       /\ (QuietRepairs' => Quiet(Now.c)')
  BY <1>4, <1>7 DEF Good, OwnRepairs, QuietRepairs
<1>11. LifeRepairs' => Lives(Now)'
  BY <1>2, <1>4, <1>7 DEF Good, Lives, LifeRepairs, Runs
<1>12. SessionRepairs' => Session(Now)'
  <2> SUFFICES ASSUME SessionRepairs PROVE Session(Now)'
    BY DEF SessionRepairs
  <2>1. Session(Now)
    BY DEF Good
  <2>2. StartsOrdered(m', c.attempt)
    <3>1. m'.at = IF Head(m.inbox).order = "START" THEN Head(m.inbox).at ELSE m.at
      BY <1>2
    <3> QED BY <1>1, <1>2, <2>1, <3>1, InboxTail DEF Session
  <2>3. ASSUME NEW i \in DOMAIN queue PROVE Truthful(queue[i], c, m)'
    BY <1>2, <1>4, <2>1 DEF Truthful, Session, Runs
  <2> QED BY <1>2, <1>4, <1>7, <2>1, <2>2, <2>3 DEF Session
<1> QED BY <1>6, <1>7, <1>8, <1>9, <1>10, <1>11, <1>12 DEF Good

LEMMA MachineStopGood ==
  ASSUME Good(Now), MachineStop
  PROVE  Good(Now)'
<1> USE NowTyped
<1>1. /\ c \in Control /\ queue \in Seq(Message) /\ m \in MachineThread /\ Held(c)
      /\ sender \in Seq({"logoff", "CLOSE_ADAPTER"}) /\ adapter \in BOOLEAN
      /\ quit \in {"no", "asked", "notified", "stopped"}
  BY DEF Good
<1>2. /\ m'.st = "ended" /\ m'.at = m.at /\ m'.inbox = <<>> /\ ~Runs(m')
      /\ Head(m.inbox).order = "STOP" /\ m.inbox # <<>>
  BY <1>1 DEF MachineStop, TakeOrder, Runs, MachineThread
<1>3. m' \in MachineThread
  <2>1. <<>> \in Seq([order : Orders, at : Nat])
    OBVIOUS
  <2> QED BY <1>1, <2>1 DEF MachineStop, MachineThread
<1>4. /\ queue' = queue /\ c' = c /\ adapter' = adapter /\ quit' = quit /\ heard' = heard
      /\ sender' = sender
  BY DEF MachineStop
<1>5. c.pc = "joining"
  <2>1. \A i \in DOMAIN m.inbox : m.inbox[i].order = "STOP" => c.pc = "joining"
    BY DEF Good, Machined
  <2>2. m.inbox \in Seq([order : Orders, at : Nat])
    BY <1>1 DEF MachineThread
  <2>3. 1 \in DOMAIN m.inbox /\ m.inbox[1].order = "STOP"
    BY <1>2, <2>2, TailOf
  <2> QED BY <2>1, <2>3
<1>6. Typed(Now)'
  BY <1>1, <1>3, <1>4, NextTyped
<1>7. /\ Now.c' = c' /\ Now.m' = m' /\ Now.queue' = queue'
      /\ Now.sender' = sender' /\ Now.adapter' = adapter'
  BY DEF Now
<1>8. Closing(Now)'
  BY <1>2, <1>4, <1>7 DEF Good, Closing
<1>9. Machined(Now)'
  BY <1>2, <1>4, <1>5, <1>7 DEF Good, Machined
<1>10. /\ Stepped(Now.c)' /\ (OwnRepairs' => Owned(Now.c)')
       /\ (QuietRepairs' => Quiet(Now.c)')
  BY <1>4, <1>7 DEF Good, OwnRepairs, QuietRepairs
<1>11. LifeRepairs' => Lives(Now)'
  BY <1>4, <1>5, <1>7 DEF Good, Lives, LifeRepairs
<1>12. SessionRepairs' => Session(Now)'
  <2> SUFFICES ASSUME SessionRepairs PROVE Session(Now)'
    BY DEF SessionRepairs
  <2>1. Session(Now)
    BY DEF Good
  <2>2. StartsOrdered(m', c.attempt)
    BY <1>2 DEF StartsOrdered
  <2>3. ASSUME NEW i \in DOMAIN queue PROVE Truthful(queue[i], c, m)'
    BY <1>2, <1>4, <2>1 DEF Truthful, Session
  <2> QED BY <1>2, <1>4, <1>7, <2>1, <2>2, <2>3 DEF Session
<1> QED BY <1>6, <1>7, <1>8, <1>9, <1>10, <1>11, <1>12 DEF Good

LEMMA SendGood ==
  ASSUME Good(Now), Send
  PROVE  Good(Now)'
<1> USE NowTyped
<1>1. /\ c \in Control /\ queue \in Seq(Message) /\ m \in MachineThread /\ Held(c)
      /\ sender \in Seq({"logoff", "CLOSE_ADAPTER"}) /\ adapter \in BOOLEAN
      /\ quit \in {"no", "asked", "notified", "stopped"}
  BY DEF Good
<1>2. /\ queue' = queue /\ c' = c /\ m' = m /\ quit' = quit /\ heard' = heard
      /\ sender' = Tail(sender) /\ sender # <<>>
      /\ adapter' = (adapter /\ Head(sender) # "CLOSE_ADAPTER")
  BY DEF Send
<1>3. /\ Tail(sender) \in Seq({"logoff", "CLOSE_ADAPTER"})
      /\ Head(sender) = sender[1] /\ 1 \in DOMAIN sender
      /\ \A i \in DOMAIN sender' : i + 1 \in DOMAIN sender /\ sender'[i] = sender[i + 1]
                                   /\ i \in Nat /\ i # 0
  BY <1>1, <1>2, TailOf
<1>4. Typed(Now)'
  BY <1>1, <1>2, <1>3, NextTyped
<1>5. /\ Now.c' = c' /\ Now.m' = m' /\ Now.queue' = queue'
      /\ Now.sender' = sender' /\ Now.adapter' = adapter'
  BY DEF Now
<1>6. Closing(Now)
  BY DEF Good
<1>7. ASSUME Runs(m) PROVE adapter' /\ \A i \in DOMAIN sender' : sender'[i] # "CLOSE_ADAPTER"
  <2>1. adapter /\ \A i \in DOMAIN sender : sender[i] # "CLOSE_ADAPTER"
    BY <1>6, <1>7 DEF Closing
  <2>2. adapter'
    BY <1>2, <1>3, <2>1
  <2> QED BY <1>3, <2>1, <2>2
<1>8. ASSUME NEW i \in DOMAIN sender', sender'[i] = "logoff"
      PROVE  adapter' /\ \A j \in 1..i : sender'[j] # "CLOSE_ADAPTER"
  <2>1. i + 1 \in DOMAIN sender /\ sender[i + 1] = "logoff" /\ i \in Nat /\ i # 0
    BY <1>3, <1>8
  <2>2. adapter /\ \A j \in 1..(i + 1) : sender[j] # "CLOSE_ADAPTER"
    BY <1>6, <2>1 DEF Closing
  <2>3. \A j \in 1..i : j \in DOMAIN sender' /\ j + 1 \in 1..(i + 1)
    <3>1. DOMAIN sender' = 1..Len(sender') /\ Len(sender') \in Nat
      BY <1>2, <1>3
    <3> QED BY <1>8, <2>1, <3>1
  <2>4. 1 \in 1..(i + 1)
    BY <2>1
  <2> QED BY <1>2, <1>3, <2>2, <2>3, <2>4
<1>9. Closing(Now)'
  BY <1>2, <1>5, <1>7, <1>8 DEF Closing
<1>10. /\ Stepped(Now.c)' /\ (OwnRepairs' => Owned(Now.c)')
       /\ (QuietRepairs' => Quiet(Now.c)') /\ Machined(Now)'
  BY <1>2, <1>5 DEF Good, OwnRepairs, QuietRepairs, Machined
<1>11. (LifeRepairs' => Lives(Now)') /\ (SessionRepairs' => Session(Now)')
  BY <1>2, <1>5 DEF Good, Lives, LifeRepairs, SessionRepairs, Session, Truthful
<1> QED BY <1>4, <1>5, <1>9, <1>10, <1>11 DEF Good
LEMMA MachineJoinedGood ==
  ASSUME Good(Now), MachineJoined
  PROVE  /\ Good(Now)' /\ c'.pc = "idle" /\ ~c'.machine_thread /\ queue' = queue
         /\ quit' \in {quit, "asked"}
<1> USE NowTyped
<1> DEFINE g == [f \in Flags |-> IF f \in c.leaving THEN Open(c.gate[f]) ELSE c.gate[f]]
<1>1. /\ c \in Control /\ queue \in Seq(Message) /\ m \in MachineThread /\ Held(c)
      /\ sender \in Seq({"logoff", "CLOSE_ADAPTER"}) /\ adapter \in BOOLEAN
      /\ quit \in {"no", "asked", "notified", "stopped"}
  BY DEF Good
<1>2. g \in [Flags -> {"none", "open", "busy"}]
  BY <1>1 DEF Control, Open
<1>3. /\ c' = [c EXCEPT !.pc = "idle", !.machine_thread = FALSE, !.leaving = {}, !.gate = g]
      /\ queue' = queue /\ m' = m /\ adapter' = adapter /\ heard' = heard
      /\ sender' = Append(sender, "CLOSE_ADAPTER")
      /\ quit' = (IF quit = "no" THEN "asked" ELSE quit)
      /\ c.pc = "joining" /\ m.st = "ended"
  BY DEF MachineJoined
<1> HIDE DEF g
<1>4. c' \in Control
  <2>1. {} \in SUBSET Flags
    OBVIOUS
  <2> QED BY <1>1, <1>2, <1>3, <2>1, JoinedTyped
<1>5. /\ c'.pc = "idle" /\ c'.state = c.state /\ c'.attempt = c.attempt
      /\ c'.machine_thread = FALSE /\ c'.handle = c.handle
      /\ c'.running = c.running /\ c'.dhcp_auth_step = c.dhcp_auth_step
      /\ c'.armed = c.armed /\ c'.reconnect_fail = c.reconnect_fail
  BY <1>1, <1>3 DEF Control
<1>6. Typed(Now)'
  <2>1. sender' \in Seq({"logoff", "CLOSE_ADAPTER"})
    BY <1>1, <1>3, AppendOf
  <2> QED BY <1>1, <1>3, <1>4, <1>5, <2>1, NextTyped DEF Held
<1>7. /\ Now.c' = c' /\ Now.m' = m' /\ Now.queue' = queue'
      /\ Now.sender' = sender' /\ Now.adapter' = adapter'
  BY DEF Now
<1>8. c.state = "LOGOFF" /\ \A i \in DOMAIN m.inbox : m.inbox[i].order # "STOP"
  BY <1>3 DEF Good, Machined, Runs
<1>9. Machined(Now)'
  BY <1>3, <1>5, <1>7, <1>8 DEF Machined, Runs
<1>10. Closing(Now)'
  <2>1. ~Runs(m')
    BY <1>3 DEF Runs
  <2>2. Closing(Now) /\ Typed(Now)
    BY DEF Good
  <2> QED BY <1>3, <1>7, <2>1, <2>2, SenderAppended
<1>11. /\ Stepped(Now.c)' /\ (OwnRepairs' => Owned(Now.c)')
       /\ (QuietRepairs' => Quiet(Now.c)')
  BY <1>3, <1>5, <1>7 DEF Good, OwnRepairs, QuietRepairs, Stepped, Owned, Quiet
<1>12. LifeRepairs' => Lives(Now)'
  BY <1>5, <1>7, <1>8 DEF Lives
<1>13. SessionRepairs' => Session(Now)'
  BY <1>3, <1>5, <1>7 DEF Good, Session, SessionRepairs, Truthful
<1> QED BY <1>3, <1>5, <1>6, <1>7, <1>9, <1>10, <1>11, <1>12, <1>13 DEF Good

LEMMA StopThreadGood ==
  ASSUME Good(Now), StopThread
  PROVE  /\ Good(Now)' /\ queue' = Tail(queue) /\ c'.pc \in {"hung", "exited"}
         /\ c'.machine_thread = c.machine_thread
<1>1. /\ Good(World) /\ ~Stuck(World) /\ c.pc = "idle" /\ queue # <<>> /\ World.c = c
      /\ World.queue = Tail(queue)
  BY WorldGood DEF StopThread, Receive
<1>2. CASE c.locked
  <2> DEFINE x == [World EXCEPT !.c.pc = "hung"]
  <2>1. Keeps(World, x)
    BY <1>1, Breaks
  <2>2. x.c.pc = "hung"
    BY <1>1, ControlOf DEF Good, Control
  <2>3. Become(x)
    BY <1>2 DEF StopThread
  <2> HIDE DEF x
  <2>4. Good(x) /\ x = Now' /\ heard' = heard
    BY <2>1, <2>3, BecomeIs DEF Keeps, Good, Become
  <2> QED BY <1>1, <2>1, <2>2, <2>3, <2>4, BecomeGood DEF Become, Keeps, Carries
<1>3. CASE ~c.locked
  <2> DEFINE a == [f \in Flags |-> 0]
             g == [f \in Flags |-> "none"]
             d == [c EXCEPT !.pc = "exited", !.handle = {}, !.armed = a, !.gate = g]
             x == [World EXCEPT !.c = d]
  <2>1. Become(x)
    <3>1. [World EXCEPT !.c.pc = "exited", !.c.handle = {}, !.c.armed = a, !.c.gate = g] = x
      BY <1>1
    <3> QED BY <1>3, <3>1 DEF StopThread
  <2>2. c \in Control /\ Typed(World)
    BY <1>1, ControlOf DEF Good
  <2>3. a \in [Flags -> Nat] /\ g \in [Flags -> {"none", "open", "busy"}]
        /\ \A f \in Flags : a[f] = 0
    OBVIOUS
  <2> HIDE DEF a, g
  <2>4. d \in Control
    BY <2>2, <2>3 DEF Control
  <2>5. /\ SameView(c, d) /\ d.pc = "exited" /\ d.armed = a /\ d.handle = {}
        /\ d.running = c.running /\ d.dhcp_auth_step = c.dhcp_auth_step
    BY <2>2 DEF Control, SameView
  <2> HIDE DEF d
  <2>6. Held(d) /\ Owned(d)
    BY <2>3, <2>5 DEF Held, Owned
  <2>7. Typed(x) /\ x.c = d /\ SameRest(World, x)
    BY <2>2, <2>4, <2>6, Put
  <2> HIDE DEF x
  <2>8. Stepped(x.c) /\ Quiet(x.c) /\ Lives(x)
    BY <2>5, <2>7 DEF Stepped, Quiet, Lives
  <2>9. Machined(x) /\ Closing(x)
    BY <1>1, <2>5, <2>7 DEF Good, Machined, Closing, SameRest, SameView, Stuck
  <2>10. SessionRepairs => Session(x)
    BY <1>1, <2>5, <2>7 DEF Good, Session, Truthful, SameRest, SameView
  <2>11. Good(x)
    BY <2>6, <2>7, <2>8, <2>9, <2>10 DEF Good
  <2>12. x = Now' /\ heard' = heard
    BY <2>1, <2>7, BecomeIs DEF Become
  <2> QED BY <1>1, <2>1, <2>5, <2>7, <2>11, <2>12, BecomeGood
          DEF Become, SameRest, SameView
<1> QED BY <1>2, <1>3

\* The order to begin is the first message there is.
Unbegun(w) ==
  \A i \in DOMAIN w.queue : w.queue[i].type = "START_MACHINE" =>
    /\ i = 1 /\ w.c.pc = "idle" /\ w.c.state = "INVALID"
    /\ w.m.st = "none" /\ w.sender = <<>>

LEMMA OnStartMachineGood ==
  ASSUME Good(Now), Unbegun(Now), NEW readable \in BOOLEAN, OnStartMachine(readable)
  PROVE  /\ Good(Now)' /\ queue' = Tail(queue) /\ c'.pc # "exited" /\ quit' = quit
<1>1. /\ Good(World) /\ ~Stuck(World) /\ c.pc = "idle" /\ queue # <<>> /\ World.c = c
      /\ World.queue = Tail(queue) /\ World.m = m /\ World.sender = sender
      /\ World.quit = quit /\ World.adapter = adapter /\ queue \in Seq(Message)
      /\ Head(queue).type = "START_MACHINE"
  BY WorldGood DEF OnStartMachine, Receive
<1>2. CASE ~readable
  <2>1. Become(World)
    BY <1>2 DEF OnStartMachine
  <2>2. World = Now' /\ heard' = heard
    BY <1>1, <2>1, BecomeIs DEF Good, Become
  <2> QED BY <1>1, <2>1, <2>2, BecomeGood DEF Become
<1>3. CASE readable
  <2> DEFINE H == {"ip", "nic"}
             d == [c EXCEPT !.dhcp_auth_step = 1, !.machine_thread = TRUE, !.running = H]
             n == [m EXCEPT !.st = "idle"]
             v == [World EXCEPT !.c = d, !.m = n, !.adapter = TRUE]
             x == StartStateMachine(v, TRUE)
  <2>1. Become(x)
    <3>1. [World EXCEPT !.c.dhcp_auth_step = 1, !.c.machine_thread = TRUE,
                        !.c.running = {"ip", "nic"}, !.m.st = "idle",
                        !.adapter = TRUE] = v
      BY <1>1
    <3> QED BY <1>3, <3>1 DEF OnStartMachine
  <2>2. /\ c.state = "INVALID" /\ m.st = "none" /\ sender = <<>>
    BY <1>1, TailOf, NowTyped DEF Unbegun
  <2>3. c \in Control /\ m \in MachineThread /\ Typed(World)
    BY <1>1, NowTyped DEF Good
  <2>4. /\ d \in Control /\ d.pc = "idle" /\ d.armed = c.armed /\ d.handle = c.handle
        /\ d.state = c.state /\ d.attempt = c.attempt /\ d.machine_thread
        /\ d.reconnect_fail = c.reconnect_fail /\ d.dhcp_auth_step = 1
    <3>1. H \in SUBSET Helpers /\ 1 \in 0..2
      BY DEF Helpers
    <3> HIDE DEF H
    <3>2. d \in Control
      BY <2>3, <3>1 DEF Control
    <3>3. /\ d.pc = c.pc /\ d.armed = c.armed /\ d.handle = c.handle
          /\ d.state = c.state /\ d.attempt = c.attempt /\ d.machine_thread = TRUE
          /\ d.reconnect_fail = c.reconnect_fail /\ d.dhcp_auth_step = 1
      BY <2>3 DEF Control
    <3> HIDE DEF d
    <3> QED BY <1>1, <3>2, <3>3
  <2> HIDE DEF d
  <2>5. /\ n \in MachineThread /\ n.st = "idle" /\ n.at = m.at /\ n.inbox = m.inbox
    BY <2>3 DEF MachineThread
  <2> HIDE DEF n
  <2>6. /\ Typed(v) /\ v.c = d /\ v.m = n /\ v.adapter = TRUE /\ v.sender = sender
        /\ v.queue = Tail(queue) /\ v.quit = quit
    <3>1. Held(d) /\ World \in Worlds
      BY <2>3, <2>4, <1>1 DEF Typed, Held
    <3>2. v \in Worlds
      BY <2>4, <2>5, <3>1 DEF Worlds
    <3>3. /\ v.c = d /\ v.m = n /\ v.adapter = TRUE /\ v.sender = World.sender
          /\ v.queue = World.queue /\ v.quit = World.quit
      BY <3>1 DEF Worlds
    <3> QED BY <1>1, <3>1, <3>2, <3>3 DEF Typed
  <2> HIDE DEF v
  <2>7. Stepped(v.c) /\ Quiet(v.c) /\ (OwnRepairs => Owned(v.c))
    BY <1>1, <2>2, <2>4, <2>6 DEF Good, Stepped, Quiet, Owned
  <2>8. Machined(v) /\ Closing(v)
    <3>1. DOMAIN v.sender = {}
      BY <2>2, <2>6
    <3>2. \A i \in DOMAIN v.m.inbox : v.m.inbox[i].order # "STOP"
      BY <1>1, <2>5, <2>6 DEF Good, Machined
    <3> QED BY <2>4, <2>5, <2>6, <3>1, <3>2 DEF Machined, Closing, Runs
  <2>9. SessionRepairs => Session(v)
    BY <1>1, <2>2, <2>4, <2>5, <2>6 DEF Good, Session, StartsOrdered, Truthful
  <2>10. Sound(v)
    BY <2>6, <2>7, <2>8, <2>9 DEF Sound
  <2>11. /\ Typed(x) /\ Starts(v, x) /\ (Attempts(v, x) \/ x.c.pc = "hung")
    BY <2>4, <2>6, StartStarts DEF Stuck
  <2> HIDE DEF x
  <2>12. Good(x)
    BY <2>10, <2>11, StartsSound
  <2>13. x = Now' /\ heard' = heard
    BY <2>1, <2>11, BecomeIs DEF Become
  <2>14. x.queue = Tail(queue) /\ x.quit = quit /\ x.c.pc # "exited"
    BY <2>6, <2>11 DEF Starts, Attempts
  <2> QED BY <2>1, <2>12, <2>13, <2>14, BecomeGood DEF Become
<1> QED BY <1>2, <1>3
-----------------------------------------------------------------------------
(* The order of the messages *)

\* While the machine runs, or may be created yet, the thread is not told to end before
\* it has been told that the user quits; and it does not end with the machine running.
Ahead(w) ==
  w.c.machine_thread \/ \E i \in DOMAIN w.queue : w.queue[i].type = "START_MACHINE"

StopOrder(w) ==
  /\ w.c.pc = "idle" /\ Ahead(w) =>
       /\ w.quit = "notified" => \E j \in DOMAIN w.queue : IsQuit(w.queue[j])
       /\ \A i \in DOMAIN w.queue : w.queue[i].type = "STOP_THREAD" =>
            \E j \in 1..(i - 1) : IsQuit(w.queue[j])
  /\ w.c.pc = "exited" => ~w.c.machine_thread

LEMMA ElsewhereOrdered ==
  ASSUME queue \in Seq(Message), Grows(queue, queue'), Announces,
         c'.pc = c.pc, c'.machine_thread = c.machine_thread, c'.state = c.state,
         quit' \in {quit, "asked"},
         m.st = "none" /\ sender = <<>> => m'.st = "none" /\ sender' = <<>>,
         Unbegun(Now)
  PROVE  Unbegun(Now)' /\ (StopOrder(Now) => StopOrder(Now)')
<1> USE NowTyped
<1>1. /\ Now.c' = c' /\ Now.m' = m' /\ Now.queue' = queue'
      /\ Now.sender' = sender' /\ Now.quit' = quit'
  BY DEF Now
<1>2. /\ \A i \in DOMAIN queue : i \in DOMAIN queue' /\ queue'[i] = queue[i]
      /\ \A i \in DOMAIN queue' : queue'[i].type \in {"START_MACHINE", "STOP_THREAD"} =>
           i \in DOMAIN queue
  BY DEF Grows, Announces
<1>3. Unbegun(Now)'
  BY <1>1, <1>2 DEF Unbegun
<1>4. ASSUME StopOrder(Now) PROVE StopOrder(Now)'
  <2>1. ASSUME c'.pc = "idle", Ahead(Now)'
        PROVE  /\ quit' = "notified" => \E j \in DOMAIN queue' : IsQuit(queue'[j])
               /\ \A i \in DOMAIN queue' : queue'[i].type = "STOP_THREAD" =>
                    \E j \in 1..(i - 1) : IsQuit(queue'[j])
    <3>1. c.pc = "idle" /\ Ahead(Now)
      BY <1>1, <1>2, <2>1 DEF Ahead
    <3>2. quit' = "notified" => \E j \in DOMAIN queue' : IsQuit(queue'[j])
      BY <1>2, <1>4, <3>1 DEF StopOrder
    <3>3. ASSUME NEW i \in DOMAIN queue', queue'[i].type = "STOP_THREAD"
          PROVE  \E j \in 1..(i - 1) : IsQuit(queue'[j])
      <4>1. i \in DOMAIN queue /\ queue[i].type = "STOP_THREAD"
        BY <1>2, <3>3
      <4>2. PICK j \in 1..(i - 1) : IsQuit(queue[j])
        BY <1>4, <3>1, <4>1 DEF StopOrder
      <4>3. j \in DOMAIN queue
        <5>1. DOMAIN queue = 1..Len(queue) /\ Len(queue) \in Nat
          OBVIOUS
        <5> QED BY <4>1, <4>2, <5>1
      <4> QED BY <1>2, <4>2, <4>3
    <3> QED BY <3>2, <3>3
  <2> QED BY <1>1, <1>4, <2>1 DEF StopOrder
<1> QED BY <1>3, <1>4

\* A handler has taken the first message.
Taken ==
  queue' \in {Tail(queue), Append(Tail(queue), Msg("CONNECT_NOTIFY", "timer", c.attempt))}

LEMMA TakenQueue ==
  ASSUME queue \in Seq(Message), queue # <<>>, c \in Control, Taken
  PROVE  /\ \A i \in DOMAIN queue' :
              \/ i + 1 \in DOMAIN queue /\ queue'[i] = queue[i + 1] /\ i \in Nat /\ i # 0
              \/ queue'[i].type = "CONNECT_NOTIFY"
         /\ \A j \in DOMAIN queue : j # 1 => j - 1 \in DOMAIN queue' /\ queue'[j - 1] = queue[j]
<1> DEFINE t == Tail(queue)
           e == Msg("CONNECT_NOTIFY", "timer", c.attempt)
<1>1. /\ t \in Seq(Message)
      /\ \A i \in DOMAIN t : i + 1 \in DOMAIN queue /\ t[i] = queue[i + 1]
                             /\ i \in Nat /\ i # 0
      /\ \A j \in DOMAIN queue : j # 1 => j - 1 \in DOMAIN t /\ queue[j] = t[j - 1]
  BY TailOf
<1>2. e \in Message /\ e.type = "CONNECT_NOTIFY"
  BY DEF Control, Message, Msg, Types, Args
<1>3. queue' \in {t, Append(t, e)}
  BY DEF Taken
<1> HIDE DEF t, e
<1>4. CASE queue' = t
  BY <1>1, <1>4
<1>5. CASE queue' = Append(t, e)
  <2>1. Grows(t, queue') /\ \A i \in DOMAIN queue' \ DOMAIN t : queue'[i] = e
    BY <1>1, <1>2, <1>5, AppendGrows
  <2> QED BY <1>1, <1>2, <2>1 DEF Grows
<1> QED BY <1>3, <1>4, <1>5

LEMMA TakenUnbegun ==
  ASSUME queue \in Seq(Message), queue # <<>>, c \in Control, Taken, Unbegun(Now)
  PROVE  /\ Unbegun(Now)'
         /\ \A i \in DOMAIN queue' : queue'[i].type # "START_MACHINE"
<1> USE NowTyped
<1>1. \A i \in DOMAIN queue' : queue'[i].type # "START_MACHINE"
  <2> SUFFICES ASSUME NEW i \in DOMAIN queue', queue'[i].type = "START_MACHINE"
               PROVE  FALSE
    OBVIOUS
  <2>1. i + 1 \in DOMAIN queue /\ queue[i + 1].type = "START_MACHINE" /\ i \in Nat /\ i # 0
    BY TakenQueue
  <2>2. i + 1 = 1
    BY <2>1 DEF Unbegun
  <2> QED BY <2>1, <2>2
<1>2. Now.queue' = queue'
  BY DEF Now
<1> QED BY <1>1, <1>2 DEF Unbegun

LEMMA TakenOrdered ==
  ASSUME queue \in Seq(Message), queue # <<>>, c \in Control, Taken, Unbegun(Now),
         c.pc = "idle", c'.machine_thread => Ahead(Now), quit' \in {quit, "asked"},
         c'.pc # "exited", ~IsQuit(Head(queue)), StopOrder(Now)
  PROVE  StopOrder(Now)'
<1> USE NowTyped
<1>1. /\ Now.c' = c' /\ Now.queue' = queue' /\ Now.quit' = quit'
  BY DEF Now
<1>2. Head(queue) = queue[1] /\ DOMAIN queue = 1..Len(queue) /\ Len(queue) \in Nat
  BY TailOf
<1>3. ASSUME Ahead(Now)'
      PROVE  /\ quit' = "notified" => \E j \in DOMAIN queue' : IsQuit(queue'[j])
             /\ \A i \in DOMAIN queue' : queue'[i].type = "STOP_THREAD" =>
                  \E j \in 1..(i - 1) : IsQuit(queue'[j])
  <2>1. Ahead(Now)
    BY <1>1, <1>3, TakenUnbegun DEF Ahead
  <2>2. ASSUME quit' = "notified" PROVE \E j \in DOMAIN queue' : IsQuit(queue'[j])
    <3>1. PICK j \in DOMAIN queue : IsQuit(queue[j])
      BY <2>1, <2>2 DEF StopOrder
    <3>2. j # 1
      BY <1>2, <3>1
    <3> QED BY <3>1, <3>2, TakenQueue
  <2>3. ASSUME NEW i \in DOMAIN queue', queue'[i].type = "STOP_THREAD"
        PROVE  \E j \in 1..(i - 1) : IsQuit(queue'[j])
    <3>1. i + 1 \in DOMAIN queue /\ queue[i + 1].type = "STOP_THREAD" /\ i \in Nat
      BY <2>3, TakenQueue
    <3>2. PICK j \in 1..((i + 1) - 1) : IsQuit(queue[j])
      BY <2>1, <3>1 DEF StopOrder
    <3>3. j # 1 /\ j \in DOMAIN queue /\ j - 1 \in 1..(i - 1)
      BY <1>2, <3>1, <3>2
    <3>4. queue'[j - 1] = queue[j]
      BY <3>3, TakenQueue
    <3> QED BY <3>2, <3>3, <3>4
  <2> QED BY <2>2, <2>3
<1> QED BY <1>1, <1>3 DEF StopOrder

LEMMA QuitEndsMachine ==
  ASSUME Good(Now), NEW informed \in BOOLEAN, NEW auto \in BOOLEAN,
         OnConnectNotify(informed, auto), Arg = "quit", Repaired("EarlyReturn")
  PROVE  c'.pc = "idle" => ~c'.machine_thread
  <1> DEFINE x == StopAuthentication(World, TRUE, TRUE)
  <1>1. /\ Good(World) /\ ~Stuck(World) /\ World.c = c
    BY WorldGood DEF OnConnectNotify, Receive
  <1>2. Become(x)
    BY DEF OnConnectNotify
  <1>3. IF LoggedOff(World, TRUE) THEN x = World ELSE Ends(World, x, TRUE)
    BY <1>1, StopEnds DEF Good
  <1> HIDE DEF x
  <1>4. CASE LoggedOff(World, TRUE)
    BY <1>1, <1>2, <1>3, <1>4 DEF LoggedOff, Become
  <1>5. CASE ~LoggedOff(World, TRUE)
    <2>1. Ends(World, x, TRUE)
      BY <1>3, <1>5
    <2>2. x.c.pc = "idle" => ~x.c.machine_thread
      BY <2>1 DEF Ends, Joins, Closes
    <2> QED BY <1>2, <2>2 DEF Become
  <1> QED BY <1>4, <1>5
\* The order of the messages, and what the other variables are.
Ordered == Unbegun(Now) /\ (Repaired("EarlyReturn") => StopOrder(Now))

LEMMA HandledGood ==
  ASSUME Good(Now), c.pc = "idle", queue # <<>>, Handled
  PROVE  /\ Good(Now)' /\ Taken /\ c'.machine_thread = c.machine_thread
         /\ c'.pc # "exited" /\ quit' \in {quit, "asked"}
<1>1. PICK x : Become(x) /\ Good(x) /\ Follows(World, x)
  BY DEF Handled
<1>2. /\ World.c = c /\ World.queue = Tail(queue) /\ World.quit = quit
  BY WorldGood
<1>3. x = Now' /\ heard' = heard
  BY <1>1, BecomeIs DEF Good, Become
<1>4. Good(Now)'
  BY <1>1, <1>3, BecomeGood
<1> QED BY <1>1, <1>2, <1>4 DEF Follows, Become, Taken

LEMMA HandledOrdered ==
  ASSUME Good(Now), Ordered, c.pc = "idle", queue # <<>>, Handled,
         Repaired("EarlyReturn") /\ IsQuit(Head(queue)) =>
           (c'.pc = "idle" => ~c'.machine_thread)
  PROVE  Good(Now)' /\ Ordered'
<1>1. /\ Good(Now)' /\ Taken /\ c'.machine_thread = c.machine_thread
      /\ c'.pc # "exited" /\ quit' \in {quit, "asked"}
  BY HandledGood
<1>2. queue \in Seq(Message) /\ c \in Control
  BY NowTyped DEF Good
<1>3. Unbegun(Now)' /\ \A i \in DOMAIN queue' : queue'[i].type # "START_MACHINE"
  BY <1>1, <1>2, TakenUnbegun DEF Ordered
<1>4. ASSUME Repaired("EarlyReturn") PROVE StopOrder(Now)'
  <2>1. CASE ~IsQuit(Head(queue))
    BY <1>1, <1>2, <1>4, <2>1, NowTyped, TakenOrdered DEF Ordered, Ahead
  <2>2. CASE IsQuit(Head(queue))
    <3>1. Now.c' = c' /\ Now.queue' = queue'
      BY DEF Now
    <3>2. ~(c'.pc = "idle" /\ Ahead(Now)')
      BY <1>3, <1>4, <2>2, <3>1 DEF Ahead
    <3> QED BY <1>1, <3>1, <3>2 DEF StopOrder
  <2> QED BY <2>1, <2>2
<1> QED BY <1>1, <1>3, <1>4 DEF Ordered, Repaired

LEMMA OnStartMachineOrdered ==
  ASSUME Good(Now), Ordered, NEW readable \in BOOLEAN, OnStartMachine(readable)
  PROVE  Good(Now)' /\ Ordered'
<1>1. /\ Good(Now)' /\ queue' = Tail(queue) /\ c'.pc # "exited" /\ quit' = quit
  BY OnStartMachineGood DEF Ordered
<1>2. /\ queue \in Seq(Message) /\ c \in Control /\ c.pc = "idle" /\ queue # <<>>
      /\ Head(queue).type = "START_MACHINE"
  BY NowTyped DEF Good, OnStartMachine, Receive
<1>3. Ahead(Now) /\ ~IsQuit(Head(queue)) /\ Taken
  BY <1>1, <1>2, NowTyped, TailOf DEF Ahead, IsQuit, Taken
<1>4. Unbegun(Now)'
  BY <1>2, <1>3, TakenUnbegun DEF Ordered
<1>5. Repaired("EarlyReturn") => StopOrder(Now)'
  BY <1>1, <1>2, <1>3, TakenOrdered DEF Ordered
<1> QED BY <1>1, <1>4, <1>5 DEF Ordered, Repaired

LEMMA StopThreadOrdered ==
  ASSUME Good(Now), Ordered, StopThread
  PROVE  Good(Now)' /\ Ordered'
<1>1. /\ Good(Now)' /\ queue' = Tail(queue) /\ c'.pc \in {"hung", "exited"}
      /\ c'.machine_thread = c.machine_thread
  BY StopThreadGood
<1>2. /\ queue \in Seq(Message) /\ c \in Control /\ c.pc = "idle" /\ queue # <<>>
      /\ Head(queue).type = "STOP_THREAD"
  BY NowTyped DEF Good, StopThread, Receive
<1>3. Unbegun(Now)'
  BY <1>1, <1>2, TakenUnbegun DEF Ordered, Taken
<1>4. ASSUME Repaired("EarlyReturn") PROVE StopOrder(Now)'
  <2>1. 1 \in DOMAIN queue /\ queue[1].type = "STOP_THREAD"
    BY <1>2, TailOf
  <2>2. ~Ahead(Now)
    <3>1. SUFFICES ASSUME Ahead(Now) PROVE FALSE
      OBVIOUS
    <3>2. \E j \in 1..(1 - 1) : IsQuit(queue[j])
      BY <1>2, <1>4, <2>1, <3>1, NowTyped DEF Ordered, StopOrder
    <3> QED BY <3>2
  <2>3. Now.c' = c'
    BY DEF Now
  <2>4. ~c'.machine_thread
    BY <1>1, <2>2, NowTyped DEF Ahead
  <2> QED BY <1>1, <2>3, <2>4 DEF StopOrder
<1> QED BY <1>1, <1>3, <1>4 DEF Ordered, Repaired

\* In a thread that waits for the machine nothing is left of the order to begin.
LEMMA MachineJoinedOrdered ==
  ASSUME Good(Now), Ordered, MachineJoined
  PROVE  Good(Now)' /\ Ordered'
<1>1. /\ Good(Now)' /\ c'.pc = "idle" /\ ~c'.machine_thread /\ queue' = queue
      /\ c.pc = "joining"
  BY MachineJoinedGood DEF MachineJoined
<1>2. Now.c' = c' /\ Now.queue' = queue'
  BY DEF Now
<1>3. \A i \in DOMAIN queue' : queue'[i].type # "START_MACHINE"
  BY <1>1, NowTyped DEF Ordered, Unbegun
<1>4. Unbegun(Now)'
  BY <1>2, <1>3 DEF Unbegun
<1>5. StopOrder(Now)'
  BY <1>1, <1>2, <1>3 DEF StopOrder, Ahead
<1> QED BY <1>1, <1>4, <1>5 DEF Ordered

LEMMA OutsideOrdered ==
  ASSUME Good(Now), Ordered, Outside
  PROVE  Good(Now)' /\ Ordered'
<1>1. queue \in Seq(Message)
  BY NowTyped DEF Good
<1>2. /\ Grows(queue, queue') /\ Announces /\ c'.pc = c.pc /\ c'.state = c.state
      /\ c'.machine_thread = c.machine_thread /\ quit' \in {quit, "asked"}
  BY DEF Outside, Works
<1>3. m.st = "none" /\ sender = <<>> => m'.st = "none" /\ sender' = <<>>
  BY DEF Outside, Works, Runs
<1>4. Unbegun(Now)' /\ (StopOrder(Now) => StopOrder(Now)')
  BY <1>1, <1>2, <1>3, ElsewhereOrdered DEF Ordered
<1> QED BY <1>4 DEF Outside, Ordered, Repaired

\* The machine takes an order, or the sender a frame: the queue stays.
LEMMA OrdersOrdered ==
  ASSUME Good(Now), Ordered, MachineOrders \/ Send
  PROVE  Good(Now)' /\ Ordered'
<1>1. Good(Now)'
  BY MachineStartGood, MachineLogoffGood, MachineStopGood, SendGood DEF MachineOrders
<1>2. queue \in Seq(Message) /\ c \in Control
  BY NowTyped DEF Good
<1>3. /\ queue' = queue /\ quit' = quit /\ c'.pc = c.pc /\ c'.state = c.state
      /\ c'.machine_thread = c.machine_thread
  BY <1>2 DEF MachineOrders, MachineStart, MachineLogoff, MachineStop, Send, Control
<1>4. ~(m.st = "none" /\ sender = <<>>)
  BY DEF MachineOrders, MachineStart, MachineLogoff, MachineStop, Send, TakeOrder,
         MachineReady, MachineRuns
<1>5. Grows(queue, queue') /\ Announces
  BY <1>2, <1>3, QueueStays DEF Announces
<1>6. Unbegun(Now)' /\ (StopOrder(Now) => StopOrder(Now)')
  BY <1>2, <1>3, <1>4, <1>5, ElsewhereOrdered DEF Ordered
<1> QED BY <1>1, <1>6 DEF Ordered, Repaired

\* The order to end follows the notice of the quit, which is taken first.
LEMMA DoQuitOrdered ==
  ASSUME Good(Now), Ordered, DoQuit
  PROVE  Good(Now)' /\ Ordered'
<1> USE NowTyped
<1>1. /\ Good(Now)' /\ Works
      /\ \A i \in DOMAIN queue' \ DOMAIN queue :
           /\ IF quit = "asked" THEN IsQuit(queue'[i]) ELSE queue'[i].type = "STOP_THREAD"
           /\ \A j \in DOMAIN queue : j \in 1..(i - 1)
      /\ DOMAIN queue' \ DOMAIN queue # {}
  BY DoQuitWorks
<1>2. /\ Now.c' = c' /\ Now.m' = m' /\ Now.queue' = queue'
      /\ Now.sender' = sender' /\ Now.quit' = quit'
  BY DEF Now
<1>3. /\ c' = c /\ m' = m /\ sender' = sender
      /\ \/ quit = "asked" /\ quit' = "notified"
         \/ quit = "notified" /\ quit' = "stopped"
  BY DEF DoQuit
<1>4. /\ DOMAIN queue \subseteq DOMAIN queue'
      /\ \A i \in DOMAIN queue : queue'[i] = queue[i]
  BY <1>1 DEF Works, Grows
<1>5. \A i \in DOMAIN queue' : queue'[i].type = "START_MACHINE" => i \in DOMAIN queue
  BY <1>1 DEF IsQuit
<1>6. Unbegun(Now)'
  BY <1>2, <1>3, <1>4, <1>5 DEF Unbegun, Ordered
<1>7. ASSUME Repaired("EarlyReturn") PROVE StopOrder(Now)'
  <2>1. ASSUME c.pc = "idle", Ahead(Now)'
        PROVE  /\ quit' = "notified" => \E j \in DOMAIN queue' : IsQuit(queue'[j])
               /\ \A i \in DOMAIN queue' : queue'[i].type = "STOP_THREAD" =>
                    \E j \in 1..(i - 1) : IsQuit(queue'[j])
    <3>1. Ahead(Now)
      BY <1>2, <1>3, <1>4, <1>5, <2>1 DEF Ahead
    <3>2. quit' = "notified" => \E j \in DOMAIN queue' : IsQuit(queue'[j])
      BY <1>1, <1>3
    <3>3. ASSUME NEW i \in DOMAIN queue', queue'[i].type = "STOP_THREAD"
          PROVE  \E j \in 1..(i - 1) : IsQuit(queue'[j])
      <4>1. CASE i \in DOMAIN queue
        <5>1. queue[i].type = "STOP_THREAD"
          BY <1>4, <3>3, <4>1
        <5>2. PICK j \in 1..(i - 1) : IsQuit(queue[j])
          BY <1>7, <2>1, <3>1, <4>1, <5>1 DEF Ordered, StopOrder
        <5>3. j \in DOMAIN queue
          <6>1. DOMAIN queue = 1..Len(queue) /\ Len(queue) \in Nat
            BY DEF Good
          <6> QED BY <4>1, <5>2, <6>1
        <5> QED BY <1>4, <5>2, <5>3
      <4>2. CASE i \notin DOMAIN queue
        <5>1. quit = "notified"
          BY <1>1, <1>3, <3>3, <4>2 DEF IsQuit
        <5>2. PICK j \in DOMAIN queue : IsQuit(queue[j])
          BY <1>7, <2>1, <3>1, <5>1 DEF Ordered, StopOrder
        <5>3. j \in 1..(i - 1) /\ queue'[j] = queue[j]
          BY <1>1, <1>4, <3>3, <4>2, <5>2
        <5> QED BY <5>2, <5>3
      <4> QED BY <4>1, <4>2
    <3> QED BY <3>2, <3>3
  <2>2. c'.pc = "exited" => ~c'.machine_thread
    BY <1>3, <1>7 DEF Ordered, StopOrder
  <2> QED BY <1>2, <1>3, <2>1, <2>2 DEF StopOrder
<1> QED BY <1>1, <1>6, <1>7 DEF Ordered, Repaired
-----------------------------------------------------------------------------
(***************************************************************************)
(* The inductive invariant: of the world between two handlers, of the      *)
(* order of the messages, and of the variables no handler looks at.        *)
(***************************************************************************)
OthersTyped == heard \in Nat /\ link \in Switches /\ events \in 0..MaxEvents

IInv == Good(Now) /\ Ordered /\ OthersTyped

LEMMA InitInv == ASSUME Init PROVE IInv
<1> USE NowTyped
<1> DEFINE b == Msg("START_MACHINE", "none", 0)
<1>1. PICK dhcp \in Dhcp : c =
        [pc |-> "idle", state |-> "INVALID", dhcp_auth_step |-> 0,
         ip_offer_count |-> 0, is_ruijie_nas |-> TRUE, dhcp_enabled |-> dhcp,
         logoff_message |-> FALSE, reconnect_fail |-> FALSE,
         connect_fail |-> FALSE, reauth_count |-> 0, machine_thread |-> FALSE,
         handle |-> {}, armed |-> [f \in Flags |-> 0],
         gate |-> [f \in Flags |-> "none"], locked |-> FALSE, leaving |-> {},
         drained |-> FALSE, nic_up |-> TRUE, running |-> {}, attempt |-> 0]
  BY DEF Init
<1>2. c \in Control
  <2>1. /\ 0 \in 0..2 /\ 0 \in 0..(OfferLimit + 1) /\ 0 \in 0..3 /\ 0 \in Nat
        /\ dhcp \in BOOLEAN
    BY ConstantsAssumption
  <2>2. /\ {} \in SUBSET Flags /\ {} \in SUBSET Helpers
        /\ [f \in Flags |-> 0] \in [Flags -> Nat]
        /\ [f \in Flags |-> "none"] \in [Flags -> {"none", "open", "busy"}]
    OBVIOUS
  <2> QED BY <1>1, <2>1, <2>2 DEF Control
<1>3. /\ c.pc = "idle" /\ c.state = "INVALID" /\ c.dhcp_auth_step = 0
      /\ c.machine_thread = FALSE /\ c.handle = {} /\ c.attempt = 0
      /\ \A f \in Flags : c.armed[f] = 0
  BY <1>1
<1>4. b \in Message /\ b.type = "START_MACHINE"
  BY DEF Message, Msg, Types, Args
<1>5. queue = <<b>>
  BY DEF Init
<1> HIDE DEF b
<1>6. /\ queue \in Seq(Message) /\ DOMAIN queue = {1} /\ queue[1].type = "START_MACHINE"
  BY <1>4, <1>5
<1>7. /\ m.st = "none" /\ m.at = 0 /\ m.inbox = <<>> /\ sender = <<>> /\ adapter = FALSE
      /\ quit = "no" /\ heard = 0 /\ link \in Switches /\ events = MaxEvents
      /\ DOMAIN m.inbox = {} /\ DOMAIN sender = {}
  BY DEF Init
<1>8. m \in MachineThread
  <2>1. <<>> \in Seq([order : Orders, at : Nat]) /\ 0 \in Nat
    OBVIOUS
  <2> QED BY <2>1 DEF Init, MachineThread
<1>9. Typed(Now)
  <2>1. sender \in Seq({"logoff", "CLOSE_ADAPTER"})
    BY <1>7
  <2> QED BY <1>2, <1>3, <1>6, <1>7, <1>8, <2>1 DEF Held
<1>10. Stepped(c) /\ Owned(c) /\ Quiet(c)
  BY <1>3 DEF Stepped, Owned, Quiet
<1>11. Machined(Now) /\ Closing(Now)
  BY <1>3, <1>7 DEF Machined, Closing, Runs
<1>12. Session(Now) /\ Lives(Now)
  BY <1>3, <1>6, <1>7 DEF Session, Lives, StartsOrdered, Truthful
<1>13. Good(Now)
  BY <1>9, <1>10, <1>11, <1>12 DEF Good
<1>14. Unbegun(Now) /\ StopOrder(Now)
  BY <1>3, <1>6, <1>7 DEF Unbegun, StopOrder
<1>15. OthersTyped
  BY <1>7, ConstantsAssumption DEF OthersTyped
<1> QED BY <1>13, <1>14, <1>15 DEF IInv, Ordered

\* Each handler keeps it.
LEMMA HandleStep ==
  ASSUME Good(Now), Ordered, Handle
  PROVE  Good(Now)' /\ Ordered'
<1>1. CASE \E b \in BOOLEAN : OnStartMachine(b)
  BY <1>1, OnStartMachineOrdered
<1>2. CASE StopThread
  BY <1>2, StopThreadOrdered
<1>3. ASSUME NEW informed \in BOOLEAN, NEW auto \in BOOLEAN, OnConnectNotify(informed, auto)
      PROVE  Good(Now)' /\ Ordered'
  <2>1. Handled /\ c.pc = "idle" /\ queue # <<>>
    BY <1>3, OnConnectNotifyHandled DEF OnConnectNotify, Receive
  <2>2. Repaired("EarlyReturn") /\ IsQuit(Head(queue)) => (c'.pc = "idle" => ~c'.machine_thread)
    BY <1>3, QuitEndsMachine DEF IsQuit, Arg
  <2> QED BY <2>1, <2>2, HandledOrdered
<1>4. ASSUME Handled, NEW type \in Types \ {"CONNECT_NOTIFY"}, Receive(type)
      PROVE  Good(Now)' /\ Ordered'
  BY <1>4, HandledOrdered DEF Receive, IsQuit
<1>5. ASSUME NEW wanted \in Asked, NEW renew \in BOOLEAN, NEW works \in BOOLEAN,
             OnAuthenticated(wanted, renew, works)
      PROVE  Good(Now)' /\ Ordered'
  BY <1>4, <1>5, OnAuthenticatedHandled DEF OnAuthenticated, Types
<1>6. CASE OnLogoff
  BY <1>4, <1>6, OnLogoffHandled DEF OnLogoff, Types
<1>7. ASSUME NEW f \in Flags, NEW offered \in BOOLEAN, NEW informed \in BOOLEAN,
             NEW sent \in BOOLEAN, OnTimer(f, offered, informed, sent)
      PROVE  Good(Now)' /\ Ordered'
  BY <1>4, <1>7, OnTimerHandled DEF OnTimer, Types
<1>8. ASSUME NEW informed \in BOOLEAN, OnAdaptersState(informed)
      PROVE  Good(Now)' /\ Ordered'
  BY <1>4, <1>8, OnAdaptersStateHandled DEF OnAdaptersState, Types
<1>9. ASSUME NEW informed \in BOOLEAN, OnSaWantReAuth(informed)
      PROVE  Good(Now)' /\ Ordered'
  BY <1>4, <1>9, OnSaWantReAuthHandled DEF OnSaWantReAuth, Types
<1>10. CASE ONSAMWantLogOff
  BY <1>4, <1>10, ONSAMWantLogOffHandled DEF ONSAMWantLogOff, Types
<1>11. CASE OnLogoffWithUnknownReason
  <2>1. Handled
    BY <1>11, StopIsHandled DEF OnLogoffWithUnknownReason, Receive
  <2> QED BY <1>4, <1>11, <2>1 DEF OnLogoffWithUnknownReason, Types
<1>12. CASE OnOthersWantLogOff
  <2>1. Handled
    BY <1>12, StopIsHandled DEF OnOthersWantLogOff, Receive
  <2> QED BY <1>4, <1>12, <2>1 DEF OnOthersWantLogOff, Types
<1>13. CASE OnRcvProxyDetectResult
  <2>1. Handled
    BY <1>13, SaidAndStopped DEF OnRcvProxyDetectResult, Receive
  <2> QED BY <1>4, <1>13, <2>1 DEF OnRcvProxyDetectResult, Types
<1>14. ASSUME NEW wanted \in Asked, NEW renew \in BOOLEAN, OnRcvDHCPAuthResult(wanted, renew)
       PROVE  Good(Now)' /\ Ordered'
  BY <1>4, <1>14, OnRcvDHCPAuthResultHandled DEF OnRcvDHCPAuthResult, Types
<1>15. CASE OnRecvFailure
  BY <1>4, <1>15, OnRecvFailureHandled DEF OnRecvFailure, Types
<1> QED BY <1>1, <1>2, <1>3, <1>5, <1>6, <1>7, <1>8, <1>9, <1>10, <1>11, <1>12, <1>13,
           <1>14, <1>15 DEF Handle

\* What is not a handler, nor the end of the machine, leaves the thread alone.
LEMMA OutsideStep ==
  ASSUME Good(Now),
         \/ MachineRequest \/ MachineSuccess \/ MachineGivesUp \/ MachineTimeout \/ HoldEnds
         \/ \E text, again \in BOOLEAN : MachineFailure(text, again)
         \/ \E text \in BOOLEAN : MachineRefused(text)
         \/ \E f \in Flags : Tick(f)
         \/ \E e \in Events : Post(e)
         \/ UserQuits
  PROVE  Outside
BY MachineRequestOutside, MachineSuccessOutside, MachineGivesUpOutside,
   MachineTimeoutOutside, HoldEndsOutside, MachineFailureOutside, MachineRefusedOutside,
   TickOutside, PostOutside, UserQuitsOutside

Kinds ==
  \/ Handle \/ MachineJoined \/ MachineOrders \/ Send \/ DoQuit
  \/ Outside \/ UNCHANGED vars

LEMMA StepKinds == ASSUME Good(Now), [Next]_vars PROVE Kinds
BY OutsideStep DEF Next, ControlThread, Machine, Kinds

LEMMA HandleLeaves == ASSUME Handle PROVE UNCHANGED <<heard, link, events>>
<1> DEFINE Left == UNCHANGED <<heard, link, events>>
<1>1. \A w : Become(w) => Left
  BY DEF Become
<1> HIDE DEF Left
<1>2. \A b \in BOOLEAN : OnStartMachine(b) => Left
  BY <1>1 DEF OnStartMachine
<1>3. \A wanted \in Asked, renew, works \in BOOLEAN : OnAuthenticated(wanted, renew, works) => Left
  BY <1>1 DEF OnAuthenticated
<1>4. \A f \in Flags, offered, informed, sent \in BOOLEAN :
        OnTimer(f, offered, informed, sent) => Left
  BY <1>1 DEF OnTimer
<1>5. OnLogoff => Left
  BY <1>1 DEF OnLogoff
<1>6. \A informed \in BOOLEAN : OnAdaptersState(informed) => Left
  BY <1>1 DEF OnAdaptersState
<1>7. \A informed, auto \in BOOLEAN : OnConnectNotify(informed, auto) => Left
  BY <1>1 DEF OnConnectNotify
<1>8. \A informed \in BOOLEAN : OnSaWantReAuth(informed) => Left
  BY <1>1 DEF OnSaWantReAuth
<1>9. \A wanted \in Asked, renew \in BOOLEAN : OnRcvDHCPAuthResult(wanted, renew) => Left
  BY <1>1 DEF OnRcvDHCPAuthResult
<1>10. ONSAMWantLogOff \/ OnLogoffWithUnknownReason \/ OnOthersWantLogOff => Left
  BY <1>1 DEF ONSAMWantLogOff, OnLogoffWithUnknownReason, OnOthersWantLogOff
<1>11. OnRcvProxyDetectResult \/ OnRecvFailure \/ StopThread => Left
  BY <1>1 DEF OnRcvProxyDetectResult, OnRecvFailure, StopThread
<1>12. Left
  BY <1>2, <1>3, <1>4, <1>5, <1>6, <1>7, <1>8, <1>9, <1>10, <1>11 DEF Handle
<1> QED BY <1>12 DEF Left

LEMMA OthersStep ==
  ASSUME Good(Now), OthersTyped, [Next]_vars
  PROVE  OthersTyped'
<1>1. m.at \in Nat /\ MaxEvents \in Nat
  BY NowTyped, ConstantsAssumption DEF Good, MachineThread
<1>2. CASE Handle
  BY <1>2, HandleLeaves DEF OthersTyped
<1>3. CASE MachineJoined \/ Send \/ UserQuits \/ DoQuit \/ (\E f \in Flags : Tick(f)) \/ UNCHANGED vars
  BY <1>3 DEF OthersTyped, MachineJoined, Send, UserQuits, DoQuit, Tick, vars
<1>4. CASE Machine
  BY <1>1, <1>4 DEF OthersTyped, Machine, MachineOrders, MachineStart, MachineLogoff,
                    MachineStop, MachineRequest, MachineSuccess, MachineGivesUp,
                    MachineTimeout, HoldEnds, MachineFailure, MachineRefused
<1>5. CASE \E e \in Events : Post(e)
  BY <1>1, <1>5 DEF OthersTyped, Post
<1> QED BY <1>2, <1>3, <1>4, <1>5 DEF Next, ControlThread

LEMMA StutterOrdered ==
  ASSUME Good(Now), Ordered, UNCHANGED vars
  PROVE  Good(Now)' /\ Ordered'
<1>1. Now' = Now /\ heard' = heard
  BY DEF vars, Now
<1>2. Good(Now)'
  BY <1>1, BecomeGood
<1> QED BY <1>1, <1>2 DEF Ordered, Unbegun, StopOrder, Ahead, Repaired

LEMMA InvStep == IInv /\ [Next]_vars => IInv'
<1> SUFFICES ASSUME IInv, [Next]_vars PROVE IInv'
  OBVIOUS
<1>1. Good(Now) /\ Ordered
  BY DEF IInv
<1>2. OthersTyped'
  BY OthersStep DEF IInv
<1>3. Good(Now)' /\ Ordered'
  BY <1>1, StepKinds, HandleStep, MachineJoinedOrdered, OrdersOrdered, DoQuitOrdered,
     OutsideOrdered, StutterOrdered DEF Kinds
<1> QED BY <1>2, <1>3 DEF IInv

THEOREM Invariance == Spec => []IInv
<1>1. Init => IInv
  BY InitInv
<1> QED BY <1>1, InvStep, PTL DEF Spec

-----------------------------------------------------------------------------
(* What follows *)

LEMMA SeqOfMore ==
  ASSUME NEW S, NEW T, S \subseteq T, NEW s \in Seq(S)
  PROVE  s \in Seq(T)
<1>1. s \in [1..Len(s) -> S] /\ Len(s) \in Nat
  OBVIOUS
<1>2. s \in [1..Len(s) -> T]
  BY <1>1
<1> QED BY <1>1, <1>2

\* Every variable of ContextControl stays in its type, whichever defects are repaired: of
\* the counters, the attempts to connect again stop at three and the ticks that wait for an
\* address at one above the limit.
THEOREM TypeCorrect == Spec => []TypeOK
<1>1. IInv => TypeOK
  <2> SUFFICES ASSUME IInv PROVE TypeOK
    OBVIOUS
  <2>1. Message \subseteq [type : Types, arg : Args, at : Nat]
    BY DEF Message
  <2>2. /\ c \in Control /\ queue \in Seq(Message) /\ m \in MachineThread
        /\ sender \in Seq({"logoff", "CLOSE_ADAPTER"}) /\ adapter \in BOOLEAN
        /\ quit \in {"no", "asked", "notified", "stopped"}
    BY NowTyped DEF IInv, Good
  <2>3. queue \in Seq([type : Types, arg : Args, at : Nat])
    BY <2>1, <2>2, SeqOfMore
  <2> QED BY <2>2, <2>3 DEF IInv, OthersTyped, TypeOK
<1> QED BY <1>1, Invariance, PTL

\* The assertion of IsIPOffered holds, whichever defects are repaired: in the second step
\* of DHCP authentication, which has its address, nobody waits for one.
THEOREM SecondStepCorrect == Spec => []SecondStepHasAddress
<1>1. IInv => SecondStepHasAddress
  BY NowTyped DEF IInv, Good, Stepped, SecondStepHasAddress
<1> QED BY <1>1, Invariance, PTL

\* Every logoff frame that the machine posts is sent before the adapter is closed, whichever
\* defects are repaired: the order to close it is given when the machine has ended.
THEOREM LogoffIsSent == Spec => []LogoffPrecedesClose
<1>1. IInv => LogoffPrecedesClose
  <2> SUFFICES ASSUME IInv PROVE LogoffPrecedesClose
    OBVIOUS
  <2>1. DOMAIN sender = 1..Len(sender)
    BY NowTyped DEF IInv, Good
  <2> QED BY <2>1, NowTyped DEF IInv, Good, Closing, LogoffPrecedesClose
<1> QED BY <1>1, Invariance, PTL

\* Every timer of the control thread that runs can be killed: none is armed without its id
\* or has its id overwritten, if the pause before another try and the wait for an address
\* keep the timer they have.
THEOREM TimersAreOwned ==
  ASSUME OwnRepairs
  PROVE  Spec => []TimersOwned
<1>1. IInv => TimersOwned
  BY NowTyped DEF IInv, Good, Owned, TimersOwned
<1> QED BY <1>1, Invariance, PTL

\* After a logoff no timer of the session runs and no helper but the detection that waits
\* for the adapter, if reports of before the logoff are not taken for new ones.
THEOREM QuietAfterLogoff ==
  ASSUME QuietRepairs
  PROVE  Spec => []LogoffIsQuiet
<1>1. IInv => LogoffIsQuiet
  BY NowTyped DEF IInv, Good, Quiet, LogoffIsQuiet
<1> QED BY <1>1, Invariance, PTL

\* The client holds itself for connected only after a Success of the attempt it made last,
\* if reports and ticks of earlier attempts are not taken for new ones and a failure with a
\* text is a failure.
THEOREM SessionOfLastAttempt ==
  ASSUME SessionRepairs
  PROVE  Spec => []SessionIsCurrent
<1>1. IInv => SessionIsCurrent
  BY NowTyped DEF IInv, Good, Session, SessionIsCurrent
<1> QED BY <1>1, Invariance, PTL

\* Nothing is read through a null pointer, a session or an attempt has its machine, and the
\* machine has ended before the control thread has, if also StopAuthentication does not
\* return early.
THEOREM MachineOutlives ==
  ASSUME LifeRepairs, "EarlyReturn" \in Repairs
  PROVE  Spec => []MachineOutlivesSession
<1>1. IInv => MachineOutlivesSession
  <2> SUFFICES ASSUME IInv PROVE MachineOutlivesSession
    OBVIOUS
  <2>1. StopOrder(Now) /\ Lives(Now) /\ Machined(Now)
    BY DEF IInv, Good, Ordered, Repaired
  <2> QED BY <2>1, NowTyped DEF StopOrder, Lives, Machined, Runs, MachineOutlivesSession
<1> QED BY <1>1, Invariance, PTL

-----------------------------------------------------------------------------
(* Ticks *)

LEMMA LeaveStays ==
  ASSUME NEW w, Typed(w), NEW f \in Flags
  PROVE  OnTimerLeave(w, f).c.state = w.c.state
<1>1. w \in Worlds /\ w.c \in Control
  BY ControlOf DEF Typed
<1> QED BY <1>1 DEF OnTimerLeave, Worlds, Control

LEMMA TickStays ==
  ASSUME Good(Now), NEW f \in Flags, NEW offered \in BOOLEAN, NEW informed \in BOOLEAN,
         NEW sent \in BOOLEAN, OnTimer(f, offered, informed, sent),
         Repaired("StaleTick"), f \notin c.handle
  PROVE  c'.state = c.state
<1>1. Good(World) /\ World.c = c
  BY WorldGood DEF OnTimer, Receive
<1>2. Become(OnTimerLeave(World, f))
  BY DEF OnTimer
<1> QED BY <1>1, <1>2, LeaveStays DEF Good, Become

LEMMA CauseStep ==
  ASSUME Good(Now), Repaired("StaleTick"), [Next]_vars, c'.state # c.state,
         Head(queue).type = "TIMER"
  PROVE  Head(queue).arg \in c.handle
<1>1. c \in Control
  BY NowTyped DEF Good
<1>2. Handle
  <2>1. ~Outside
    BY DEF Outside, Works
  <2>2. ~MachineJoined /\ ~MachineOrders /\ ~Send /\ ~DoQuit /\ ~UNCHANGED vars
    BY <1>1 DEF MachineJoined, MachineOrders, MachineStart, MachineLogoff, MachineStop,
                Send, DoQuit, vars, Control
  <2> QED BY <2>1, <2>2, StepKinds DEF Kinds
<1>3. \E f \in Flags, offered, informed, sent \in BOOLEAN : OnTimer(f, offered, informed, sent)
  BY <1>2 DEF Handle, Receive, OnStartMachine, OnAuthenticated, OnLogoff, OnAdaptersState,
     OnConnectNotify, OnSaWantReAuth, ONSAMWantLogOff, OnLogoffWithUnknownReason,
     OnOthersWantLogOff, OnRcvProxyDetectResult, OnRcvDHCPAuthResult, OnRecvFailure,
     StopThread
<1>4. PICK f \in Flags, offered \in BOOLEAN, informed \in BOOLEAN, sent \in BOOLEAN :
        OnTimer(f, offered, informed, sent)
  BY <1>3
<1>5. Head(queue).arg = f
  BY <1>4 DEF OnTimer, Arg
<1> QED BY <1>4, <1>5, TickStays

\* A tick that was queued before its timer was killed ends no session, if OnTimer looks
\* whether the timer still exists.
THEOREM SessionsEndForCause ==
  ASSUME "StaleTick" \in Repairs
  PROVE  Spec => SessionEndsForCause
<1>1. IInv /\ [Next]_vars =>
        [c.state = "AUTHENTICATED" /\ c'.state = "LOGOFF" /\ Head(queue).type = "TIMER"
           => Head(queue).arg \in c.handle]_vars
  BY CauseStep DEF IInv, Repaired
<1> QED BY <1>1, Invariance, PTL DEF Spec, SessionEndsForCause
=============================================================================
