--------------------------- MODULE DirTranProofs ---------------------------
(***************************************************************************)
(* Proofs about DirTran.                                                   *)
(***************************************************************************)
EXTENDS DirTran, FiniteSetTheorems, TLAPS

(***************************************************************************)
(* The types.                                                              *)
(***************************************************************************)
CallSet == [at : {"none", "bound", "wait"}, to : Servers \cup {"none"}, wait : BOOLEAN,
            id : Ids \cup {0}, unit : Units \cup {0}]
UnitSet == [to : Servers \cup {"none"}, id : Ids \cup {0}, ret : {"none", "live", "freed"},
            done : BOOLEAN, given : BOOLEAN]
MessageSet ==
  [type : {"INIT_SAM", "INIT_SMP", "DEINIT_SAM", "DEINIT_SMP", "HELLO_SAM", "HELLO_SMP",
           "ASK", "DATA"},
   handle : {"own", "none", "stale"}]
Sendings == {"HELLO_SAM", "HELLO_SMP", "INIT_SMP", "ASK"}

ControlTyped ==
  /\ ctl \in {"idle", "init", "session", "sam", "next", "smp", "hung"}
  /\ servers \subseteq Servers
  /\ waitHandle \in BOOLEAN /\ staleHandle \in BOOLEAN /\ running_dir \in BOOLEAN

\* What a call refers to, at each of its stages.
CallTyped(c) ==
  /\ call[c].at = "none" => call[c] = NoCall
  /\ call[c].at = "bound" => call[c].to \in Servers /\ call[c].id \in Ids
  /\ call[c].at = "wait" => call[c].unit \in Units

CallsTyped ==
  /\ call \in [Callers -> CallSet]
  /\ \A c \in Callers : CallTyped(c)
  /\ srv \in Sendings \cup {"recv", "hung"}
  /\ srv \in {"recv", "hung"} <=> call["srv"] = NoCall

TimersTyped == timers \subseteq Timers /\ leaked \subseteq Timers /\ locked \in BOOLEAN

ServiceTyped ==
  /\ srvQueue \in Seq(MessageSet) /\ inited \in BOOLEAN /\ receivers \subseteq Servers
  /\ destroyHeld \in BOOLEAN /\ TimersTyped

IdsTyped == handshakeId \in Ids \cup {0} /\ initId \in Ids \cup {0}

UnitsTyped == unit \in [Units -> UnitSet]
BindTyped == DOMAIN send_bind \subseteq Ids /\ \A i \in DOMAIN send_bind : send_bind[i] \in Servers
QueueTyped == data_send \in Seq(Units) /\ UnitsTyped /\ BindTyped /\ misused \in BOOLEAN

SendingTyped ==
  /\ transPosted \in BOOLEAN /\ dir \in {"recv", "take", "send", "told"}
  /\ cur \in Units \cup {0} /\ (dir \in {"send", "told"}) = (cur # 0)
  /\ bound \in Servers \cup {"none"}

TypeInv ==
  ControlTyped /\ CallsTyped /\ ServiceTyped /\ IdsTyped /\ QueueTyped /\ SendingTyped

-----------------------------------------------------------------------------
(* The operators on the queue, the units and the bindings. *)

\* The units that are left are those that are not taken away, in their order.
LEMMA UnqueueKeeps ==
  ASSUME data_send \in Seq(Units), NEW us, Unqueue(us)
  PROVE  /\ data_send' \in Seq(Units)
         /\ SeqToSet(data_send)' = SeqToSet(data_send) \ us
<1>0. PICK n \in 0..Len(data_send) : \E f \in [1..n -> DOMAIN data_send] :
             /\ \A i, j \in 1..n : i < j => f[i] < f[j]
             /\ {f[i] : i \in 1..n} = {i \in DOMAIN data_send : data_send[i] \notin us}
             /\ data_send' = [i \in 1..n |-> data_send[f[i]]]
  BY DEF Unqueue
<1>1. PICK f \in [1..n -> DOMAIN data_send] :
             /\ \A i, j \in 1..n : i < j => f[i] < f[j]
             /\ {f[i] : i \in 1..n} = {i \in DOMAIN data_send : data_send[i] \notin us}
             /\ data_send' = [i \in 1..n |-> data_send[f[i]]]
  BY <1>0
<1>2. data_send \in [1..Len(data_send) -> Units] /\ DOMAIN data_send = 1..Len(data_send)
  OBVIOUS
<1>3. n \in Nat /\ DOMAIN data_send' = 1..n
  BY <1>1
<1>4. data_send' \in Seq(Units)
  <2>1. data_send' \in [1..n -> Units]
    BY <1>1, <1>2
  <2> QED BY <2>1, <1>3
<1>5. ASSUME NEW u \in SeqToSet(data_send)' PROVE u \in SeqToSet(data_send) \ us
  <2>1. PICK i \in 1..n : u = data_send[f[i]]
    BY <1>1, <1>3, <1>5 DEF SeqToSet
  <2>2. f[i] \in DOMAIN data_send /\ data_send[f[i]] \notin us
    BY <1>1, <2>1
  <2> QED BY <2>1, <2>2 DEF SeqToSet
<1>6. ASSUME NEW u \in SeqToSet(data_send) \ us PROVE u \in SeqToSet(data_send)'
  <2>1. PICK k \in DOMAIN data_send : u = data_send[k] /\ data_send[k] \notin us
    BY <1>6 DEF SeqToSet
  <2>2. PICK i \in 1..n : f[i] = k
    BY <1>1, <2>1
  <2>3. data_send'[i] = u /\ i \in DOMAIN data_send'
    BY <1>1, <1>3, <2>1, <2>2
  <2> QED BY <2>3 DEF SeqToSet
<1> QED BY <1>4, <1>5, <1>6

LEMMA AnswerTyped ==
  ASSUME NEW us, NEW f \in [Units -> UnitSet]
  PROVE  Answer(us, f) \in [Units -> UnitSet]
BY DEF Answer, UnitSet

LEMMA ClearTyped ==
  ASSUME NEW f \in [Units -> UnitSet]
  PROVE  ClearRetPara(f) \in [Units -> UnitSet]
BY DEF ClearRetPara, UnitSet

LEMMA NoUnitTyped == NoUnit \in UnitSet
BY DEF NoUnit, UnitSet

LEMMA BecomeTyped ==
  ASSUME NEW f \in [Units -> UnitSet], UnitsBecome(f)
  PROVE  UnitsTyped'
BY NoUnitTyped DEF UnitsBecome, UnitsTyped

LEMMA BindingsTyped ==
  ASSUME NEW f, DOMAIN f \subseteq Ids, \A i \in DOMAIN f : f[i] \in Servers,
         BindingsBecome(f)
  PROVE  BindTyped'
<1>1. /\ DOMAIN send_bind' = DOMAIN f \cap IdsInUse'
      /\ \A i \in DOMAIN send_bind' : send_bind'[i] = f[i]
  BY DEF BindingsBecome
<1> QED BY <1>1 DEF BindTyped

LEMMA MisusedTyped ==
  ASSUME NEW c, NEW b \in BOOLEAN, MisusedInRetPara(c, b)
  PROVE  misused' \in BOOLEAN
BY DEF MisusedInRetPara

LEMMA CloseAllTyped ==
  ASSUME QueueTyped, NEW c, NEW f \in [Units -> UnitSet], CloseAllGSNSender(c, f)
  PROVE  QueueTyped'
<1>1. UnitsTyped'
  BY BecomeTyped, ClearTyped, AnswerTyped DEF CloseAllGSNSender
<1>2. data_send' = <<>> /\ send_bind' = <<>>
  BY DEF CloseAllGSNSender
<1>3. misused' \in BOOLEAN
  BY MisusedTyped DEF CloseAllGSNSender, Misused, QueueTyped
<1>4. BindTyped'
  BY <1>2 DEF BindTyped
<1> QED BY <1>1, <1>2, <1>3, <1>4 DEF QueueTyped

LEMMA CloseTyped ==
  ASSUME QueueTyped, NEW id, CloseGSNSender(id)
  PROVE  data_send' \in Seq(Units) /\ UnitsTyped' /\ misused' \in BOOLEAN
<1> DEFINE us == {u \in SeqToSet(data_send) : unit[u].id = id}
<1>1. Unqueue(us) /\ UnitsBecome(Answer(us, unit))
  BY DEF CloseGSNSender
<1>2. misused' \in BOOLEAN
  BY DEF CloseGSNSender, Misused, QueueTyped
<1> HIDE DEF us
<1>3. data_send' \in Seq(Units)
  BY <1>1, UnqueueKeeps DEF QueueTyped
<1>4. UnitsTyped'
  BY <1>1, BecomeTyped, AnswerTyped DEF QueueTyped, UnitsTyped
<1> QED BY <1>2, <1>3, <1>4

LEMMA StopRunTyped ==
  ASSUME QueueTyped, NEW c, StopRun(c)
  PROVE  QueueTyped'
<1>1. CASE running_dir
  BY <1>1, CloseAllTyped DEF StopRun, QueueTyped, UnitsTyped
<1>2. CASE ~running_dir
  BY <1>2 DEF StopRun, QueueTyped, UnitsTyped, BindTyped
<1> QED BY <1>1, <1>2

LEMMA HandshakeStopped ==
  ASSUME QueueTyped, NEW c, StopRunAndHandshake(c)
  PROVE  QueueTyped'
<1>1. CASE running_dir
  BY <1>1, CloseAllTyped DEF StopRunAndHandshake, QueueTyped, UnitsTyped
<1>2. CASE ~running_dir
  <2>1. CloseGSNSender(handshakeId) /\ send_bind' = Without(send_bind, handshakeId)
    BY <1>2 DEF StopRunAndHandshake
  <2>2. BindTyped'
    BY <2>1 DEF BindTyped, Without, QueueTyped
  <2> QED BY <2>1, <2>2, CloseTyped DEF QueueTyped
<1> QED BY <1>1, <1>2

-----------------------------------------------------------------------------
(* A new id is one that nothing refers to. *)

LEMMA UnitsCounted ==
  ASSUME ConstantsAssumption
  PROVE  IsFiniteSet(Units) /\ Cardinality(Units) = MaxUnits
BY FS_Interval DEF ConstantsAssumption, Units

LEMMA PairFinite ==
  ASSUME NEW x, NEW y
  PROVE  IsFiniteSet({x, y}) /\ Cardinality({x, y}) <= 2
<1>1. {x, y} = {x} \cup {y}
  OBVIOUS
<1>2. IsFiniteSet({x}) /\ Cardinality({x}) = 1
  BY FS_Singleton
<1> QED BY <1>1, <1>2, FS_AddElement

LEMMA NewIdIsFree ==
  ASSUME QueueTyped, NEW old, NEW first \in 1..3
  PROVE  NewId(old, first) \in FreeIds(old)
<1> DEFINE Q == {unit[u].id : u \in SeqToSet(data_send)}
           C == {call[d].id : d \in Callers}
           A == {unit[u].id : u \in Units}
           N == first..(MaxUnits + 7)
<1>1. MaxUnits \in Nat \ {0}
  BY ConstantsAssumption DEF ConstantsAssumption
<1>2. IsFiniteSet(A) /\ Cardinality(A) <= MaxUnits
  <2>1. [u \in Units |-> unit[u].id] \in Surjection(Units, A)
    BY DEF Surjection
  <2> HIDE DEF A
  <2> QED BY <2>1, UnitsCounted, FS_Surjection, ConstantsAssumption
<1>3. Q \subseteq A
  BY DEF SeqToSet, QueueTyped
<1>4. IsFiniteSet(C) /\ Cardinality(C) <= 2
  <2>1. C = {call["ctl"].id, call["srv"].id}
    BY DEF Callers
  <2> HIDE DEF C
  <2> QED BY <2>1, PairFinite
<1>5. IsFiniteSet({handshakeId, initId}) /\ Cardinality({handshakeId, initId}) <= 2
  BY PairFinite
<1> DEFINE H == {handshakeId, initId}
<1> HIDE DEF A, C, H
<1>6. IsFiniteSet(H \cup A) /\ Cardinality(H \cup A) <= MaxUnits + 2
  <2>1. Cardinality(H \cap A) \in Nat
    BY <1>5, FS_Intersection, FS_CardinalityType DEF H
  <2>2. Cardinality(H) \in Nat /\ Cardinality(A) \in Nat
    BY <1>5, <1>2, FS_CardinalityType DEF H
  <2>3. IsFiniteSet(H \cup A)
        /\ Cardinality(H \cup A) = Cardinality(H) + Cardinality(A) - Cardinality(H \cap A)
    BY <1>5, <1>2, FS_Union DEF H
  <2> QED BY <2>1, <2>2, <2>3, <1>1, <1>2, <1>5 DEF H
<1>7. IsFiniteSet((H \cup A) \cup C) /\ Cardinality((H \cup A) \cup C) <= MaxUnits + 4
  <2> DEFINE D == H \cup A
  <2> HIDE DEF D
  <2>1. IsFiniteSet(D) /\ Cardinality(D) <= MaxUnits + 2
    BY <1>6 DEF D
  <2>2. Cardinality(D \cap C) \in Nat
    BY <2>1, FS_Intersection, FS_CardinalityType
  <2>3. Cardinality(D) \in Nat /\ Cardinality(C) \in Nat
    BY <2>1, <1>4, FS_CardinalityType
  <2>4. IsFiniteSet(D \cup C)
        /\ Cardinality(D \cup C) = Cardinality(D) + Cardinality(C) - Cardinality(D \cap C)
    BY <2>1, <1>4, FS_Union
  <2> QED BY <2>1, <2>2, <2>3, <2>4, <1>1, <1>4 DEF D
<1>8. \E i \in N : i \notin (H \cup A) \cup C
  <2> DEFINE D == (H \cup A) \cup C
  <2> SUFFICES ASSUME N \subseteq D PROVE FALSE
    OBVIOUS
  <2> HIDE DEF D
  <2>1. Cardinality(N) = MaxUnits + 8 - first
    BY <1>1, FS_Interval
  <2>2. IsFiniteSet(D) /\ Cardinality(D) <= MaxUnits + 4
    BY <1>7 DEF D
  <2>3. Cardinality(N) <= Cardinality(D)
    BY <2>2, FS_Subset
  <2>4. Cardinality(D) \in Nat
    BY <2>2, FS_CardinalityType
  <2> QED BY <2>1, <2>2, <2>3, <2>4, <1>1
<1>9. PICK i \in N : i \notin (H \cup A) \cup C
  BY <1>8
<1>10. i \in Ids /\ i >= first
  BY <1>1, <1>9 DEF Ids
<1>11. i \in {j \in FreeIds(old) : j >= first}
  BY <1>3, <1>9, <1>10 DEF FreeIds, H, C
<1> QED BY <1>11 DEF NewId

LEMMA SenderTyped ==
  ASSUME QueueTyped, CallsTyped, NEW c \in Callers, NEW to \in Servers, NEW wait \in BOOLEAN,
         NEW old, NEW first \in 1..3, GSNSender(c, to, wait, old, first),
         IF c = "srv" THEN srv' \in Sendings ELSE srv' = srv
  PROVE  CallsTyped' /\ QueueTyped'
<1> DEFINE id == NewId(old, first)
           new == [at |-> "bound", to |-> to, wait |-> wait, id |-> id, unit |-> 0]
           binds == [i \in (DOMAIN send_bind \ {old}) \cup {id} |->
                       IF i = id THEN to ELSE send_bind[i]]
<1>1. call' = [call EXCEPT ![c] = new] /\ CloseGSNSender(old) /\ BindingsBecome(binds)
  BY DEF GSNSender
<1>2. id \in Ids
  BY NewIdIsFree DEF FreeIds
<1> HIDE DEF id
<1>3. new \in CallSet /\ new # NoCall
  BY <1>2 DEF CallSet, NoCall
<1>4. call' \in [Callers -> CallSet] /\ call'[c] = new
      /\ \A d \in Callers : d # c => call'[d] = call[d]
  BY <1>1, <1>3 DEF CallsTyped
<1>5. \A d \in Callers : CallTyped(d)'
  BY <1>4, <1>2 DEF CallTyped, CallsTyped
<1>6. CallsTyped'
  BY <1>3, <1>4, <1>5 DEF CallsTyped, Callers, Sendings
<1>7. DOMAIN binds \subseteq Ids /\ \A i \in DOMAIN binds : binds[i] \in Servers
  BY <1>2 DEF QueueTyped, BindTyped
<1> HIDE DEF binds
<1>8. BindTyped'
  BY <1>1, <1>7, BindingsTyped
<1> QED BY <1>1, <1>6, <1>8, CloseTyped DEF QueueTyped

LEMMA KilledTyped ==
  ASSUME ServiceTyped, NEW ts, KillTimers(ts)
  PROVE  timers' \subseteq Timers /\ locked' \in BOOLEAN
BY DEF KillTimers, ServiceTyped, TimersTyped

LEMMA EndTyped ==
  ASSUME CallsTyped, ServiceTyped, waitHandle \in BOOLEAN, NEW c \in Callers, NEW ok,
         CallEnds(c, ok)
  PROVE  CallsTyped' /\ TimersTyped' /\ waitHandle' \in BOOLEAN
<1>1. NoCall \in CallSet
  BY DEF NoCall, CallSet
<1>2. call' \in [Callers -> CallSet] /\ call'[c] = NoCall
      /\ \A d \in Callers : d # c => call'[d] = call[d]
  BY <1>1 DEF CallEnds, CallsTyped
<1>3. \A d \in Callers : CallTyped(d)'
  BY <1>2 DEF CallTyped, CallsTyped, NoCall
<1>4. (c = "ctl" /\ srv' = srv) \/ (c = "srv" /\ srv' \in {"recv", "hung"})
  BY DEF CallEnds, KillsAndReads, Callers
<1>5. srv' \in Sendings \cup {"recv", "hung"}
      /\ (srv' \in {"recv", "hung"} <=> call'["srv"] = NoCall)
  BY <1>2, <1>4 DEF CallsTyped, Callers
<1>6. TimersTyped'
  BY KilledTyped DEF CallEnds, KillsAndReads, ServiceTyped, TimersTyped
<1> QED BY <1>2, <1>3, <1>5, <1>6 DEF CallEnds, CallsTyped

-----------------------------------------------------------------------------
(* Each step keeps the types. *)

LEMMA InitTyped == Init => TypeInv
<1> SUFFICES ASSUME Init PROVE TypeInv
  OBVIOUS
<1>0. /\ srvQueue = <<>> /\ inited = FALSE /\ timers = {} /\ leaked = {} /\ receivers = {}
      /\ locked = FALSE /\ destroyHeld = FALSE
      /\ transPosted = FALSE /\ dir = "recv" /\ cur = 0 /\ bound = "none"
      /\ data_send = <<>> /\ misused = FALSE /\ handshakeId = 0 /\ initId = 0
  BY DEF Init
<1>1. ControlTyped
  BY DEF Init, ControlTyped
<1>2. ServiceTyped /\ IdsTyped
  <2>1. srvQueue \in Seq(MessageSet)
    BY <1>0
  <2>2. IdsTyped
    BY <1>0 DEF IdsTyped
  <2>3. inited \in BOOLEAN /\ TimersTyped /\ destroyHeld \in BOOLEAN /\ receivers \subseteq Servers
    BY <1>0 DEF TimersTyped
  <2> QED BY <2>1, <2>2, <2>3 DEF ServiceTyped
<1>3. SendingTyped
  <2>1. (dir \in {"send", "told"}) = (cur # 0)
    BY <1>0
  <2>2. transPosted \in BOOLEAN /\ dir \in {"recv", "take", "send", "told"}
    BY <1>0
  <2> QED BY <1>0, <2>1, <2>2 DEF SendingTyped
<1>4. NoCall \in CallSet /\ NoCall.at = "none"
  BY DEF NoCall, CallSet
<1>5. call \in [Callers -> CallSet] /\ \A c \in Callers : call[c] = NoCall
  BY <1>4 DEF Init
<1>6. CallsTyped
  BY <1>4, <1>5 DEF Init, CallsTyped, CallTyped, Callers
<1>7. UnitsTyped
  BY NoUnitTyped DEF Init, UnitsTyped
<1>8. BindTyped
  BY DEF Init, BindTyped
<1>9. data_send \in Seq(Units)
  BY <1>0
<1>10. QueueTyped
  BY <1>0, <1>7, <1>8, <1>9, FALSE \in BOOLEAN DEF QueueTyped
<1> QED BY <1>1, <1>2, <1>3, <1>6, <1>10 DEF TypeInv

LEMMA SendPacketTyped ==
  ASSUME TypeInv, NEW c \in Callers, SendPacket(c)
  PROVE  TypeInv'
<1>1. UNCHANGED <<ctl, servers, staleHandle, srvQueue, inited, receivers, destroyHeld,
                  running_dir, dirVars, misused>>
  BY DEF SendPacket
<1>2. PICK id \in IdsReturned(c) :
       /\ handshakeId' = IF c = "srv" /\ srv \in {"HELLO_SAM", "HELLO_SMP"} THEN id
                         ELSE handshakeId
       /\ initId' = IF c = "srv" /\ srv \in {"INIT_SMP", "ASK"} THEN id ELSE initId
       /\ \/ /\ id \notin DOMAIN send_bind
             /\ CallEnds(c, FALSE)
             /\ UNCHANGED <<data_send, transPosted, unit>>
          \/ \E u \in Units :
               /\ unit[u] = NoUnit /\ \A v \in Units : v < u => unit[v] # NoUnit
               /\ data_send' = Append(data_send, u) /\ transPosted' = TRUE
               /\ unit' = [unit EXCEPT ![u] =
                              [to |-> call[c].to, id |-> id, done |-> FALSE, given |-> FALSE,
                               ret |-> IF call[c].wait THEN "live" ELSE "none"]]
               /\ IF call[c].wait
                  THEN /\ call' = [call EXCEPT ![c].at = "wait", ![c].id = 0, ![c].unit = u]
                       /\ UNCHANGED <<srv, waitHandle, timerVars>>
                  ELSE CallEnds(c, TRUE)
       /\ BindingsBecome(send_bind)
  BY DEF SendPacket
<1>3. id \in Ids
  BY <1>2 DEF SendPacket, IdsReturned, TypeInv, CallsTyped, CallTyped, CallSet
<1>4. IdsTyped'
  BY <1>2, <1>3 DEF TypeInv, IdsTyped
<1>5. BindTyped'
  BY <1>2, BindingsTyped DEF TypeInv, QueueTyped, BindTyped
<1>6. CASE CallEnds(c, FALSE) /\ UNCHANGED <<data_send, transPosted, unit>>
  <2>1. QueueTyped' /\ SendingTyped'
    BY <1>1, <1>5, <1>6 DEF TypeInv, QueueTyped, UnitsTyped, SendingTyped, dirVars
  <2>2. CallsTyped' /\ TimersTyped' /\ waitHandle' \in BOOLEAN
    BY <1>6, EndTyped DEF TypeInv, ControlTyped
  <2>3. ControlTyped' /\ ServiceTyped'
    BY <1>1, <2>2 DEF TypeInv, ControlTyped, ServiceTyped
  <2> QED BY <1>4, <2>1, <2>2, <2>3 DEF TypeInv
<1>7. ASSUME NEW u \in Units,
             /\ data_send' = Append(data_send, u) /\ transPosted' = TRUE
             /\ unit' = [unit EXCEPT ![u] =
                            [to |-> call[c].to, id |-> id, done |-> FALSE, given |-> FALSE,
                             ret |-> IF call[c].wait THEN "live" ELSE "none"]]
             /\ IF call[c].wait
                THEN /\ call' = [call EXCEPT ![c].at = "wait", ![c].id = 0, ![c].unit = u]
                     /\ UNCHANGED <<srv, waitHandle, timerVars>>
                ELSE CallEnds(c, TRUE)
      PROVE  TypeInv'
  <2> DEFINE new == [to |-> call[c].to, id |-> id, done |-> FALSE, given |-> FALSE,
                     ret |-> IF call[c].wait THEN "live" ELSE "none"]
  <2>1. call[c] \in CallSet
    BY DEF TypeInv, CallsTyped
  <2>2. new \in UnitSet
    BY <1>3, <2>1 DEF UnitSet, CallSet
  <2>3. UnitsTyped'
    BY <1>7, <2>2 DEF TypeInv, QueueTyped, UnitsTyped
  <2>4. QueueTyped' /\ SendingTyped'
    BY <1>1, <1>5, <1>7, <2>3 DEF TypeInv, QueueTyped, SendingTyped, dirVars
  <2>5. CASE ~call[c].wait
    <3>1. CallsTyped' /\ TimersTyped' /\ waitHandle' \in BOOLEAN
      BY <1>7, <2>5, EndTyped DEF TypeInv, ControlTyped
    <3>2. ControlTyped' /\ ServiceTyped'
      BY <1>1, <3>1 DEF TypeInv, ControlTyped, ServiceTyped
    <3> QED BY <1>4, <2>4, <3>1, <3>2 DEF TypeInv
  <2>6. CASE call[c].wait
    <3> DEFINE waits == [call[c] EXCEPT !.at = "wait", !.id = 0, !.unit = u]
    <3>1. waits \in CallSet /\ waits.at = "wait" /\ waits.unit = u /\ waits # NoCall
      BY <2>1 DEF CallSet, NoCall
    <3>2. call' = [call EXCEPT ![c] = waits]
      BY <1>7, <2>6
    <3> HIDE DEF waits
    <3>3. call' \in [Callers -> CallSet] /\ call'[c] = waits
          /\ \A d \in Callers : d # c => call'[d] = call[d]
      BY <3>1, <3>2 DEF TypeInv, CallsTyped
    <3>4. \A d \in Callers : CallTyped(d)'
      BY <3>1, <3>3 DEF CallTyped, TypeInv, CallsTyped
    <3>5. call[c] # NoCall
      BY DEF SendPacket, NoCall
    <3>6. CallsTyped'
      BY <1>7, <2>6, <3>1, <3>3, <3>4, <3>5 DEF CallsTyped, TypeInv, Callers
    <3>7. ControlTyped' /\ ServiceTyped'
      BY <1>1, <1>7, <2>6 DEF TypeInv, ControlTyped, ServiceTyped, TimersTyped, timerVars
    <3> QED BY <1>4, <2>4, <3>6, <3>7 DEF TypeInv
  <2> QED BY <2>5, <2>6
<1> QED BY <1>2, <1>6, <1>7

LEMMA ReturnedTyped ==
  ASSUME TypeInv, NEW c \in Callers, Returned(c)
  PROVE  TypeInv'
<1> DEFINE u == call[c].unit
<1>1. PICK r \in Waited(c) :
         /\ CallEnds(c, r # "ETIMEDOUT") /\ UNCHANGED <<data_send, cur>>
         /\ IF r = "ETIMEDOUT"
            THEN UnitsBecome([unit EXCEPT ![u].given = TRUE]) /\ MisusedInRetPara(c, misused)
            ELSE UnitsBecome([unit EXCEPT ![u].ret = "freed"]) /\ UNCHANGED misused
         /\ BindingsBecome(send_bind)
  BY DEF Returned
<1>2. UNCHANGED <<ctl, servers, staleHandle, srvQueue, inited, receivers, destroyHeld, idVars,
                 running_dir, transPosted, dir, bound>>
  BY DEF Returned
<1>3. u \in Units
  BY DEF Returned, TypeInv, CallsTyped, CallTyped
<1>4. /\ [unit EXCEPT ![u].ret = "freed"] \in [Units -> UnitSet]
      /\ [unit EXCEPT ![u].given = TRUE] \in [Units -> UnitSet]
  <2>1. unit \in [Units -> UnitSet] /\ unit[u] \in UnitSet
    BY <1>3 DEF TypeInv, QueueTyped, UnitsTyped
  <2>2. [unit[u] EXCEPT !.ret = "freed"] \in UnitSet /\ [unit[u] EXCEPT !.given = TRUE] \in UnitSet
    BY <2>1 DEF UnitSet
  <2> QED BY <2>1, <2>2
<1>5. UnitsTyped'
  BY <1>1, <1>4, BecomeTyped
<1>6. BindTyped'
  BY <1>1, BindingsTyped DEF TypeInv, QueueTyped, BindTyped
<1>7. QueueTyped' /\ SendingTyped' /\ IdsTyped'
  <2>1. misused' \in BOOLEAN
    BY <1>1, MisusedTyped DEF TypeInv, QueueTyped
  <2> QED BY <1>1, <1>2, <1>5, <1>6, <2>1
          DEF TypeInv, QueueTyped, SendingTyped, IdsTyped, idVars
<1>8. CallsTyped' /\ TimersTyped' /\ waitHandle' \in BOOLEAN
  BY <1>1, EndTyped DEF TypeInv, ControlTyped
<1>9. ControlTyped' /\ ServiceTyped'
  BY <1>2, <1>8 DEF TypeInv, ControlTyped, ServiceTyped
<1> QED BY <1>7, <1>8, <1>9 DEF TypeInv

LEMMA TransmitterTyped ==
  ASSUME TypeInv, Transmitter
  PROVE  TypeInv'
<1>1. unit \in [Units -> UnitSet] /\ ClearRetPara(unit) \in [Units -> UnitSet]
  BY ClearTyped DEF TypeInv, QueueTyped, UnitsTyped
<1>2. CASE TransPacket
  <2>1. UNCHANGED <<ctlVars, call, srvVars, running_dir, cur, bound>> /\ transPosted' = FALSE
    BY <1>2 DEF TransPacket
  <2>2. ControlTyped' /\ CallsTyped' /\ ServiceTyped' /\ IdsTyped'
    BY <2>1 DEF TypeInv, ControlTyped, CallsTyped, CallTyped, ServiceTyped, TimersTyped,
                IdsTyped, ctlVars, srvVars, timerVars, idVars
  <2>3. SendingTyped'
    <3>1. dir = "recv" /\ dir' \in {"recv", "take"} /\ transPosted' \in BOOLEAN
      BY <1>2 DEF TransPacket
    <3> QED BY <2>1, <3>1 DEF TypeInv, SendingTyped
  <2>4. QueueTyped'
    <3>1. CASE running_dir
      <4>1. UNCHANGED <<data_send, send_bind>> /\ UnitsBecome(ClearRetPara(unit))
            /\ MisusedInRetPara("dir", misused)
        BY <1>2, <3>1 DEF TransPacket
      <4>2. UnitsTyped' /\ misused' \in BOOLEAN
        BY <1>1, <4>1, BecomeTyped, MisusedTyped DEF TypeInv, QueueTyped
      <4> QED BY <4>1, <4>2 DEF TypeInv, QueueTyped, BindTyped
    <3>2. CASE ~running_dir
      <4>1. CloseAllGSNSender("dir", ClearRetPara(unit))
        BY <1>2, <3>2 DEF TransPacket
      <4> QED BY <1>1, <4>1, CloseAllTyped DEF TypeInv
    <3> QED BY <3>1, <3>2
  <2> QED BY <2>2, <2>3, <2>4 DEF TypeInv
<1>3. CASE TakeUnit
  <2>1. UNCHANGED <<ctlVars, call, srvVars, running_dir, transPosted>>
    BY <1>3 DEF TakeUnit
  <2>2. ControlTyped' /\ CallsTyped' /\ ServiceTyped' /\ IdsTyped'
    BY <2>1 DEF TypeInv, ControlTyped, CallsTyped, CallTyped, ServiceTyped, TimersTyped,
                IdsTyped, ctlVars, srvVars, timerVars, idVars
  <2>3. CASE data_send = <<>>
    <3>1. dir' = "recv" /\ bound' = "none" /\ UNCHANGED <<cur, data_send, send_bind, unit, misused>>
      BY <1>3, <2>3 DEF TakeUnit
    <3>2. dir = "take"
      BY <1>3 DEF TakeUnit
    <3>3. SendingTyped' /\ QueueTyped'
      BY <2>1, <3>1, <3>2 DEF TypeInv, SendingTyped, QueueTyped, UnitsTyped, BindTyped
    <3> QED BY <2>2, <3>3 DEF TypeInv
  <2>4. CASE data_send # <<>>
    <3> DEFINE u == Head(data_send)
    <3>1. /\ data_send' = Tail(data_send) /\ bound' = Binding(u)
          /\ IF bound' = "none"
             THEN /\ UNCHANGED <<dir, cur>>
                  /\ misused' = Misused({u}, unit)
                  /\ UnitsBecome(Answer({u}, unit))
             ELSE /\ dir' = "send" /\ cur' = u
                  /\ UnitsBecome([unit EXCEPT ![u].id = 0]) /\ UNCHANGED misused
          /\ BindingsBecome(send_bind)
      BY <1>3, <2>4 DEF TakeUnit
    <3>2. u \in Units /\ data_send' \in Seq(Units)
      BY <2>4, <3>1 DEF TypeInv, QueueTyped
    <3>3. bound' \in Servers \cup {"none"}
      BY <3>1 DEF Binding, TypeInv, QueueTyped, BindTyped, SendingTyped
    <3>4. dir = "take"
      BY <1>3 DEF TakeUnit
    <3>5. cur' \in Units \cup {0} /\ (dir' \in {"send", "told"}) = (cur' # 0)
          /\ dir' \in {"recv", "take", "send", "told"}
      BY <3>1, <3>2, <3>4 DEF TypeInv, SendingTyped, Units
    <3>6. SendingTyped'
      BY <2>1, <3>3, <3>5 DEF TypeInv, SendingTyped
    <3>7. BindTyped'
      BY <3>1, BindingsTyped DEF TypeInv, QueueTyped, BindTyped
    <3>8. [unit EXCEPT ![u].id = 0] \in [Units -> UnitSet]
      BY <1>1, <3>2 DEF UnitSet
    <3>9. UnitsTyped'
      BY <1>1, <3>1, <3>8, AnswerTyped, BecomeTyped
    <3>10. misused' \in BOOLEAN
      BY <3>1 DEF Misused, TypeInv, QueueTyped
    <3>11. QueueTyped'
      BY <3>2, <3>7, <3>9, <3>10 DEF QueueTyped
    <3> QED BY <2>2, <3>6, <3>11 DEF TypeInv
  <2> QED BY <2>3, <2>4
<1>4. CASE DoSendPacket
  <2>1. UNCHANGED <<ctlVars, call, srvVars, running_dir, data_send, transPosted, send_bind, cur,
                   bound>>
    BY <1>4 DEF DoSendPacket
  <2>2. ControlTyped' /\ CallsTyped' /\ ServiceTyped' /\ IdsTyped'
    BY <2>1 DEF TypeInv, ControlTyped, CallsTyped, CallTyped, ServiceTyped, TimersTyped,
                IdsTyped, ctlVars, srvVars, timerVars, idVars
  <2>3. SendingTyped'
    <3>1. dir = "send" /\ dir' = "told" /\ cur # 0
      BY <1>4 DEF DoSendPacket, TypeInv, SendingTyped
    <3> QED BY <2>1, <3>1 DEF TypeInv, SendingTyped
  <2>4. UnitsTyped'
    BY <1>1, <1>4, AnswerTyped DEF DoSendPacket, UnitsTyped
  <2>5. misused' \in BOOLEAN
    BY <1>4 DEF DoSendPacket, Misused, TypeInv, QueueTyped
  <2>6. QueueTyped'
    BY <2>1, <2>4, <2>5 DEF TypeInv, QueueTyped, BindTyped
  <2> QED BY <2>2, <2>3, <2>6 DEF TypeInv
<1>5. CASE UnitDone
  <2>1. UNCHANGED <<ctlVars, call, srv, srvQueue, inited, timerVars, destroyHeld, idVars,
                   running_dir, data_send, transPosted, send_bind>>
    BY <1>5 DEF UnitDone
  <2>2. receivers' \subseteq Servers
    BY <1>5 DEF UnitDone, TypeInv, ServiceTyped
  <2>3. ControlTyped' /\ CallsTyped' /\ ServiceTyped' /\ IdsTyped'
    BY <2>1, <2>2 DEF TypeInv, ControlTyped, CallsTyped, CallTyped, ServiceTyped,
                TimersTyped, IdsTyped, ctlVars, timerVars, idVars
  <2>4. SendingTyped'
    BY <1>5, <2>1 DEF UnitDone, TypeInv, SendingTyped
  <2>5. UnitsTyped'
    BY <1>1, <1>5, BecomeTyped DEF UnitDone
  <2>6. misused' \in BOOLEAN
    BY <1>5 DEF UnitDone, Misused, TypeInv, QueueTyped
  <2>7. QueueTyped'
    BY <2>1, <2>5, <2>6 DEF TypeInv, QueueTyped, BindTyped
  <2> QED BY <2>3, <2>4, <2>7 DEF TypeInv
<1> QED BY <1>2, <1>3, <1>4, <1>5 DEF Transmitter

LEMMA ServiceStep ==
  ASSUME TypeInv, NEW type, Reads(type), srvQueue' \in Seq(MessageSet),
         waitHandle' \in BOOLEAN, staleHandle' \in BOOLEAN, running_dir' \in BOOLEAN,
         inited' \in BOOLEAN, receivers' \subseteq Servers, destroyHeld' \in BOOLEAN,
         TimersTyped', CallsTyped', QueueTyped', IdsTyped'
  PROVE  TypeInv'
<1>1. UNCHANGED <<ctl, servers, dirVars, transPosted>>
  BY DEF Reads
<1>2. ControlTyped'
  BY <1>1 DEF TypeInv, ControlTyped
<1>3. ServiceTyped'
  BY DEF ServiceTyped
<1>4. SendingTyped'
  BY <1>1 DEF TypeInv, SendingTyped, dirVars
<1> QED BY <1>2, <1>3, <1>4 DEF TypeInv

LEMMA ReadTyped ==
  ASSUME TypeInv, NEW type, Reads(type), srvQueue' = Tail(srvQueue)
  PROVE  srvQueue' \in Seq(MessageSet)
BY DEF Reads, TypeInv, ServiceTyped

LEMMA PostTyped ==
  ASSUME TypeInv, NEW type, Reads(type), NEW t \in {"HELLO_SAM", "HELLO_SMP"}, ReadsAndPosts(t)
  PROVE  srvQueue' \in Seq(MessageSet)
<1>1. Tail(srvQueue) \in Seq(MessageSet)
  BY DEF Reads, TypeInv, ServiceTyped
<1>2. Message(t, "none") \in MessageSet
  BY DEF Message, MessageSet
<1>3. (IF Queued(t) THEN <<>> ELSE <<Message(t, "none")>>) \in Seq(MessageSet)
  BY <1>2
<1> QED BY <1>1, <1>3 DEF ReadsAndPosts

LEMMA NothingSent ==
  ASSUME TypeInv, NoSending
  PROVE  /\ QueueTyped' /\ IdsTyped'
         /\ srv' = srv => CallsTyped'
         /\ srv = "recv" /\ srv' \in {"recv", "hung"} => CallsTyped'
<1>1. UNCHANGED <<call, handshakeId, initId, data_send, send_bind, unit, misused>>
  BY DEF NoSending, idVars
<1>2. QueueTyped' /\ IdsTyped'
  BY <1>1 DEF TypeInv, QueueTyped, UnitsTyped, BindTyped, IdsTyped
<1> QED BY <1>1, <1>2 DEF TypeInv, CallsTyped, CallTyped

LEMMA HandshakeTyped ==
  ASSUME TypeInv, NEW type \in Sendings, NEW server \in Servers, NEW wait \in BOOLEAN,
         Handshakes(type, server, wait)
  PROVE  CallsTyped' /\ QueueTyped' /\ IdsTyped'
<1>1. GSNSender("srv", server, wait, handshakeId, 1) /\ srv' = type /\ UNCHANGED idVars
  BY DEF Handshakes
<1>2. CallsTyped' /\ QueueTyped'
  BY <1>1, SenderTyped DEF TypeInv, Callers
<1> QED BY <1>1, <1>2 DEF TypeInv, IdsTyped, idVars

LEMMA RequestTyped ==
  ASSUME TypeInv, NEW type \in Sendings, GSNSender("srv", "SMP", TRUE, initId, 2),
         srv' = type, UNCHANGED idVars
  PROVE  CallsTyped' /\ QueueTyped' /\ IdsTyped'
<1>1. "SMP" \in Servers /\ "srv" \in Callers /\ 2 \in 1..3 /\ TRUE \in BOOLEAN
  BY DEF Servers, Callers
<1>2. QueueTyped /\ CallsTyped
  BY DEF TypeInv
<1>3. CallsTyped' /\ QueueTyped'
  BY <1>1, <1>2, SenderTyped
<1> QED BY <1>3 DEF TypeInv, IdsTyped, idVars

LEMMA SetEventTyped ==
  ASSUME TypeInv, SetEvent
  PROVE  waitHandle' \in BOOLEAN /\ staleHandle' \in BOOLEAN
BY DEF SetEvent

LEMMA TimerTyped ==
  ASSUME TypeInv, NEW t \in Timers, SetTimer(t)
  PROVE  TimersTyped'
BY DEF SetTimer, TypeInv, ServiceTyped, TimersTyped

LEMMA EndsTyped ==
  ASSUME TypeInv, NEW c, NEW server, Ends(c, server), leaked' = leaked
  PROVE  /\ QueueTyped' /\ IdsTyped' /\ running_dir' \in BOOLEAN /\ inited' \in BOOLEAN
         /\ receivers' \subseteq Servers /\ TimersTyped'
<1>1. QueueTyped'
  BY HandshakeStopped DEF Ends, TypeInv
<1>2. running_dir' = FALSE /\ inited' = FALSE /\ handshakeId' = 0 /\ initId' = initId
  BY DEF Ends, StopRunAndHandshake
<1>3. receivers' \subseteq receivers /\ TimersTyped'
  BY KilledTyped DEF Ends, TypeInv, ServiceTyped, TimersTyped
<1>4. IdsTyped'
  BY <1>2 DEF TypeInv, IdsTyped
<1> QED BY <1>1, <1>2, <1>3, <1>4 DEF TypeInv, ServiceTyped

LEMMA HangingTyped ==
  ASSUME TypeInv, NEW c, NEW server, EndsHanging(c, server), leaked' = leaked
  PROVE  /\ QueueTyped' /\ IdsTyped' /\ running_dir' \in BOOLEAN /\ inited' \in BOOLEAN
         /\ receivers' \subseteq Servers /\ TimersTyped' /\ destroyHeld' \in BOOLEAN
         /\ UNCHANGED call
<1>1. destroyHeld' = TRUE
  BY DEF EndsHanging
<1>2. CASE destroyHeld
  <2>1. NoSending /\ UNCHANGED <<running_dir, receivers, inited, timers, locked>>
    BY <1>2 DEF EndsHanging
  <2>2. QueueTyped' /\ IdsTyped' /\ UNCHANGED call
    BY <2>1, NothingSent DEF NoSending
  <2> QED BY <1>1, <2>1, <2>2 DEF TypeInv, ControlTyped, ServiceTyped, TimersTyped
<1>3. CASE ~destroyHeld
  <2>1. /\ StopRunAndHandshake(c) /\ receivers' = receivers \ {server}
        /\ KillTimers(TimersOf(server)) /\ UNCHANGED <<call, initId, inited>>
    BY <1>3 DEF EndsHanging
  <2>2. QueueTyped'
    BY <2>1, HandshakeStopped DEF TypeInv
  <2>3. running_dir' = FALSE /\ handshakeId' = 0
    BY <2>1 DEF StopRunAndHandshake
  <2>4. TimersTyped'
    BY <2>1, KilledTyped DEF TypeInv, ServiceTyped, TimersTyped
  <2>5. IdsTyped'
    BY <2>1, <2>3 DEF TypeInv, IdsTyped
  <2> QED BY <1>1, <2>1, <2>2, <2>3, <2>4, <2>5 DEF TypeInv, ServiceTyped
<1> QED BY <1>2, <1>3

LEMMA ServiceTypedNext ==
  ASSUME TypeInv, Service
  PROVE  TypeInv'
<1>1. /\ "SAM" \in Servers /\ "SMP" \in Servers
      /\ {"HELLO_SAM", "HELLO_SMP", "INIT_SMP", "ASK"} \subseteq Sendings
      /\ {"sam", "hello", "ask"} \subseteq Timers
  BY DEF Servers, Sendings, Timers
<1>2. /\ waitHandle \in BOOLEAN /\ staleHandle \in BOOLEAN /\ running_dir \in BOOLEAN
      /\ inited \in BOOLEAN /\ receivers \subseteq Servers /\ destroyHeld \in BOOLEAN
      /\ servers \subseteq Servers /\ TimersTyped
  BY DEF TypeInv, ControlTyped, ServiceTyped
<1>a. ASSUME UNCHANGED timerVars PROVE TimersTyped'
  BY <1>2, <1>a DEF TimersTyped, timerVars
<1>3. CASE OnInit_SAM
  <2>1. Reads("INIT_SAM") /\ running_dir' = TRUE /\ inited' = TRUE /\ SetEvent /\ NoSending
        /\ receivers' = receivers \cup ({"SAM"} \cap servers) /\ UNCHANGED <<srv, destroyHeld>>
    BY <1>3 DEF OnInit_SAM
  <2>2. receivers' \subseteq Servers
    BY <1>2, <2>1
  <2>3. CASE srvQueue' = Tail(srvQueue) /\ UNCHANGED timerVars
    BY <1>2, <1>a, <2>1, <2>2, <2>3, SetEventTyped, NothingSent, ReadTyped, ServiceStep
  <2>4. CASE SetTimer("sam") /\ ReadsAndPosts("HELLO_SAM")
    <3>1. TimersTyped'
      BY <1>1, <2>4, TimerTyped
    <3>2. srvQueue' \in Seq(MessageSet)
      BY <2>1, <2>4, PostTyped
    <3> QED BY <1>2, <2>1, <2>2, <3>1, <3>2, SetEventTyped, NothingSent, ServiceStep
  <2> QED BY <1>3, <2>3, <2>4 DEF OnInit_SAM
<1>4. CASE OnInit_SMP
  <2>1. Reads("INIT_SMP") /\ srvQueue' = Tail(srvQueue) /\ running_dir' = TRUE /\ inited' = TRUE
        /\ receivers' = receivers \cup {"SMP"} /\ SetEvent /\ UNCHANGED destroyHeld
    BY <1>4 DEF OnInit_SMP
  <2>2. receivers' \subseteq Servers
    BY <1>1, <1>2, <2>1
  <2>3. CASE NoSending /\ UNCHANGED <<srv, timerVars>>
    BY <1>2, <1>a, <2>1, <2>2, <2>3, SetEventTyped, NothingSent, ReadTyped, ServiceStep
  <2>4. CASE /\ SetTimer("ask") /\ GSNSender("srv", "SMP", TRUE, initId, 2) /\ srv' = "INIT_SMP"
             /\ UNCHANGED idVars
    <3>1. CallsTyped' /\ QueueTyped' /\ IdsTyped'
      BY <1>1, <2>4, RequestTyped
    <3>2. TimersTyped'
      BY <1>1, <2>4, TimerTyped
    <3> QED BY <1>2, <2>1, <2>2, <3>1, <3>2, SetEventTyped, ReadTyped, ServiceStep
  <2> QED BY <1>4, <2>3, <2>4 DEF OnInit_SMP
<1>5. ASSUME NEW server \in Servers, OnDeInit(server) PROVE TypeInv'
  <2>1. PICK type : Reads(type)
    BY <1>5 DEF OnDeInit
  <2>2. srvQueue' = Tail(srvQueue) /\ call' = call /\ leaked' = leaked /\ srv = "recv"
    BY <1>5 DEF OnDeInit, Reads
  <2>3. CASE EndHangs(server)
    <3>1. EndsHanging("srv", server) /\ srv' = "hung" /\ UNCHANGED <<waitHandle, staleHandle>>
      BY <1>5, <2>3 DEF OnDeInit
    <3>2. CallsTyped'
      BY <2>2, <3>1 DEF TypeInv, CallsTyped, CallTyped
    <3> QED BY <1>2, <2>1, <2>2, <3>1, <3>2, HangingTyped, ReadTyped, ServiceStep
  <2>4. CASE ~EndHangs(server)
    <3>1. Ends("srv", server) /\ SetEvent /\ UNCHANGED <<srv, destroyHeld>>
      BY <1>5, <2>4 DEF OnDeInit
    <3>2. CallsTyped'
      BY <2>2, <3>1 DEF TypeInv, CallsTyped, CallTyped
    <3> QED BY <1>2, <2>1, <2>2, <3>1, <3>2, EndsTyped, SetEventTyped, ReadTyped, ServiceStep
  <2> QED BY <2>3, <2>4
<1>6. ASSUME NEW type \in Sendings, NEW server \in Servers, NEW wait \in BOOLEAN,
             Handshake(type, server, wait)
      PROVE  TypeInv'
  <2>1. /\ Reads(type) /\ srvQueue' = Tail(srvQueue) /\ Handshakes(type, server, wait)
        /\ UNCHANGED <<waitHandle, staleHandle, inited, receivers, destroyHeld, running_dir>>
        /\ UNCHANGED timerVars
    BY <1>6 DEF Handshake
  <2> QED BY <1>2, <1>a, <2>1, HandshakeTyped, ReadTyped, ServiceStep
<1>7. CASE OnAskTimer
  <2>1. /\ Reads("ASK") /\ srvQueue' = Tail(srvQueue) /\ srv = "recv"
        /\ UNCHANGED <<waitHandle, staleHandle, inited, receivers, leaked, destroyHeld,
                       running_dir>>
    BY <1>7 DEF OnAskTimer, Reads
  <2>2. CASE /\ srv' = "ASK" /\ GSNSender("srv", "SMP", TRUE, initId, 2)
             /\ UNCHANGED <<timers, locked, idVars>>
    <3>1. TimersTyped'
      BY <1>2, <2>1, <2>2 DEF TimersTyped
    <3> QED BY <1>1, <1>2, <2>1, <2>2, <3>1, RequestTyped, ReadTyped, ServiceStep
  <2>3. CASE KillsAndReads({"ask"}) /\ NoSending
    <3>1. TimersTyped' /\ srv' \in {"recv", "hung"}
      BY <1>2, <2>1, <2>3, KilledTyped DEF KillsAndReads, TypeInv, TimersTyped
    <3>2. CallsTyped' /\ QueueTyped' /\ IdsTyped'
      BY <2>1, <2>3, <3>1, NothingSent
    <3> QED BY <1>2, <2>1, <3>1, <3>2, ReadTyped, ServiceStep
  <2> QED BY <1>7, <2>2, <2>3 DEF OnAskTimer
<1>8. CASE ParseSMPData
  <2>1. /\ Reads("DATA") /\ NoSending /\ srv = "recv"
        /\ UNCHANGED <<waitHandle, staleHandle, inited, receivers, destroyHeld, running_dir>>
    BY <1>8 DEF ParseSMPData, Reads
  <2>2. CASE srvQueue' = Tail(srvQueue) /\ UNCHANGED <<srv, timerVars>>
    BY <1>2, <1>a, <2>1, <2>2, NothingSent, ReadTyped, ServiceStep
  <2>3. CASE srvQueue' = Tail(srvQueue) /\ KillsAndReads({"ask"}) /\ UNCHANGED leaked
    <3>1. TimersTyped' /\ srv' \in {"recv", "hung"}
      BY <1>2, <2>3, KilledTyped DEF KillsAndReads, TypeInv, TimersTyped
    <3>2. CallsTyped' /\ QueueTyped' /\ IdsTyped'
      BY <2>1, <3>1, NothingSent
    <3> QED BY <1>2, <2>1, <2>3, <3>1, <3>2, ReadTyped, ServiceStep
  <2>4. CASE /\ UNCHANGED srv
             /\ timers' = (timers \ {"ask"}) \cup {"hello"}
             /\ locked' = (locked \/ (~Repaired("KillUnlock") /\ "ask" \in timers))
             /\ leaked' = leaked \cup (IF Repaired("HelloTimer") THEN {} ELSE timers \cap {"hello"})
             /\ ReadsAndPosts("HELLO_SMP")
    <3>1. TimersTyped'
      BY <1>1, <1>2, <2>4 DEF TimersTyped
    <3>2. srvQueue' \in Seq(MessageSet)
      BY <2>1, <2>4, PostTyped
    <3> QED BY <1>2, <2>1, <2>4, <3>1, <3>2, NothingSent, ServiceStep
  <2> QED BY <1>8, <2>2, <2>3, <2>4 DEF ParseSMPData
<1>9. CASE HandshakeToSAM
  BY <1>1, <1>6, <1>9 DEF HandshakeToSAM
<1>10. CASE HandshakeToSMP
  BY <1>1, <1>6, <1>10 DEF HandshakeToSMP
<1>11. CASE Calls("srv")
  BY <1>11, SendPacketTyped, ReturnedTyped DEF Calls, Callers
<1> QED BY <1>1, <1>3, <1>4, <1>5, <1>7, <1>8, <1>9, <1>10, <1>11 DEF Service

LEMMA AppendTyped ==
  ASSUME ServiceTyped, NEW type, NEW handle, Message(type, handle) \in MessageSet,
         Post(type, handle)
  PROVE  srvQueue' \in Seq(MessageSet)
BY DEF Post, ServiceTyped

LEMMA ArrivesTyped ==
  ASSUME TypeInv, NEW type \in {"HELLO_SAM", "HELLO_SMP", "ASK", "DATA"}, Arrives(type)
  PROVE  TypeInv'
<1>1. /\ Post(type, "none")
      /\ UNCHANGED <<ctlVars, call, srv, inited, receivers, timerVars, destroyHeld, idVars,
                     running_dir, queueVars, dirVars, misused>>
  BY DEF Arrives
<1>2. srvQueue' \in Seq(MessageSet)
  <2>1. Message(type, "none") \in MessageSet
    BY DEF Message, MessageSet
  <2> QED BY <1>1, <2>1, AppendTyped DEF TypeInv
<1>3. ControlTyped' /\ ServiceTyped' /\ IdsTyped'
  BY <1>1, <1>2
  DEF TypeInv, ControlTyped, ServiceTyped, TimersTyped, IdsTyped, ctlVars, timerVars, idVars
<1>4. CallsTyped'
  BY <1>1 DEF TypeInv, CallsTyped, CallTyped
<1>5. QueueTyped'
  BY <1>1 DEF TypeInv, QueueTyped, UnitsTyped, BindTyped, queueVars
<1>6. SendingTyped'
  BY <1>1 DEF TypeInv, SendingTyped, queueVars, dirVars
<1> QED BY <1>3, <1>4, <1>5, <1>6 DEF TypeInv

\* The control thread's steps that do not send.
LEMMA ControlStep ==
  ASSUME TypeInv, ctl' \in {"idle", "init", "session", "sam", "next", "smp", "hung"},
         servers' \subseteq Servers, waitHandle' \in BOOLEAN, running_dir' \in BOOLEAN,
         srvQueue' \in Seq(MessageSet), inited' \in BOOLEAN, receivers' \subseteq Servers,
         TimersTyped', destroyHeld' \in BOOLEAN, QueueTyped', IdsTyped',
         UNCHANGED <<staleHandle, call, srv, transPosted, dirVars>>
  PROVE  TypeInv'
<1>1. ControlTyped' /\ ServiceTyped'
  BY DEF TypeInv, ControlTyped, ServiceTyped
<1>2. CallsTyped'
  BY DEF TypeInv, CallsTyped, CallTyped
<1>3. SendingTyped'
  BY DEF TypeInv, SendingTyped, dirVars
<1> QED BY <1>1, <1>2, <1>3 DEF TypeInv

LEMMA SrvTyped ==
  ASSUME TypeInv, SrvUnchanged
  PROVE  /\ UNCHANGED <<call, srv, transPosted, dirVars>>
         /\ IdsTyped' /\ receivers' \subseteq Servers /\ TimersTyped' /\ destroyHeld' \in BOOLEAN
BY DEF SrvUnchanged, TypeInv, IdsTyped, ServiceTyped, TimersTyped, timerVars, idVars

LEMMA DeInitTyped ==
  ASSUME TypeInv, NEW server, NEW from, NEW to \in {"sam", "smp"}, DeInit(server, from, to)
  PROVE  TypeInv'
<1>1. ctl' = to /\ SrvUnchanged /\ StopRun("ctl") /\ inited' = FALSE /\ waitHandle' = FALSE
      /\ Post(IF server = "SAM" THEN "DEINIT_SAM" ELSE "DEINIT_SMP", "own")
      /\ UNCHANGED <<servers, staleHandle>>
  BY DEF DeInit, Ctl
<1>2. srvQueue' \in Seq(MessageSet)
  <2>1. Message(IF server = "SAM" THEN "DEINIT_SAM" ELSE "DEINIT_SMP", "own") \in MessageSet
    BY DEF Message, MessageSet
  <2> QED BY <1>1, <2>1, AppendTyped DEF TypeInv
<1>3. QueueTyped' /\ running_dir' \in BOOLEAN
  BY <1>1, StopRunTyped DEF StopRun, TypeInv
<1>4. servers' \subseteq Servers
  BY <1>1 DEF TypeInv, ControlTyped
<1> QED BY <1>1, <1>2, <1>3, <1>4, SrvTyped, ControlStep

\* A message that is given up is in the queue as before.
LEMMA DisownedTyped ==
  ASSUME TypeInv, NEW handle \in {"none", "stale"}
  PROVE  Disowned(handle) \in Seq(MessageSet)
<1> DEFINE q == srvQueue
           back(m) == IF m.handle # "own" THEN m ELSE [m EXCEPT !.handle = handle]
<1>1. \A m \in MessageSet : back(m) \in MessageSet
  BY DEF MessageSet
<1>2. q \in Seq(MessageSet)
  BY DEF TypeInv, ServiceTyped
<1>3. q \in [1..Len(q) -> MessageSet] /\ DOMAIN q = 1..Len(q) /\ Len(q) \in Nat
  BY <1>2
<1> HIDE DEF back
<1>4. [i \in DOMAIN q |-> back(q[i])] \in [1..Len(q) -> MessageSet]
  BY <1>1, <1>3
<1>5. [i \in DOMAIN q |-> back(q[i])] \in Seq(MessageSet)
  BY <1>3, <1>4
<1> QED BY <1>5 DEF back, Disowned

LEMMA DeInitReturnsTyped ==
  ASSUME TypeInv, NEW server, NEW from, NEW to \in {"next", "idle"},
         DeInitReturns(server, from, to)
  PROVE  TypeInv'
<1>1. waitHandle' = FALSE /\ UNCHANGED <<staleHandle, call, srv, leaked, transPosted, dirVars>>
  BY DEF DeInitReturns
<1>2. PICK r \in WaitResults(waitHandle, SettingHandle) :
       LET hangs == r = "ETIMEDOUT" /\ EndHangs(server) IN
         /\ ctl' = IF hangs THEN "hung" ELSE to
         /\ servers' = IF to = "idle" /\ ~hangs THEN {} ELSE servers
         /\ srvQueue' = IF waitHandle THEN srvQueue
                        ELSE Disowned(IF r # "EBUSY" /\ Repaired("DeInitHandle") THEN "none"
                                      ELSE "stale")
         /\ IF r # "ETIMEDOUT"
            THEN NoSending
                 /\ UNCHANGED <<inited, receivers, timers, locked, destroyHeld, running_dir>>
            ELSE IF hangs THEN EndsHanging("ctl", server)
            ELSE Ends("ctl", server) /\ UNCHANGED destroyHeld
  BY DEF DeInitReturns
<1>3. ctl' \in {"next", "idle", "hung"} /\ servers' \subseteq Servers
  BY <1>2 DEF TypeInv, ControlTyped
<1>4. srvQueue' \in Seq(MessageSet)
  <2>1. srvQueue' = srvQueue \/ \E h \in {"none", "stale"} : srvQueue' = Disowned(h)
    BY <1>2
  <2>2. srvQueue \in Seq(MessageSet)
    BY DEF TypeInv, ServiceTyped
  <2> QED BY <2>1, <2>2, DisownedTyped
<1>5. CASE r # "ETIMEDOUT"
  <2>1. NoSending /\ UNCHANGED <<inited, receivers, timers, locked, destroyHeld, running_dir>>
    BY <1>2, <1>5
  <2>2. TimersTyped'
    BY <1>1, <2>1 DEF TypeInv, ServiceTyped, TimersTyped
  <2>3. /\ running_dir' \in BOOLEAN /\ inited' \in BOOLEAN /\ receivers' \subseteq Servers
        /\ destroyHeld' \in BOOLEAN
    BY <2>1 DEF TypeInv, ControlTyped, ServiceTyped
  <2> QED BY <1>1, <1>3, <1>4, <2>1, <2>2, <2>3, NothingSent, ControlStep
<1>6. CASE r = "ETIMEDOUT" /\ EndHangs(server)
  <2>1. EndsHanging("ctl", server) /\ leaked' = leaked
    BY <1>1, <1>2, <1>6
  <2> QED BY <1>1, <1>3, <1>4, <2>1, HangingTyped, ControlStep
<1>7. CASE r = "ETIMEDOUT" /\ ~EndHangs(server)
  <2>1. Ends("ctl", server) /\ destroyHeld' = destroyHeld /\ leaked' = leaked
    BY <1>1, <1>2, <1>7
  <2>2. destroyHeld' \in BOOLEAN
    BY <2>1 DEF TypeInv, ServiceTyped
  <2> QED BY <1>1, <1>3, <1>4, <2>1, <2>2, EndsTyped, ControlStep
<1> QED BY <1>5, <1>6, <1>7

LEMMA StartTyped ==
  ASSUME TypeInv, StartDirectTrans
  PROVE  TypeInv'
<1>1. PICK ss \in Sessions, wait \in BOOLEAN :
        /\ Ctl("idle", IF wait THEN "init" ELSE "session")
        /\ servers' = ss /\ waitHandle' = FALSE
        /\ \E handle \in {"own", "none"}, first, second \in {"INIT_SAM", "INIT_SMP"} :
             srvQueue' = Append(srvQueue, Message(first, handle))
                     \o (IF ss = Servers /\ ~wait THEN <<Message(second, "none")>> ELSE <<>>)
        /\ SrvUnchanged
        /\ UNCHANGED <<staleHandle, inited, running_dir, data_send, send_bind, unit, misused>>
  <2>1. PICK ss \in Sessions : \E wait \in BOOLEAN :
    LET handle == IF wait THEN "own" ELSE "none"
        smp == IF Repaired("Init_Smp") THEN "INIT_SMP" ELSE "INIT_SAM"
        first == IF "SAM" \in ss THEN "INIT_SAM" ELSE IF wait THEN "INIT_SMP" ELSE smp IN
      /\ Ctl("idle", IF wait THEN "init" ELSE "session")
      /\ servers' = ss /\ waitHandle' = FALSE
      /\ srvQueue' = Append(srvQueue, Message(first, handle))
                     \o (IF ss = Servers /\ ~wait THEN <<Message(smp, "none")>> ELSE <<>>)
      /\ SrvUnchanged
      /\ UNCHANGED <<staleHandle, inited, running_dir, data_send, send_bind, unit, misused>>
    BY DEF StartDirectTrans
  <2>2. PICK wait \in BOOLEAN :
    LET handle == IF wait THEN "own" ELSE "none"
        smp == IF Repaired("Init_Smp") THEN "INIT_SMP" ELSE "INIT_SAM"
        first == IF "SAM" \in ss THEN "INIT_SAM" ELSE IF wait THEN "INIT_SMP" ELSE smp IN
      /\ Ctl("idle", IF wait THEN "init" ELSE "session")
      /\ servers' = ss /\ waitHandle' = FALSE
      /\ srvQueue' = Append(srvQueue, Message(first, handle))
                     \o (IF ss = Servers /\ ~wait THEN <<Message(smp, "none")>> ELSE <<>>)
      /\ SrvUnchanged
      /\ UNCHANGED <<staleHandle, inited, running_dir, data_send, send_bind, unit, misused>>
    BY <2>1
  <2> DEFINE handle == IF wait THEN "own" ELSE "none"
             smp == IF Repaired("Init_Smp") THEN "INIT_SMP" ELSE "INIT_SAM"
             first == IF "SAM" \in ss THEN "INIT_SAM" ELSE IF wait THEN "INIT_SMP" ELSE smp
  <2>3. handle \in {"own", "none"} /\ smp \in {"INIT_SAM", "INIT_SMP"}
        /\ first \in {"INIT_SAM", "INIT_SMP"}
    OBVIOUS
  <2>4. srvQueue' = Append(srvQueue, Message(first, handle))
                     \o (IF ss = Servers /\ ~wait THEN <<Message(smp, "none")>> ELSE <<>>)
    BY <2>2
  <2> HIDE DEF handle, smp, first
  <2>5. \E h \in {"own", "none"}, f, s \in {"INIT_SAM", "INIT_SMP"} :
             srvQueue' = Append(srvQueue, Message(f, h))
                     \o (IF ss = Servers /\ ~wait THEN <<Message(s, "none")>> ELSE <<>>)
    BY <2>3, <2>4
  <2> QED BY <2>2, <2>5
<1>2. PICK handle \in {"own", "none"}, first, second \in {"INIT_SAM", "INIT_SMP"} :
        srvQueue' = Append(srvQueue, Message(first, handle))
                     \o (IF ss = Servers /\ ~wait THEN <<Message(second, "none")>> ELSE <<>>)
  BY <1>1
<1>3. srvQueue' \in Seq(MessageSet)
  <2>1. Message(first, handle) \in MessageSet /\ Message(second, "none") \in MessageSet
    BY DEF Message, MessageSet
  <2>2. Append(srvQueue, Message(first, handle)) \in Seq(MessageSet)
    BY <2>1 DEF TypeInv, ServiceTyped
  <2>3. (IF ss = Servers /\ ~wait THEN <<Message(second, "none")>> ELSE <<>>) \in Seq(MessageSet)
    BY <2>1
  <2> QED BY <1>2, <2>2, <2>3
<1>4. ss \subseteq Servers
  BY ConstantsAssumption DEF ConstantsAssumption
<1>5. /\ SrvUnchanged
      /\ UNCHANGED <<staleHandle, inited, running_dir, data_send, send_bind, unit, misused>>
      /\ ctl' \in {"init", "session"} /\ servers' = ss /\ waitHandle' = FALSE
  BY <1>1 DEF Ctl
<1>6. QueueTyped'
  BY <1>5 DEF TypeInv, QueueTyped, UnitsTyped, BindTyped
<1>7. running_dir' \in BOOLEAN /\ inited' \in BOOLEAN
  BY <1>5 DEF TypeInv, ControlTyped, ServiceTyped
<1> QED BY <1>3, <1>4, <1>5, <1>6, <1>7, SrvTyped, ControlStep

LEMMA InitReturnsTyped ==
  ASSUME TypeInv, InitReturns
  PROVE  TypeInv'
<1>1. /\ SrvUnchanged
      /\ UNCHANGED <<servers, staleHandle, inited, running_dir, data_send, send_bind, unit, misused>>
      /\ ctl' = "session" /\ waitHandle' = FALSE
  BY DEF InitReturns, Ctl
<1>2. srvQueue' \in Seq(MessageSet)
  <2> DEFINE kept == IF waitHandle THEN srvQueue ELSE Disowned("stale")
             type == IF Repaired("Init_Smp") THEN "INIT_SMP" ELSE "INIT_SAM"
             next == IF servers # Servers THEN <<>> ELSE <<Message(type, "none")>>
  <2>1. kept \in Seq(MessageSet)
    BY DisownedTyped DEF TypeInv, ServiceTyped
  <2>2. Message(type, "none") \in MessageSet
    BY DEF Message, MessageSet
  <2>3. next \in Seq(MessageSet)
    BY <2>2
  <2>4. srvQueue' = kept \o next
    BY DEF InitReturns
  <2> QED BY <2>1, <2>3, <2>4
<1>3. QueueTyped'
  BY <1>1 DEF TypeInv, QueueTyped, UnitsTyped, BindTyped
<1>4. running_dir' \in BOOLEAN /\ inited' \in BOOLEAN /\ servers' \subseteq Servers
  BY <1>1 DEF TypeInv, ControlTyped, ServiceTyped
<1> QED BY <1>1, <1>2, <1>3, <1>4, SrvTyped, ControlStep

LEMMA SendToTyped ==
  ASSUME TypeInv, SendTo
  PROVE  TypeInv'
<1>1. UNCHANGED <<servers, waitHandle, staleHandle, srvVars, running_dir, transPosted,
                 dirVars>> /\ ctl' = "session"
  BY DEF SendTo, Ctl
<1>2. PICK k \in servers : GSNSender("ctl", k, TRUE, 0, 3)
  BY DEF SendTo
<1>3. k \in Servers
  BY DEF TypeInv, ControlTyped
<1>4. CallsTyped' /\ QueueTyped'
  <2>1. "ctl" \in Callers /\ "ctl" # "srv" /\ 3 \in 1..3 /\ TRUE \in BOOLEAN
    BY DEF Callers
  <2>2. QueueTyped /\ CallsTyped /\ srv' = srv
    BY <1>1 DEF TypeInv, srvVars
  <2> QED BY <1>2, <1>3, <2>1, <2>2, SenderTyped
<1>5. ControlTyped' /\ ServiceTyped' /\ IdsTyped'
  BY <1>1
  DEF TypeInv, ControlTyped, ServiceTyped, TimersTyped, IdsTyped, srvVars, timerVars, idVars
<1>6. SendingTyped'
  BY <1>1 DEF TypeInv, SendingTyped, dirVars
<1> QED BY <1>4, <1>5, <1>6 DEF TypeInv

LEMMA ControlTypedNext ==
  ASSUME TypeInv, Control
  PROVE  TypeInv'
<1>1. CASE DeInitSmp
  BY <1>1, DeInitTyped DEF DeInitSmp
<1>2. CASE DeInitSamReturns
  BY <1>2, DeInitReturnsTyped DEF DeInitSamReturns
<1>3. CASE DeInitSmpReturns
  BY <1>3, DeInitReturnsTyped DEF DeInitSmpReturns
<1>4. CASE Calls("ctl")
  BY <1>4, SendPacketTyped, ReturnedTyped DEF Calls, Callers
<1> QED BY <1>1, <1>2, <1>3, <1>4, InitReturnsTyped DEF Control

LEMMA OutsideTyped ==
  ASSUME TypeInv, Outside
  PROVE  TypeInv'
<1>1. CASE TimerFires
  <2>1. \E type \in {"HELLO_SAM", "HELLO_SMP", "ASK"} : Arrives(type)
    BY <1>1 DEF TimerFires
  <2> QED BY <2>1, ArrivesTyped
<1>2. CASE DataFromSmp
  BY <1>2, ArrivesTyped DEF DataFromSmp
<1>3. CASE KillDirectSrv
  BY <1>3, DeInitTyped DEF KillDirectSrv
<1> QED BY <1>1, <1>2, <1>3, StartTyped, SendToTyped DEF Outside

LEMMA TypeStep ==
  ASSUME TypeInv, [Next]_vars
  PROVE  TypeInv'
<1>1. CASE UNCHANGED vars
  <2>1. ControlTyped' /\ ServiceTyped' /\ IdsTyped' /\ SendingTyped'
    BY <1>1 DEF TypeInv, ControlTyped, ServiceTyped, TimersTyped, IdsTyped, SendingTyped, vars,
                ctlVars, srvVars, timerVars, idVars, queueVars, dirVars
  <2>2. CallsTyped'
    BY <1>1 DEF TypeInv, CallsTyped, CallTyped, vars, srvVars
  <2>3. QueueTyped'
    BY <1>1 DEF TypeInv, QueueTyped, UnitsTyped, BindTyped, vars, queueVars
  <2> QED BY <2>1, <2>2, <2>3 DEF TypeInv
<1>2. CASE Transmitter
  BY <1>2, TransmitterTyped
<1>3. CASE Service
  BY <1>3, ServiceTypedNext
<1>4. CASE Control
  BY <1>4, ControlTypedNext
<1>5. CASE Outside
  BY <1>5, OutsideTyped
<1> QED BY <1>1, <1>2, <1>3, <1>4, <1>5 DEF Next

LEMMA TypeInvIsInvariant == Spec => []TypeInv
<1>1. TypeInv /\ [Next]_vars => TypeInv'
  BY TypeStep
<1> QED BY <1>1, InitTyped, PTL DEF Spec

\* Every variable of DirTran stays in its type, and the calls, units, ids and bindings in
\* theirs, whichever defects are repaired.
THEOREM TypeCorrect == Spec => []TypeOK
<1>1. TypeInv => TypeOK
  <2> SUFFICES ASSUME TypeInv PROVE TypeOK
    OBVIOUS
  <2>1. \A c \in Callers : call[c].at \in {"none", "bound", "wait"}
    BY DEF TypeInv, CallsTyped, CallSet
  <2>2. srv \in {"recv", "hung"} <=> call["srv"] = NoCall
    BY DEF TypeInv, CallsTyped
  <2> QED BY <2>1, <2>2
          DEF TypeInv, TypeOK, ControlTyped, ServiceTyped, TimersTyped, QueueTyped, SendingTyped
<1> QED BY <1>1, TypeInvIsInvariant, PTL

-----------------------------------------------------------------------------
(***************************************************************************)
(* The steps by what they do to the queue of units: OnTransPacket, the     *)
(* calls in progress, and of the others those that leave it alone, close a *)
(* sender to begin a call, or stop the sending.                            *)
(***************************************************************************)
Sends ==
  \E c \in Callers, to \in Servers, wait \in BOOLEAN, old \in Ids \cup {0}, first \in 1..3 :
    GSNSender(c, to, wait, old, first)
LeavesQueue == UNCHANGED <<call, data_send, send_bind, unit, misused>>
Stops == (\E c : StopRun(c) \/ StopRunAndHandshake(c)) /\ UNCHANGED call
Elsewhere ==
  /\ UNCHANGED <<dirVars, transPosted>>
  /\ \/ (running_dir => running_dir') /\ (LeavesQueue \/ Sends)
     \/ Stops

LEMMA Kinds ==
  ASSUME TypeInv, [Next]_vars
  PROVE  Transmitter \/ (\E c \in Callers : Calls(c)) \/ Elsewhere
<1>1. /\ "SAM" \in Servers /\ "SMP" \in Servers /\ "ctl" \in Callers /\ "srv" \in Callers
      /\ 1 \in 1..3 /\ 2 \in 1..3 /\ 3 \in 1..3 /\ TRUE \in BOOLEAN /\ FALSE \in BOOLEAN
      /\ handshakeId \in Ids \cup {0} /\ initId \in Ids \cup {0} /\ 0 \in Ids \cup {0}
  BY DEF Servers, Callers, TypeInv, IdsTyped
<1>2. ASSUME NEW type, Reads(type) PROVE UNCHANGED <<dirVars, transPosted>>
  BY <1>2 DEF Reads
<1>3. ASSUME NEW type, NEW server \in Servers, NEW wait \in BOOLEAN, Handshakes(type, server, wait)
      PROVE  Sends
  BY <1>1, <1>3 DEF Handshakes, Sends
<1>4. ASSUME GSNSender("srv", "SMP", TRUE, initId, 2) PROVE Sends
  BY <1>1, <1>4 DEF Sends
<1>5. ASSUME NoSending PROVE LeavesQueue
  BY <1>5 DEF NoSending, LeavesQueue
<1>6. ASSUME NEW c, NEW server, UNCHANGED call, Ends(c, server) PROVE Stops
  BY <1>6 DEF Ends, Stops
<1>a. ASSUME NEW c, NEW server, EndsHanging(c, server)
      PROVE  (LeavesQueue /\ UNCHANGED running_dir) \/ Stops
  BY <1>5, <1>a DEF EndsHanging, Stops
<1>7. CASE UNCHANGED vars
  <2>1. UNCHANGED <<dirVars, transPosted, running_dir, call, data_send, send_bind, unit, misused>>
    BY <1>7 DEF vars, dirVars, queueVars
  <2> QED BY <2>1 DEF Elsewhere, LeavesQueue
<1>8. CASE OnInit_SAM
  <2>1. Reads("INIT_SAM") /\ running_dir' = TRUE
    BY <1>8 DEF OnInit_SAM
  <2>2. NoSending
    BY <1>8 DEF OnInit_SAM
  <2> QED BY <1>2, <1>5, <2>1, <2>2 DEF Elsewhere
<1>9. CASE OnInit_SMP
  <2>1. Reads("INIT_SMP") /\ running_dir' = TRUE
    BY <1>9 DEF OnInit_SMP
  <2>2. NoSending \/ GSNSender("srv", "SMP", TRUE, initId, 2)
    BY <1>9 DEF OnInit_SMP
  <2> QED BY <1>2, <1>4, <1>5, <2>1, <2>2 DEF Elsewhere
<1>10. ASSUME NEW server, OnDeInit(server) PROVE Elsewhere
  <2>1. (\E type : Reads(type)) /\ UNCHANGED call
    BY <1>10 DEF OnDeInit
  <2>2. Ends("srv", server) \/ EndsHanging("srv", server)
    BY <1>10 DEF OnDeInit
  <2> QED BY <1>2, <1>6, <1>a, <2>1, <2>2 DEF Elsewhere
<1>11. ASSUME NEW type, NEW server \in Servers, NEW wait \in BOOLEAN, Handshake(type, server, wait)
       PROVE  Elsewhere
  <2>1. Reads(type) /\ Handshakes(type, server, wait) /\ UNCHANGED running_dir
    BY <1>11 DEF Handshake
  <2> QED BY <1>2, <1>3, <2>1 DEF Elsewhere
<1>12. CASE OnAskTimer
  <2>1. Reads("ASK") /\ UNCHANGED running_dir
        /\ (NoSending \/ GSNSender("srv", "SMP", TRUE, initId, 2))
    BY <1>12 DEF OnAskTimer
  <2> QED BY <1>2, <1>4, <1>5, <2>1 DEF Elsewhere
<1>13. CASE ParseSMPData
  <2>1. Reads("DATA") /\ UNCHANGED running_dir /\ NoSending
    BY <1>13 DEF ParseSMPData
  <2> QED BY <1>2, <1>5, <2>1 DEF Elsewhere
<1>14. CASE Service
  BY <1>1, <1>8, <1>9, <1>10, <1>11, <1>12, <1>13, <1>14
  DEF Service, HandshakeToSAM, HandshakeToSMP
<1>15. ASSUME NEW server, NEW from, NEW to, DeInit(server, from, to) PROVE Elsewhere
  <2>1. SrvUnchanged /\ StopRun("ctl")
    BY <1>15 DEF DeInit
  <2> QED BY <2>1 DEF SrvUnchanged, Elsewhere, Stops
<1>16. ASSUME NEW server, NEW from, NEW to, DeInitReturns(server, from, to) PROVE Elsewhere
  <2>1. UNCHANGED <<call, transPosted, dirVars>>
    BY <1>16 DEF DeInitReturns
  <2>2. \/ Ends("ctl", server) \/ EndsHanging("ctl", server)
        \/ NoSending /\ UNCHANGED running_dir
    BY <1>16 DEF DeInitReturns
  <2> QED BY <1>5, <1>6, <1>a, <2>1, <2>2 DEF Elsewhere
<1>17. CASE InitReturns
  <2>1. SrvUnchanged /\ UNCHANGED <<running_dir, data_send, send_bind, unit, misused>>
    BY <1>17 DEF InitReturns
  <2> QED BY <2>1 DEF SrvUnchanged, Elsewhere, LeavesQueue
<1>18. CASE Control
  BY <1>1, <1>15, <1>16, <1>17, <1>18 DEF Control, DeInitSmp, DeInitSamReturns, DeInitSmpReturns
<1>19. CASE StartDirectTrans
  <2>1. SrvUnchanged /\ UNCHANGED <<running_dir, data_send, send_bind, unit, misused>>
    BY <1>19 DEF StartDirectTrans
  <2> QED BY <2>1 DEF SrvUnchanged, Elsewhere, LeavesQueue
<1>20. ASSUME NEW type, Arrives(type) PROVE Elsewhere
  BY <1>20 DEF Arrives, Elsewhere, LeavesQueue, queueVars
<1>21. CASE SendTo
  <2>1. UNCHANGED <<running_dir, transPosted, dirVars>>
    BY <1>21 DEF SendTo
  <2>2. PICK k \in servers : GSNSender("ctl", k, TRUE, 0, 3)
    BY <1>21 DEF SendTo
  <2>3. k \in Servers
    BY DEF TypeInv, ControlTyped
  <2>4. Sends
    BY <1>1, <2>2, <2>3 DEF Sends
  <2> QED BY <2>1, <2>4 DEF Elsewhere
<1>22. CASE Outside
  BY <1>15, <1>19, <1>20, <1>21, <1>22 DEF Outside, TimerFires, DataFromSmp, KillDirectSrv
<1> QED BY <1>7, <1>14, <1>18, <1>22 DEF Next

-----------------------------------------------------------------------------
(* What is queued is served. *)

Served == data_send # <<>> => transPosted \/ (dir # "recv" /\ running_dir)

LEMMA CloseLeavesLess ==
  ASSUME QueueTyped, NEW id, CloseGSNSender(id), data_send = <<>>
  PROVE  data_send' = <<>>
<1> DEFINE us == {u \in SeqToSet(data_send) : unit[u].id = id}
<1>1. Unqueue(us)
  BY DEF CloseGSNSender
<1> HIDE DEF us
<1>2. data_send' \in Seq(Units) /\ SeqToSet(data_send)' \subseteq SeqToSet(data_send)
  BY <1>1, UnqueueKeeps DEF QueueTyped
<1>3. SeqToSet(data_send) = {}
  BY DEF SeqToSet
<1>4. ASSUME data_send' # <<>> PROVE FALSE
  <2>1. 1 \in DOMAIN data_send'
    BY <1>2, <1>4
  <2>2. data_send'[1] \in SeqToSet(data_send)'
    BY <2>1 DEF SeqToSet
  <2> QED BY <1>2, <1>3, <2>2
<1> QED BY <1>4

LEMMA ServedStep ==
  ASSUME TypeInv, Served, [Next]_vars
  PROVE  Served'
<1>1. ASSUME NEW c \in Callers, SendPacket(c) PROVE Served'
  <2>1. UNCHANGED <<dir, running_dir>>
    BY <1>1 DEF SendPacket, dirVars
  <2>2. transPosted' = TRUE \/ UNCHANGED <<data_send, transPosted>>
    BY <1>1 DEF SendPacket
  <2> QED BY <2>1, <2>2 DEF Served
<1>2. ASSUME NEW c \in Callers, Returned(c) PROVE Served'
  <2>1. UNCHANGED <<dir, running_dir, data_send, transPosted>>
    BY <1>2 DEF Returned
  <2> QED BY <2>1 DEF Served
<1>3. CASE TransPacket
  <2>1. UNCHANGED running_dir /\ IF running_dir THEN dir' = "take" ELSE data_send' = <<>>
    BY <1>3 DEF TransPacket, CloseAllGSNSender
  <2> QED BY <2>1 DEF Served
<1>4. CASE TakeUnit
  <2>1. UNCHANGED <<running_dir, transPosted>> /\ dir = "take"
        /\ IF data_send = <<>> THEN data_send' = <<>> ELSE dir' \in {"take", "send"}
    BY <1>4 DEF TakeUnit
  <2> QED BY <2>1 DEF Served
<1>5. CASE DoSendPacket
  <2>1. UNCHANGED <<running_dir, transPosted, data_send>> /\ dir' = "told" /\ dir = "send"
    BY <1>5 DEF DoSendPacket
  <2> QED BY <2>1 DEF Served
<1>6. CASE UnitDone
  <2>1. UNCHANGED <<running_dir, transPosted, data_send>> /\ dir = "told"
        /\ (running_dir => dir' = "take")
    BY <1>6 DEF UnitDone
  <2> QED BY <2>1 DEF Served
<1>7. CASE Elsewhere
  <2>1. UNCHANGED <<dir, transPosted>>
    BY <1>7 DEF Elsewhere, dirVars
  <2>2. ASSUME running_dir => running_dir', LeavesQueue \/ Sends PROVE Served'
    <3>1. data_send = <<>> => data_send' = <<>>
      <4>1. CASE LeavesQueue
        BY <4>1 DEF LeavesQueue
      <4>2. CASE Sends
        BY <4>2, CloseLeavesLess DEF Sends, GSNSender, TypeInv
      <4> QED BY <2>2, <4>1, <4>2
    <3> QED BY <2>1, <2>2, <3>1 DEF Served
  <2>3. CASE Stops
    <3>1. CASE running_dir
      BY <2>3, <3>1 DEF Stops, StopRun, StopRunAndHandshake, CloseAllGSNSender, Served
    <3>2. CASE ~running_dir
      <4>1. data_send = <<>> => data_send' = <<>>
        BY <2>3, <3>2, CloseLeavesLess DEF Stops, StopRun, StopRunAndHandshake, TypeInv
      <4> QED BY <2>1, <3>2, <4>1 DEF Served
    <3> QED BY <3>1, <3>2
  <2> QED BY <1>7, <2>2, <2>3 DEF Elsewhere
<1> QED BY <1>1, <1>2, <1>3, <1>4, <1>5, <1>6, <1>7, Kinds DEF Transmitter, Calls

\* As long as a unit is queued OnTransPacket is busy with the queue or has a message to
\* read, whatever stops and starts the sending meanwhile.
THEOREM QueueServed == Spec => []QueueIsServed
<1>1. Init => Served
  BY DEF Init, Served
<1>2. TypeInv /\ Served /\ [Next]_vars => Served'
  BY ServedStep
<1>3. Served => QueueIsServed
  BY DEF Served, QueueIsServed
<1> QED BY <1>1, <1>2, <1>3, TypeInvIsInvariant, PTL DEF Spec

-----------------------------------------------------------------------------
(***************************************************************************)
(* Nothing freed is used.  A unit that is still to be sent or answered has *)
(* not been answered yet, and what it refers to is freed only after that:  *)
(* by the caller, whose wait ends with the event, or by ClearRetPara.      *)
(***************************************************************************)
NoDuplicates == \A i, j \in DOMAIN data_send : data_send[i] = data_send[j] => i = j
Open(u) == unit[u].to # "none" /\ ~unit[u].done /\ unit[u].ret # "freed"
OpenInv ==
  /\ NoDuplicates
  /\ \A u \in SeqToSet(data_send) : Open(u)
  /\ dir = "send" => Open(cur) /\ cur \notin SeqToSet(data_send)
UsedInv == OpenInv /\ ~misused

UseRepairs == {"RetPara", "AfterEvent", "ParaLock", "TimedWait", "TryLock"} \subseteq Repairs

LEMMA QueuedAreUnits ==
  ASSUME data_send \in Seq(Units)
  PROVE  SeqToSet(data_send) \subseteq Units
BY DEF SeqToSet

LEMMA UnqueueOrder ==
  ASSUME data_send \in Seq(Units), NoDuplicates, NEW us, Unqueue(us)
  PROVE  NoDuplicates'
<1>0. PICK n \in 0..Len(data_send) : \E f \in [1..n -> DOMAIN data_send] :
             /\ \A i, j \in 1..n : i < j => f[i] < f[j]
             /\ {f[i] : i \in 1..n} = {i \in DOMAIN data_send : data_send[i] \notin us}
             /\ data_send' = [i \in 1..n |-> data_send[f[i]]]
  BY DEF Unqueue
<1>1. PICK f \in [1..n -> DOMAIN data_send] :
             /\ \A i, j \in 1..n : i < j => f[i] < f[j]
             /\ data_send' = [i \in 1..n |-> data_send[f[i]]]
  BY <1>0
<1>2. SUFFICES ASSUME NEW i \in 1..n, NEW j \in 1..n, data_send[f[i]] = data_send[f[j]]
               PROVE  i = j
  BY <1>1 DEF NoDuplicates
<1>3. f[i] \in DOMAIN data_send /\ f[j] \in DOMAIN data_send
  OBVIOUS
<1>4. f[i] = f[j]
  BY <1>2, <1>3 DEF NoDuplicates
<1>5. f[i] \in Nat /\ i \in Nat /\ j \in Nat
  BY <1>3
<1>6. ~(i < j) /\ ~(j < i)
  BY <1>1, <1>4, <1>5
<1> QED BY <1>5, <1>6

LEMMA Kept ==
  ASSUME NEW f, UnitsBecome(f), NEW u \in Units, u \in SeqToSet(data_send') \cup {cur'}
  PROVE  unit'[u] = f[u]
BY DEF UnitsBecome

\* ClearRetPara leaves alone what is not answered, and Answer what it is not to answer.
LEMMA ClearLeaves ==
  ASSUME "RetPara" \in Repairs, NEW f, NEW u \in Units, ~f[u].done
  PROVE  ClearRetPara(f)[u] = f[u]
BY DEF ClearRetPara, Repaired

LEMMA AnswerLeaves ==
  ASSUME NEW f, NEW us, NEW u \in Units, u \notin us
  PROVE  Answer(us, f)[u] = f[u]
BY DEF Answer

\* What a step that leaves the thread alone has to keep.
LEMMA OpenKept ==
  ASSUME TypeInv, UsedInv, UNCHANGED <<dir, cur>>, ~misused',
         NoDuplicates', SeqToSet(data_send)' \subseteq SeqToSet(data_send),
         \A u \in Units : u \in SeqToSet(data_send)' \/ (dir = "send" /\ u = cur) => unit'[u] = unit[u]
  PROVE  UsedInv'
<1>1. SeqToSet(data_send) \subseteq Units
  BY QueuedAreUnits DEF TypeInv, QueueTyped
<1>2. \A u \in SeqToSet(data_send)' : Open(u)'
  BY <1>1 DEF UsedInv, OpenInv, Open
<1>3. dir = "send" => cur \in Units
  BY DEF TypeInv, SendingTyped
<1>4. dir' = "send" => Open(cur)' /\ cur' \notin SeqToSet(data_send)'
  BY <1>3 DEF UsedInv, OpenInv, Open
<1> QED BY <1>2, <1>4 DEF UsedInv, OpenInv

\* With the lock, nobody else is there.
LEMMA AloneInRetPara ==
  ASSUME UseRepairs, NEW c, NEW b, MisusedInRetPara(c, b)
  PROVE  misused' = b
BY DEF UseRepairs, Repaired, MisusedInRetPara

LEMMA OpenCloseAll ==
  ASSUME UseRepairs, TypeInv, UsedInv, UNCHANGED <<dir, cur>>,
         NEW c, NEW f \in {unit, ClearRetPara(unit)}, CloseAllGSNSender(c, f)
  PROVE  UsedInv'
<1> DEFINE Q == SeqToSet(data_send)
           g == Answer(Q, f)
<1>1. data_send' = <<>> /\ misused' = Misused(Q, f) /\ UnitsBecome(ClearRetPara(g))
  BY AloneInRetPara DEF CloseAllGSNSender
<1>2. Q \subseteq Units
  BY QueuedAreUnits DEF TypeInv, QueueTyped
<1>3. ASSUME NEW u \in Units, Open(u) PROVE f[u] = unit[u]
  BY <1>3, ClearLeaves DEF UseRepairs, Open
<1>4. ~misused'
  <2>1. \A u \in Q : f[u].ret # "freed"
    BY <1>2, <1>3 DEF UsedInv, OpenInv, Open
  <2> HIDE DEF Q
  <2> QED BY <1>1, <2>1 DEF Misused, UsedInv
<1>5. SeqToSet(data_send)' = {} /\ NoDuplicates'
  BY <1>1 DEF SeqToSet, NoDuplicates
<1>6. ASSUME dir = "send" PROVE unit'[cur] = unit[cur]
  <2>1. cur \in Units /\ Open(cur) /\ cur \notin Q
    BY <1>6 DEF UsedInv, OpenInv, TypeInv, SendingTyped
  <2> HIDE DEF Q
  <2>2. f[cur] = unit[cur] /\ g[cur] = f[cur]
    BY <1>3, <2>1, AnswerLeaves
  <2> HIDE DEF g
  <2>3. ClearRetPara(g)[cur] = g[cur]
    BY <2>1, <2>2, ClearLeaves DEF UseRepairs, Open
  <2>4. unit'[cur] = ClearRetPara(g)[cur]
    BY <1>1, <2>1, Kept
  <2> QED BY <2>2, <2>3, <2>4
<1> QED BY <1>4, <1>5, <1>6, OpenKept

LEMMA OpenClose ==
  ASSUME UseRepairs, TypeInv, UsedInv, UNCHANGED <<dir, cur>>, NEW id, CloseGSNSender(id)
  PROVE  UsedInv'
<1> DEFINE us == {u \in SeqToSet(data_send) : unit[u].id = id}
<1>0. Unqueue(us) /\ UnitsBecome(Answer(us, unit))
      /\ \E awaited \in BOOLEAN :
           misused' \in {Misused(us, unit), Misused(us, unit) \/ (awaited /\ ~Repaired("AfterEvent"))}
  BY DEF CloseGSNSender
<1>1. Unqueue(us) /\ UnitsBecome(Answer(us, unit)) /\ (misused' => Misused(us, unit))
  <2>1. Repaired("AfterEvent")
    BY DEF UseRepairs, Repaired
  <2> QED BY <1>0, <2>1
<1>2. us \subseteq SeqToSet(data_send)
  OBVIOUS
<1> HIDE DEF us
<1>3. SeqToSet(data_send)' = SeqToSet(data_send) \ us /\ NoDuplicates'
  BY <1>1, UnqueueKeeps, UnqueueOrder DEF TypeInv, QueueTyped, UsedInv, OpenInv
<1>4. ~misused'
  BY <1>1, <1>2 DEF Misused, UsedInv, OpenInv, Open
<1>5. ASSUME NEW u \in Units, u \in SeqToSet(data_send)' \/ (dir = "send" /\ u = cur)
      PROVE  unit'[u] = unit[u]
  <2>1. u \notin us
    BY <1>2, <1>3, <1>5 DEF UsedInv, OpenInv
  <2>2. u \in SeqToSet(data_send') \cup {cur'}
    BY <1>5 DEF SeqToSet
  <2> QED BY <1>1, <2>1, <2>2, Kept, AnswerLeaves
<1> QED BY <1>3, <1>4, <1>5, OpenKept

LEMMA UsedStep ==
  ASSUME UseRepairs, TypeInv, UsedInv, [Next]_vars
  PROVE  UsedInv'
<1> DEFINE Q == SeqToSet(data_send)
<1>1. Q \subseteq Units /\ data_send \in Seq(Units) /\ unit \in [Units -> UnitSet]
  BY QueuedAreUnits DEF TypeInv, QueueTyped, UnitsTyped
<1>2. ASSUME NEW c \in Callers, SendPacket(c) PROVE UsedInv'
  <2>1. UNCHANGED <<dir, cur, misused>> /\ call[c].to \in Servers
    BY <1>2 DEF SendPacket, dirVars, TypeInv, CallsTyped, CallTyped
  <2>2. CASE UNCHANGED <<data_send, unit>>
    <3>1. SeqToSet(data_send)' = SeqToSet(data_send) /\ NoDuplicates' = NoDuplicates
      BY <2>2 DEF SeqToSet, NoDuplicates
    <3> QED BY <2>1, <2>2, <3>1, OpenKept DEF UsedInv, OpenInv
  <2>3. ASSUME NEW id, NEW u \in Units, unit[u] = NoUnit, data_send' = Append(data_send, u),
               unit' = [unit EXCEPT ![u] =
                          [to |-> call[c].to, id |-> id, done |-> FALSE, given |-> FALSE,
                           ret |-> IF call[c].wait THEN "live" ELSE "none"]]
        PROVE  UsedInv'
    <3>1. ~Open(u)
      BY <2>3 DEF Open, NoUnit
    <3>2. u \notin Q /\ (dir = "send" => u # cur)
      BY <3>1 DEF UsedInv, OpenInv
    <3>3. unit'[u].to # "none" /\ ~unit'[u].done /\ unit'[u].ret # "freed"
      BY <1>1, <2>1, <2>3 DEF Servers
    <3>4. \A v \in Units : v # u => unit'[v] = unit[v]
      BY <1>1, <2>3
    <3>5. DOMAIN data_send' = 1..Len(data_send) + 1 /\ data_send'[Len(data_send) + 1] = u
          /\ Len(data_send) \in Nat /\ DOMAIN data_send = 1..Len(data_send)
          /\ \A i \in DOMAIN data_send : data_send'[i] = data_send[i]
      BY <1>1, <2>3
    <3>6. SeqToSet(data_send)' \subseteq Q \cup {u}
      BY <3>5 DEF SeqToSet
    <3>7. NoDuplicates'
      <4>1. \A i \in DOMAIN data_send : data_send[i] # u
        BY <3>2 DEF SeqToSet
      <4>2. \A i \in DOMAIN data_send' : i \in DOMAIN data_send \/ i = Len(data_send) + 1
        BY <3>5
      <4> QED BY <3>5, <4>1, <4>2 DEF UsedInv, OpenInv, NoDuplicates
    <3>8. \A v \in SeqToSet(data_send)' : Open(v)'
      BY <1>1, <3>3, <3>4, <3>6 DEF UsedInv, OpenInv, Open
    <3>9. dir' = "send" => Open(cur)' /\ cur' \notin SeqToSet(data_send)'
      BY <2>1, <3>2, <3>4, <3>6 DEF UsedInv, OpenInv, Open, TypeInv, SendingTyped
    <3> QED BY <2>1, <3>7, <3>8, <3>9 DEF UsedInv, OpenInv
  <2> QED BY <1>2, <2>2, <2>3 DEF SendPacket
<1>3. ASSUME NEW c \in Callers, Returned(c) PROVE UsedInv'
  <2> DEFINE u == call[c].unit
  <2>1. UNCHANGED <<dir, cur, misused, data_send>>
    BY <1>3, AloneInRetPara DEF Returned
  <2>2. u \in Units
    BY <1>3 DEF Returned, TypeInv, CallsTyped, CallTyped
  <2>3. PICK r \in Waited(c) :
          IF r = "ETIMEDOUT" THEN UnitsBecome([unit EXCEPT ![u].given = TRUE])
          ELSE UnitsBecome([unit EXCEPT ![u].ret = "freed"])
    BY <1>3 DEF Returned
  <2>4. r # "ETIMEDOUT" => unit[u].done
    BY <2>3 DEF Waited, WaitResults, UseRepairs, Repaired
  <2> HIDE DEF u
  <2>5. SeqToSet(data_send)' = Q /\ SeqToSet(data_send') = Q /\ NoDuplicates' = NoDuplicates
    BY <2>1 DEF SeqToSet, NoDuplicates
  <2>6. ASSUME NEW v \in Units, v \in Q \/ (dir = "send" /\ v = cur) PROVE Open(v)'
    <3>1. Open(v)
      BY <2>6 DEF UsedInv, OpenInv
    <3>2. v \in SeqToSet(data_send') \cup {cur'}
      BY <2>1, <2>5, <2>6
    <3>3. CASE r # "ETIMEDOUT"
      <4>1. v # u
        BY <2>4, <3>1, <3>3 DEF Open
      <4>2. unit'[v] = [unit EXCEPT ![u].ret = "freed"][v]
        BY <2>3, <3>2, <3>3, Kept
      <4> QED BY <1>1, <3>1, <4>1, <4>2 DEF Open
    <3>4. CASE r = "ETIMEDOUT"
      <4>1. unit'[v] = [unit EXCEPT ![u].given = TRUE][v]
        BY <2>3, <3>2, <3>4, Kept
      <4>2. unit[v] \in UnitSet
        BY <1>1
      <4> QED BY <1>1, <2>2, <3>1, <4>1, <4>2 DEF Open, UnitSet
    <3> QED BY <3>3, <3>4
  <2>7. \A v \in SeqToSet(data_send)' : Open(v)'
    BY <1>1, <2>5, <2>6
  <2>8. dir' = "send" => Open(cur)' /\ cur' \notin SeqToSet(data_send)'
    <3>1. dir = "send" => cur \in Units /\ cur \notin Q
      BY DEF TypeInv, SendingTyped, UsedInv, OpenInv
    <3>2. dir = "send" => Open(cur)'
      <4> SUFFICES ASSUME dir = "send", NEW v \in Units, v = cur PROVE Open(v)'
        BY <2>1, <3>1 DEF Open
      <4> QED BY <2>6
    <3> QED BY <2>1, <2>5, <3>1, <3>2
  <2> QED BY <2>1, <2>5, <2>7, <2>8 DEF UsedInv, OpenInv
<1>4. CASE TransPacket
  <2>1. UNCHANGED cur /\ dir = "recv"
    BY <1>4 DEF TransPacket
  <2>2. CASE running_dir
    <3>1. dir' = "take" /\ UNCHANGED <<data_send, misused>> /\ UnitsBecome(ClearRetPara(unit))
      BY <1>4, <2>2, AloneInRetPara DEF TransPacket
    <3>2. SeqToSet(data_send)' = Q /\ SeqToSet(data_send') = Q /\ NoDuplicates' = NoDuplicates
      BY <3>1 DEF SeqToSet, NoDuplicates
    <3>3. ASSUME NEW v \in Q PROVE Open(v)'
      <4>1. v \in Units /\ Open(v)
        BY <1>1 DEF UsedInv, OpenInv
      <4>2. unit'[v] = unit[v]
        BY <3>1, <3>2, <4>1, Kept, ClearLeaves DEF UseRepairs, Open
      <4> QED BY <4>1, <4>2 DEF Open
    <3> QED BY <3>1, <3>2, <3>3 DEF UsedInv, OpenInv
  <2>3. CASE ~running_dir
    BY <1>4, <2>1, <2>3, OpenCloseAll DEF TransPacket
  <2> QED BY <2>2, <2>3
<1>5. CASE TakeUnit
  <2>1. CASE data_send = <<>>
    <3>1. dir' = "recv" /\ UNCHANGED <<data_send, unit, misused>>
      BY <1>5, <2>1 DEF TakeUnit
    <3>2. SeqToSet(data_send)' = Q /\ NoDuplicates' = NoDuplicates
      BY <3>1 DEF SeqToSet, NoDuplicates
    <3> QED BY <3>1, <3>2 DEF UsedInv, OpenInv, Open
  <2>2. CASE data_send # <<>>
    <3> DEFINE h == Head(data_send)
    <3>1. /\ data_send' = Tail(data_send)
          /\ IF bound' = "none"
             THEN /\ UNCHANGED <<dir, cur>>
                  /\ misused' = Misused({h}, unit)
                  /\ UnitsBecome(Answer({h}, unit))
             ELSE /\ dir' = "send" /\ cur' = h
                  /\ UnitsBecome([unit EXCEPT ![h].id = 0]) /\ UNCHANGED misused
      BY <1>5, <2>2 DEF TakeUnit
    <3>2. dir = "take"
      BY <1>5 DEF TakeUnit
    <3>3. Len(data_send) \in Nat \ {0} /\ DOMAIN data_send = 1..Len(data_send) /\ h = data_send[1]
          /\ DOMAIN data_send' = 1..Len(data_send) - 1
          /\ \A i \in DOMAIN data_send' : data_send'[i] = data_send[i + 1]
      BY <1>1, <2>2, <3>1
    <3> HIDE DEF h
    <3>4. NoDuplicates'
      <4> SUFFICES ASSUME NEW i \in DOMAIN data_send', NEW j \in DOMAIN data_send',
                          data_send'[i] = data_send'[j]
                   PROVE  i = j
        BY DEF NoDuplicates
      <4>1. i + 1 \in DOMAIN data_send /\ j + 1 \in DOMAIN data_send /\ i \in Int /\ j \in Int
        BY <3>3
      <4>2. data_send[i + 1] = data_send[j + 1]
        BY <3>3
      <4> QED BY <4>1, <4>2 DEF UsedInv, OpenInv, NoDuplicates
    <3>5. SeqToSet(data_send)' \subseteq Q /\ h \notin SeqToSet(data_send)' /\ h \in Q
      <4>1. \A i \in DOMAIN data_send' : i + 1 \in DOMAIN data_send /\ i + 1 # 1 /\ 1 \in DOMAIN data_send
        BY <3>3
      <4> QED BY <3>3, <4>1 DEF SeqToSet, UsedInv, OpenInv, NoDuplicates
    <3>6. SeqToSet(data_send') = SeqToSet(data_send)'
      BY DEF SeqToSet
    <3>7. Open(h) /\ h \in Units
      BY <1>1, <3>5 DEF UsedInv, OpenInv
    <3>8. CASE bound' = "none"
      <4>1. \A v \in SeqToSet(data_send)' : unit'[v] = unit[v]
        BY <1>1, <3>1, <3>5, <3>6, <3>8, Kept, AnswerLeaves
      <4>2. ~misused'
        BY <3>1, <3>7, <3>8 DEF Misused, UsedInv, Open
      <4>3. dir' = "take"
        BY <3>1, <3>2, <3>8
      <4> QED BY <3>4, <3>5, <4>1, <4>2, <4>3 DEF UsedInv, OpenInv, Open
    <3>9. CASE bound' # "none"
      <4>1. \A v \in SeqToSet(data_send)' \cup {h} : v \in Units /\ unit'[v] = [unit EXCEPT ![h].id = 0][v]
        BY <1>1, <3>1, <3>5, <3>6, <3>7, <3>9, Kept
      <4>2. \A v \in SeqToSet(data_send)' \cup {h} : Open(v)'
        <5> SUFFICES ASSUME NEW v \in SeqToSet(data_send)' \cup {h} PROVE Open(v)'
          OBVIOUS
        <5>1. Open(v) /\ unit[v] \in UnitSet /\ unit'[v] = [unit EXCEPT ![h].id = 0][v]
          BY <1>1, <3>5, <3>7, <4>1 DEF UsedInv, OpenInv
        <5> QED BY <1>1, <3>7, <4>1, <5>1 DEF Open, UnitSet
      <4>3. Open(cur)'
        <5> SUFFICES ASSUME NEW v, v = h PROVE Open(v)'
          BY <3>1, <3>9 DEF Open
        <5> QED BY <4>2
      <4> QED BY <3>1, <3>4, <3>5, <3>9, <4>2, <4>3 DEF UsedInv, OpenInv
    <3> QED BY <3>8, <3>9
  <2> QED BY <2>1, <2>2
<1>6. CASE DoSendPacket
  <2>1. dir = "send" /\ dir' = "told" /\ unit' = Answer({cur}, unit)
        /\ misused' = Misused({cur}, unit) /\ UNCHANGED data_send
    BY <1>6 DEF DoSendPacket
  <2>2. cur \notin Q /\ Open(cur)
    BY <2>1 DEF UsedInv, OpenInv
  <2>3. SeqToSet(data_send)' = Q /\ NoDuplicates' = NoDuplicates
    BY <2>1 DEF SeqToSet, NoDuplicates
  <2>4. \A v \in Q : unit'[v] = unit[v]
    BY <1>1, <2>1, <2>2, AnswerLeaves
  <2>5. ~misused'
    BY <2>1, <2>2 DEF Misused, Open, UsedInv
  <2> QED BY <2>1, <2>3, <2>4, <2>5 DEF UsedInv, OpenInv, Open
<1>7. CASE UnitDone
  <2>1. dir' # "send" /\ UnitsBecome(unit) /\ UNCHANGED <<data_send, misused>>
    BY <1>7 DEF UnitDone, UseRepairs, Repaired
  <2>2. SeqToSet(data_send)' = Q /\ SeqToSet(data_send') = Q /\ NoDuplicates' = NoDuplicates
    BY <2>1 DEF SeqToSet, NoDuplicates
  <2>3. \A v \in Q : unit'[v] = unit[v]
    BY <1>1, <2>1, <2>2, Kept
  <2> QED BY <2>1, <2>2, <2>3 DEF UsedInv, OpenInv, Open
<1>8. CASE Elsewhere
  <2>1. UNCHANGED <<dir, cur>>
    BY <1>8 DEF Elsewhere, dirVars
  <2>2. CASE LeavesQueue \/ UNCHANGED <<data_send, unit, misused>>
    <3>1. UNCHANGED <<data_send, unit, misused>>
      BY <2>2 DEF LeavesQueue
    <3>2. SeqToSet(data_send)' = Q /\ NoDuplicates' = NoDuplicates
      BY <3>1 DEF SeqToSet, NoDuplicates
    <3> QED BY <2>1, <3>1, <3>2, OpenKept DEF UsedInv, OpenInv
  <2>3. CASE Sends
    BY <2>1, <2>3, OpenClose DEF Sends, GSNSender
  <2>4. ASSUME NEW c, StopRun(c) PROVE UsedInv'
    BY <2>1, <2>2, <2>4, OpenCloseAll DEF StopRun
  <2>5. ASSUME NEW c, StopRunAndHandshake(c) PROVE UsedInv'
    BY <2>1, <2>5, OpenCloseAll, OpenClose DEF StopRunAndHandshake
  <2> QED BY <1>8, <2>2, <2>3, <2>4, <2>5 DEF Elsewhere, Stops
<1> QED BY <1>2, <1>3, <1>4, <1>5, <1>6, <1>7, <1>8, Kinds DEF Transmitter, Calls

\* No message refers to a stack that is gone, if a DeInit takes its own back.
HandlesLive == \A i \in DOMAIN srvQueue : srvQueue[i].handle # "stale"
HandleInv == HandlesLive /\ ~staleHandle

LEMMA AppendLive ==
  ASSUME ServiceTyped, HandlesLive, NEW type, NEW handle, handle # "stale",
         srvQueue' = Append(srvQueue, Message(type, handle))
  PROVE  HandlesLive'
BY DEF ServiceTyped, HandlesLive, Message

LEMMA HandleStep ==
  ASSUME {"DeInitHandle", "TryLock"} \subseteq Repairs, TypeInv, HandleInv, [Next]_vars
  PROVE  HandleInv'
<1>1. CASE UNCHANGED <<srvQueue, staleHandle>>
  BY <1>1 DEF HandleInv, HandlesLive
<1>2. ASSUME srvQueue # <<>>, srvQueue' = Tail(srvQueue), UNCHANGED staleHandle \/ SetEvent
      PROVE  HandleInv'
  <2>1. Head(srvQueue).handle # "stale" /\ HandlesLive'
    BY <1>2 DEF TypeInv, ServiceTyped, HandleInv, HandlesLive
  <2>2. ~staleHandle'
    <3>1. ~staleHandle
      BY DEF HandleInv
    <3>2. CASE UNCHANGED staleHandle
      BY <3>1, <3>2
    <3>3. CASE SetEvent
      <4>1. staleHandle' = (staleHandle \/ Head(srvQueue).handle = "stale")
        BY <3>3 DEF SetEvent
      <4> QED BY <2>1, <3>1, <4>1
    <3> QED BY <1>2, <3>2, <3>3
  <2> QED BY <2>1, <2>2 DEF HandleInv
<1>3. ASSUME NEW type, NEW handle, handle # "stale", Post(type, handle), UNCHANGED staleHandle
      PROVE  HandleInv'
  BY <1>3, AppendLive DEF Post, HandleInv, TypeInv
<1>4. CASE Transmitter
  <2>1. UNCHANGED <<srvQueue, staleHandle>>
    BY <1>4 DEF Transmitter, TransPacket, TakeUnit, DoSendPacket, UnitDone, ctlVars, srvVars
  <2> QED BY <1>1, <2>1
<1>5. ASSUME NEW c \in Callers, Calls(c) PROVE HandleInv'
  <2>1. UNCHANGED <<srvQueue, staleHandle>>
    BY <1>5 DEF Calls, SendPacket, Returned
  <2> QED BY <1>1, <2>1
<1>a. ASSUME NEW type, srvQueue # <<>>, UNCHANGED staleHandle \/ SetEvent, ReadsAndPosts(type)
      PROVE  HandleInv'
  <2>1. srvQueue \in Seq(MessageSet)
    BY DEF TypeInv, ServiceTyped
  <2>2. Head(srvQueue).handle # "stale" /\ HandlesLive'
    BY <1>a, <2>1 DEF ReadsAndPosts, HandleInv, HandlesLive, Message
  <2>3. CASE UNCHANGED staleHandle
    BY <2>2, <2>3 DEF HandleInv
  <2>4. CASE SetEvent
    <3>1. staleHandle' = (staleHandle \/ Head(srvQueue).handle = "stale")
      BY <2>4 DEF SetEvent
    <3> QED BY <2>2, <3>1 DEF HandleInv
  <2> QED BY <1>a, <2>3, <2>4
<1>6. CASE Service
  <2>1. ASSUME NEW server, OnDeInit(server)
        PROVE  srvQueue # <<>> /\ srvQueue' = Tail(srvQueue) /\ (UNCHANGED staleHandle \/ SetEvent)
    BY <2>1 DEF OnDeInit, Reads
  <2>2. ASSUME NEW type, NEW server, NEW wait, Handshake(type, server, wait)
        PROVE  srvQueue # <<>> /\ srvQueue' = Tail(srvQueue) /\ UNCHANGED staleHandle
    BY <2>2 DEF Handshake, Reads
  <2>3. CASE OnInit_SAM \/ OnInit_SMP \/ OnAskTimer \/ ParseSMPData
    <3>1. srvQueue # <<>> /\ (UNCHANGED staleHandle \/ SetEvent)
      BY <2>3 DEF OnInit_SAM, OnInit_SMP, OnAskTimer, ParseSMPData, Reads
    <3>2. srvQueue' = Tail(srvQueue) \/ \E type : ReadsAndPosts(type)
      BY <2>3 DEF OnInit_SAM, OnInit_SMP, OnAskTimer, ParseSMPData
    <3> QED BY <1>2, <1>a, <3>1, <3>2
  <2> QED BY <1>2, <1>5, <1>6, <2>1, <2>2, <2>3 DEF Service, HandshakeToSAM, HandshakeToSMP, Callers
<1>7. ASSUME NEW server, NEW from, NEW to, DeInit(server, from, to) PROVE HandleInv'
  <2>1. Post(IF server = "SAM" THEN "DEINIT_SAM" ELSE "DEINIT_SMP", "own") /\ UNCHANGED staleHandle
    BY <1>7 DEF DeInit
  <2> QED BY <1>3, <2>1
<1>8. ASSUME NEW server, NEW from, NEW to, DeInitReturns(server, from, to) PROVE HandleInv'
  <2>1. UNCHANGED staleHandle
    BY <1>8 DEF DeInitReturns
  <2>2. PICK r \in WaitResults(waitHandle, SettingHandle) :
          srvQueue' = IF waitHandle THEN srvQueue
                      ELSE Disowned(IF r # "EBUSY" /\ Repaired("DeInitHandle") THEN "none"
                                    ELSE "stale")
    BY <1>8 DEF DeInitReturns
  <2>3. r # "EBUSY" /\ Repaired("DeInitHandle")
    BY <2>2 DEF WaitResults, Repaired
  <2>4. \A i \in DOMAIN srvQueue : srvQueue[i] \in MessageSet
    BY DEF TypeInv, ServiceTyped
  <2>5. CASE srvQueue' = Disowned("none")
    <3>1. DOMAIN srvQueue' = DOMAIN srvQueue
      BY <2>5 DEF Disowned
    <3>2. ASSUME NEW i \in DOMAIN srvQueue PROVE srvQueue'[i].handle # "stale"
      <4>1. CASE srvQueue[i].handle # "own"
        BY <2>5, <4>1 DEF Disowned, HandleInv, HandlesLive
      <4>2. CASE srvQueue[i].handle = "own"
        <5>1. srvQueue'[i] = [srvQueue[i] EXCEPT !.handle = "none"]
          BY <2>5, <4>2 DEF Disowned
        <5> QED BY <2>4, <5>1 DEF MessageSet
      <4> QED BY <4>1, <4>2
    <3> QED BY <2>1, <3>1, <3>2 DEF HandleInv, HandlesLive
  <2> QED BY <1>1, <2>1, <2>2, <2>3, <2>5
<1>9. CASE InitReturns
  <2>1. waitHandle /\ UNCHANGED staleHandle
    BY <1>9 DEF InitReturns, Repaired
  <2>2. srvQueue' = srvQueue \o (IF servers # Servers THEN <<>>
                     ELSE <<Message(IF Repaired("Init_Smp") THEN "INIT_SMP" ELSE "INIT_SAM",
                                    "none")>>)
    BY <1>9, <2>1 DEF InitReturns
  <2>3. srvQueue \in Seq(MessageSet)
    BY DEF TypeInv, ServiceTyped
  <2>4. HandlesLive'
    BY <2>2, <2>3 DEF HandleInv, HandlesLive, Message
  <2> QED BY <2>1, <2>4 DEF HandleInv
<1>10. CASE Control
  BY <1>5, <1>7, <1>8, <1>9, <1>10 DEF Control, DeInitSmp, DeInitSamReturns, DeInitSmpReturns, Callers
<1>11. CASE StartDirectTrans
  <2>1. UNCHANGED staleHandle
        /\ \E t1, t2, wait, more : srvQueue' =
             Append(srvQueue, Message(t1, IF wait THEN "own" ELSE "none"))
             \o (IF more THEN <<Message(t2, "none")>> ELSE <<>>)
    BY <1>11 DEF StartDirectTrans
  <2>2. PICK t1, t2, wait, more : srvQueue' =
             Append(srvQueue, Message(t1, IF wait THEN "own" ELSE "none"))
             \o (IF more THEN <<Message(t2, "none")>> ELSE <<>>)
    BY <2>1
  <2>3. srvQueue \in Seq(MessageSet)
    BY DEF TypeInv, ServiceTyped
  <2>4. HandlesLive'
    BY <2>2, <2>3 DEF HandleInv, HandlesLive, Message
  <2> QED BY <2>1, <2>4 DEF HandleInv
<1>12. CASE SendTo
  BY <1>1, <1>12 DEF SendTo, srvVars
<1>13. ASSUME NEW type, Arrives(type) PROVE HandleInv'
  BY <1>3, <1>13 DEF Arrives, ctlVars
<1>14. CASE Outside
  BY <1>7, <1>11, <1>12, <1>13, <1>14 DEF Outside, TimerFires, DataFromSmp, KillDirectSrv
<1>15. CASE UNCHANGED vars
  BY <1>1, <1>15 DEF vars, ctlVars, srvVars
<1> QED BY <1>4, <1>6, <1>10, <1>14, <1>15 DEF Next

\* Nobody writes a result or sets an event that its caller or ClearRetPara has deleted, and
\* no handle on a stack that is gone is set, in any interleaving of the three threads, if
\* ret_para has a lock and ClearRetPara spares what is not answered, nothing of a result is
\* used after its event, a wait ends with its event or its time-out and with nothing else,
\* and a DeInit that gives up takes its message back; even where KillTimer hangs.
THEOREM NothingFreed ==
  ASSUME UseRepairs, "DeInitHandle" \in Repairs
  PROVE  Spec => []NothingFreedIsUsed
<1>1. Init => UsedInv /\ HandleInv
  <2> SUFFICES ASSUME Init PROVE UsedInv /\ HandleInv
    OBVIOUS
  <2>1. data_send = <<>> /\ dir = "recv" /\ ~misused /\ srvQueue = <<>> /\ ~staleHandle
    BY DEF Init
  <2>2. SeqToSet(data_send) = {} /\ NoDuplicates
    BY <2>1 DEF SeqToSet, NoDuplicates
  <2> QED BY <2>1, <2>2 DEF UsedInv, OpenInv, HandleInv, HandlesLive
<1>2. TypeInv /\ UsedInv /\ HandleInv /\ [Next]_vars => UsedInv' /\ HandleInv'
  <2>1. {"DeInitHandle", "TryLock"} \subseteq Repairs
    BY DEF UseRepairs
  <2> QED BY <2>1, UsedStep, HandleStep
<1>3. UsedInv /\ HandleInv => NothingFreedIsUsed
  BY DEF UsedInv, HandleInv, NothingFreedIsUsed
<1> QED BY <1>1, <1>2, <1>3, TypeInvIsInvariant, PTL DEF Spec

-----------------------------------------------------------------------------
(***************************************************************************)
(* Units go to the server they were queued for: a binding that a queued    *)
(* unit or a call would find is the one its sender made, because a new     *)
(* sender's id is one that neither uses.                                   *)
(***************************************************************************)
QueueBound ==
  \A u \in SeqToSet(data_send) :
    unit[u].id \in DOMAIN send_bind => send_bind[unit[u].id] = unit[u].to
CallsBound ==
  \A c \in Callers :
    call[c].at = "bound" /\ call[c].id \in DOMAIN send_bind => send_bind[call[c].id] = call[c].to
BoundInv == QueueBound /\ CallsBound

BindRepairs == {"Binding", "Found", "Back"} \subseteq Repairs

\* No binding is new or another's.
BindingsStay ==
  \A i \in DOMAIN send_bind' : i \in DOMAIN send_bind /\ send_bind'[i] = send_bind[i]
\* The queued units are as they were, but for one whose sender is forgotten.
UnitsStay ==
  \A u \in SeqToSet(data_send)' :
    /\ u \in SeqToSet(data_send)
    /\ unit'[u].to = unit[u].to /\ unit'[u].id \in {unit[u].id, 0}
CallsStay == \A c \in Callers : call'[c].at = "bound" => call'[c] = call[c]

LEMMA BoundKept ==
  ASSUME TypeInv, BoundInv, BindingsStay, UnitsStay, CallsStay
  PROVE  BoundInv'
<1>1. 0 \notin DOMAIN send_bind
  BY DEF TypeInv, QueueTyped, BindTyped, Ids
<1>2. QueueBound'
  BY <1>1 DEF BoundInv, QueueBound, BindingsStay, UnitsStay
<1>3. CallsBound'
  BY DEF BoundInv, CallsBound, BindingsStay, CallsStay
<1> QED BY <1>2, <1>3 DEF BoundInv

LEMMA BecomeStays ==
  ASSUME BindingsBecome(send_bind)
  PROVE  BindingsStay
BY DEF BindingsBecome, BindingsStay

LEMMA SameUnits ==
  ASSUME NEW f \in [Units -> UnitSet], NEW us, NEW u \in Units
  PROVE  /\ Answer(us, f)[u].to = f[u].to /\ Answer(us, f)[u].id = f[u].id
         /\ ClearRetPara(f)[u].to = f[u].to /\ ClearRetPara(f)[u].id = f[u].id
<1>1. f[u] \in UnitSet
  OBVIOUS
<1>2. Answer(us, f)[u] = f[u] \/ Answer(us, f)[u] = [f[u] EXCEPT !.done = TRUE]
  BY DEF Answer
<1>3. ClearRetPara(f)[u] = f[u] \/ ClearRetPara(f)[u] = [f[u] EXCEPT !.ret = "freed"]
  BY DEF ClearRetPara
<1> QED BY <1>1, <1>2, <1>3 DEF UnitSet

\* The units that UnitsBecome keeps, where f changes neither server nor sender.
LEMMA BecomeSame ==
  ASSUME TypeInv, NEW f \in {unit, ClearRetPara(unit)}, UnitsBecome(f),
         SeqToSet(data_send)' \subseteq SeqToSet(data_send)
  PROVE  UnitsStay
<1>1. SeqToSet(data_send) \subseteq Units /\ unit \in [Units -> UnitSet]
  BY QueuedAreUnits DEF TypeInv, QueueTyped, UnitsTyped
<1>2. ASSUME NEW u \in SeqToSet(data_send)'
      PROVE  unit'[u].to = unit[u].to /\ unit'[u].id = unit[u].id
  <2>1. u \in Units /\ unit'[u] = f[u]
    BY <1>1, <1>2, Kept DEF SeqToSet
  <2> QED BY <1>1, <2>1, SameUnits
<1> QED BY <1>2 DEF UnitsStay

LEMMA AnsweredSame ==
  ASSUME TypeInv, NEW us, UnitsBecome(Answer(us, unit)),
         SeqToSet(data_send)' \subseteq SeqToSet(data_send)
  PROVE  UnitsStay
<1>1. SeqToSet(data_send) \subseteq Units /\ unit \in [Units -> UnitSet]
  BY QueuedAreUnits DEF TypeInv, QueueTyped, UnitsTyped
<1>2. ASSUME NEW u \in SeqToSet(data_send)'
      PROVE  unit'[u].to = unit[u].to /\ unit'[u].id = unit[u].id
  <2>1. u \in Units /\ unit'[u] = Answer(us, unit)[u]
    BY <1>1, <1>2, Kept DEF SeqToSet
  <2> QED BY <1>1, <2>1, SameUnits
<1> QED BY <1>2 DEF UnitsStay

\* What CloseGSNSender leaves of the queue has other senders.
LEMMA CloseSame ==
  ASSUME TypeInv, NEW id, CloseGSNSender(id)
  PROVE  /\ UnitsStay
         /\ \A u \in SeqToSet(data_send)' : unit[u].id # id
<1> DEFINE us == {u \in SeqToSet(data_send) : unit[u].id = id}
<1>1. Unqueue(us) /\ UnitsBecome(Answer(us, unit))
  BY DEF CloseGSNSender
<1>2. \A u \in SeqToSet(data_send) : u \notin us => unit[u].id # id
  OBVIOUS
<1> HIDE DEF us
<1>3. SeqToSet(data_send)' = SeqToSet(data_send) \ us
  BY <1>1, UnqueueKeeps DEF TypeInv, QueueTyped
<1> QED BY <1>1, <1>2, <1>3, AnsweredSame

LEMMA CloseAllStays ==
  ASSUME NEW c, NEW f, CloseAllGSNSender(c, f)
  PROVE  BindingsStay /\ UnitsStay
<1>1. data_send' = <<>> /\ send_bind' = <<>>
  BY DEF CloseAllGSNSender
<1>2. SeqToSet(data_send)' = {}
  BY <1>1 DEF SeqToSet
<1>3. BindingsStay
  BY <1>1 DEF BindingsStay
<1> QED BY <1>2, <1>3 DEF UnitsStay

LEMMA SenderBound ==
  ASSUME TypeInv, BoundInv, NEW c \in Callers, NEW to \in Servers, NEW wait \in BOOLEAN,
         NEW old, NEW first \in 1..3, GSNSender(c, to, wait, old, first)
  PROVE  BoundInv'
<1> DEFINE id == NewId(old, first)
           new == [at |-> "bound", to |-> to, wait |-> wait, id |-> id, unit |-> 0]
           binds == [i \in (DOMAIN send_bind \ {old}) \cup {id} |->
                       IF i = id THEN to ELSE send_bind[i]]
<1>1. call' = [call EXCEPT ![c] = new] /\ CloseGSNSender(old) /\ BindingsBecome(binds)
  BY DEF GSNSender
<1>2. id \in FreeIds(old)
  BY NewIdIsFree DEF TypeInv
<1>3. id \in Ids /\ (\A d \in Callers : call[d].id # id)
      /\ \A u \in SeqToSet(data_send) : unit[u].id # old => unit[u].id # id
  BY <1>2 DEF FreeIds
<1>4. UnitsStay /\ \A u \in SeqToSet(data_send)' : unit[u].id # old
  BY <1>1, CloseSame
<1>5. ASSUME NEW i \in DOMAIN send_bind'
      PROVE  IF i = id THEN send_bind'[i] = to ELSE i \in DOMAIN send_bind /\ send_bind'[i] = send_bind[i]
  <2>1. DOMAIN send_bind' = DOMAIN binds \cap IdsInUse' /\ send_bind'[i] = binds[i]
    BY <1>1, <1>5 DEF BindingsBecome
  <2>2. i \in (DOMAIN send_bind \ {old}) \cup {id}
    BY <1>5, <2>1
  <2> QED BY <2>1, <2>2
<1> HIDE DEF binds
<1>6. 0 \notin DOMAIN send_bind' /\ 0 # id
  <2>1. 0 \notin DOMAIN send_bind
    BY DEF TypeInv, QueueTyped, BindTyped, Ids
  <2>2. 0 # id
    BY <1>3 DEF Ids
  <2> QED BY <1>5, <2>1, <2>2
<1> HIDE DEF id
<1>7. QueueBound'
  <2> SUFFICES ASSUME NEW u \in SeqToSet(data_send)', unit'[u].id \in DOMAIN send_bind'
               PROVE  send_bind'[unit'[u].id] = unit'[u].to
    BY DEF QueueBound
  <2>1. unit'[u].id = unit[u].id /\ unit'[u].to = unit[u].to /\ u \in SeqToSet(data_send)
    BY <1>4, <1>6 DEF UnitsStay
  <2>2. unit[u].id # id
    BY <1>3, <1>4, <2>1
  <2> QED BY <1>5, <2>1, <2>2 DEF BoundInv, QueueBound
<1>8. CallsBound'
  <2> SUFFICES ASSUME NEW d \in Callers, call'[d].at = "bound", call'[d].id \in DOMAIN send_bind'
               PROVE  send_bind'[call'[d].id] = call'[d].to
    BY DEF CallsBound
  <2>1. call \in [Callers -> CallSet]
    BY DEF TypeInv, CallsTyped
  <2>2. CASE d = c
    <3>1. call'[d] = new
      BY <1>1, <2>1, <2>2
    <3> QED BY <1>5, <3>1
  <2>3. CASE d # c
    <3>1. call'[d] = call[d] /\ call[d].id # id
      BY <1>1, <1>3, <2>1, <2>3
    <3> QED BY <1>5, <3>1 DEF BoundInv, CallsBound
  <2> QED BY <2>2, <2>3
<1> QED BY <1>7, <1>8 DEF BoundInv

LEMMA BoundStep ==
  ASSUME "Back" \in Repairs, TypeInv, BoundInv, [Next]_vars
  PROVE  BoundInv'
<1> DEFINE Q == SeqToSet(data_send)
<1>1. Q \subseteq Units /\ data_send \in Seq(Units) /\ unit \in [Units -> UnitSet]
      /\ call \in [Callers -> CallSet]
  BY QueuedAreUnits DEF TypeInv, QueueTyped, UnitsTyped, CallsTyped
<1>2. ASSUME UNCHANGED data_send PROVE SeqToSet(data_send)' = Q
  BY <1>2 DEF SeqToSet
<1>3. ASSUME UNCHANGED <<data_send, unit>> PROVE UnitsStay
  BY <1>3 DEF UnitsStay, SeqToSet
<1>4. ASSUME UNCHANGED send_bind PROVE BindingsStay
  BY <1>4 DEF BindingsStay
<1>5. ASSUME UNCHANGED call PROVE CallsStay
  BY <1>5 DEF CallsStay
<1>6. ASSUME NEW c \in Callers, NEW ok, CallEnds(c, ok) PROVE CallsStay
  <2>1. call' = [call EXCEPT ![c] = NoCall]
    BY <1>6 DEF CallEnds
  <2> QED BY <1>1, <2>1 DEF CallsStay, NoCall
<1>7. ASSUME NEW c \in Callers, SendPacket(c) PROVE BoundInv'
  <2>1. BindingsStay
    BY <1>7, BecomeStays DEF SendPacket
  <2>2. CASE CallEnds(c, FALSE) /\ UNCHANGED <<data_send, unit>>
    BY <1>3, <1>6, <2>1, <2>2, BoundKept
  <2>3. ASSUME NEW u \in Units, NEW id \in IdsReturned(c), data_send' = Append(data_send, u),
               unit' = [unit EXCEPT ![u] =
                          [to |-> call[c].to, id |-> id, done |-> FALSE, given |-> FALSE,
                           ret |-> IF call[c].wait THEN "live" ELSE "none"]],
               IF call[c].wait
               THEN call' = [call EXCEPT ![c].at = "wait", ![c].id = 0, ![c].unit = u]
               ELSE CallEnds(c, TRUE)
        PROVE  BoundInv'
    <3>1. id = call[c].id /\ call[c].at = "bound"
      BY <1>7, <2>3 DEF IdsReturned, Repaired, SendPacket
    <3>2. unit'[u].id = call[c].id /\ unit'[u].to = call[c].to
          /\ \A v \in Units : v # u => unit'[v] = unit[v]
      BY <1>1, <2>3, <3>1
    <3>3. SeqToSet(data_send)' \subseteq Q \cup {u}
      BY <1>1, <2>3 DEF SeqToSet
    <3>4. QueueBound'
      <4> SUFFICES ASSUME NEW v \in SeqToSet(data_send)', unit'[v].id \in DOMAIN send_bind'
                   PROVE  send_bind'[unit'[v].id] = unit'[v].to
        BY DEF QueueBound
      <4>1. CASE v = u
        BY <2>1, <3>1, <3>2, <4>1 DEF BoundInv, CallsBound, BindingsStay
      <4>2. CASE v # u
        <5>1. v \in Q /\ unit'[v] = unit[v]
          BY <1>1, <3>2, <3>3, <4>2
        <5> QED BY <2>1, <5>1 DEF BoundInv, QueueBound, BindingsStay
      <4> QED BY <4>1, <4>2
    <3>5. CallsStay
      <4>1. CASE call[c].wait
        <5>1. call' = [call EXCEPT ![c].at = "wait", ![c].id = 0, ![c].unit = u]
          BY <2>3, <4>1
        <5>2. call'[c].at = "wait" /\ \A d \in Callers : d # c => call'[d] = call[d]
          BY <1>1, <5>1 DEF CallSet
        <5> QED BY <5>2 DEF CallsStay
      <4>2. CASE ~call[c].wait
        BY <1>6, <2>3, <4>2
      <4> QED BY <4>1, <4>2
    <3>6. CallsBound'
      BY <2>1, <3>5 DEF BoundInv, CallsBound, CallsStay, BindingsStay
    <3> QED BY <3>4, <3>6 DEF BoundInv
  <2> QED BY <1>7, <2>2, <2>3 DEF SendPacket
<1>8. ASSUME NEW c \in Callers, Returned(c) PROVE BoundInv'
  <2> DEFINE u == call[c].unit
  <2>1. UNCHANGED data_send /\ BindingsStay
    BY <1>8, BecomeStays DEF Returned
  <2>2. u \in Units
    BY <1>8 DEF Returned, TypeInv, CallsTyped, CallTyped
  <2>3. PICK f \in {[unit EXCEPT ![u].ret = "freed"], [unit EXCEPT ![u].given = TRUE]} :
          UnitsBecome(f)
    BY <1>8 DEF Returned
  <2>4. CallsStay
    BY <1>6, <1>8 DEF Returned
  <2> HIDE DEF u
  <2>5. UnitsStay
    <3> SUFFICES ASSUME NEW v \in SeqToSet(data_send)'
                 PROVE  v \in Q /\ unit'[v].to = unit[v].to /\ unit'[v].id = unit[v].id
      BY DEF UnitsStay
    <3>1. v \in Q /\ v \in Units /\ unit[v] \in UnitSet
      BY <1>1, <1>2, <2>1
    <3>2. unit'[v] = f[v]
      BY <2>3, <3>1, Kept DEF SeqToSet
    <3>3. f[v] = unit[v] \/ f[v] = [unit[v] EXCEPT !.ret = "freed"]
          \/ f[v] = [unit[v] EXCEPT !.given = TRUE]
      BY <1>1, <2>2, <2>3, <3>1
    <3> QED BY <3>1, <3>2, <3>3 DEF UnitSet
  <2> QED BY <2>1, <2>4, <2>5, BoundKept
<1>9. CASE TransPacket
  <2>1. CallsStay
    BY <1>5, <1>9 DEF TransPacket
  <2>2. CASE running_dir
    <3>1. UNCHANGED <<data_send, send_bind>> /\ UnitsBecome(ClearRetPara(unit))
      BY <1>9, <2>2 DEF TransPacket
    <3>2. UnitsStay
      BY <1>2, <3>1, BecomeSame
    <3> QED BY <1>4, <2>1, <3>1, <3>2, BoundKept
  <2>3. CASE ~running_dir
    BY <1>9, <2>1, <2>3, CloseAllStays, BoundKept DEF TransPacket
  <2> QED BY <2>2, <2>3
<1>10. CASE TakeUnit
  <2>1. CallsStay
    BY <1>5, <1>10 DEF TakeUnit
  <2>2. CASE data_send = <<>>
    <3>1. UNCHANGED <<data_send, send_bind, unit>>
      BY <1>10, <2>2 DEF TakeUnit
    <3> QED BY <1>3, <1>4, <2>1, <3>1, BoundKept
  <2>3. CASE data_send # <<>>
    <3> DEFINE h == Head(data_send)
    <3>1. data_send' = Tail(data_send) /\ BindingsStay
          /\ (UnitsBecome(Answer({h}, unit)) \/ UnitsBecome([unit EXCEPT ![h].id = 0]))
      BY <1>10, <2>3, BecomeStays DEF TakeUnit
    <3>2. h \in Units
      BY <1>1, <2>3
    <3> HIDE DEF h
    <3>3. SeqToSet(data_send)' \subseteq Q
      BY <1>1, <2>3, <3>1 DEF SeqToSet
    <3>4. CASE UnitsBecome(Answer({h}, unit))
      BY <2>1, <3>1, <3>3, <3>4, AnsweredSame, BoundKept
    <3>5. CASE UnitsBecome([unit EXCEPT ![h].id = 0])
      <4>1. UnitsStay
        <5> SUFFICES ASSUME NEW v \in SeqToSet(data_send)'
                     PROVE  v \in Q /\ unit'[v].to = unit[v].to /\ unit'[v].id \in {unit[v].id, 0}
          BY DEF UnitsStay
        <5>1. v \in Q /\ v \in Units /\ unit[v] \in UnitSet
          BY <1>1, <3>3
        <5>2. unit'[v] = [unit EXCEPT ![h].id = 0][v]
          BY <3>5, <5>1, Kept DEF SeqToSet
        <5>3. unit'[v] = unit[v] \/ unit'[v] = [unit[v] EXCEPT !.id = 0]
          BY <1>1, <3>2, <5>1, <5>2
        <5> QED BY <5>1, <5>3 DEF UnitSet
      <4> QED BY <2>1, <3>1, <4>1, BoundKept
    <3> QED BY <3>1, <3>4, <3>5
  <2> QED BY <2>2, <2>3
<1>11. CASE DoSendPacket
  <2>1. UNCHANGED <<call, send_bind, data_send>> /\ unit' = Answer({cur}, unit)
    BY <1>11 DEF DoSendPacket
  <2>2. UnitsStay
    BY <1>1, <1>2, <2>1, SameUnits DEF UnitsStay
  <2> QED BY <1>4, <1>5, <2>1, <2>2, BoundKept
<1>12. CASE UnitDone
  <2>1. UNCHANGED <<call, send_bind, data_send>> /\ UnitsBecome(unit)
    BY <1>12 DEF UnitDone
  <2>2. UnitsStay
    BY <1>2, <2>1, BecomeSame
  <2> QED BY <1>4, <1>5, <2>1, <2>2, BoundKept
<1>13. CASE LeavesQueue
  BY <1>3, <1>4, <1>5, <1>13, BoundKept DEF LeavesQueue
<1>14. CASE Sends
  BY <1>14, SenderBound DEF Sends
<1>15. CASE Stops
  <2>1. CallsStay
    BY <1>5, <1>15 DEF Stops
  <2>2. CASE running_dir
    <3>1. PICK c : CloseAllGSNSender(c, unit)
      BY <1>15, <2>2 DEF Stops, StopRun, StopRunAndHandshake
    <3> QED BY <2>1, <3>1, CloseAllStays, BoundKept
  <2>3. CASE ~running_dir
    <3>1. CASE UNCHANGED <<data_send, send_bind, unit>>
      BY <1>3, <1>4, <2>1, <3>1, BoundKept
    <3>2. CASE CloseGSNSender(handshakeId) /\ send_bind' = Without(send_bind, handshakeId)
      <4>1. BindingsStay
        BY <3>2 DEF BindingsStay, Without
      <4> QED BY <2>1, <3>2, <4>1, CloseSame, BoundKept
    <3> QED BY <1>15, <2>3, <3>1, <3>2 DEF Stops, StopRun, StopRunAndHandshake
  <2> QED BY <2>2, <2>3
<1> QED BY <1>7, <1>8, <1>9, <1>10, <1>11, <1>12, <1>13, <1>14, <1>15, Kinds
        DEF Transmitter, Calls, Elsewhere

\* OnTransPacket sends each unit to the server it was queued for, and answers it unsent only
\* if its binding is closed, if it looks in the bindings for the sender of each unit anew and
\* GSNSender returns the id it has made.
THEOREM UnitsGoToTheirServer ==
  ASSUME BindRepairs
  PROVE  Spec => RightServer
<1>1. Init => BoundInv
  <2> SUFFICES ASSUME Init PROVE BoundInv
    OBVIOUS
  <2>1. send_bind = <<>>
    BY DEF Init
  <2>2. DOMAIN send_bind = {}
    BY <2>1
  <2> QED BY <2>2 DEF BoundInv, QueueBound, CallsBound
<1>2. TypeInv /\ BoundInv /\ [Next]_vars => BoundInv'
  BY BoundStep DEF BindRepairs
<1>3. TypeInv /\ BoundInv /\ [Next]_vars
      => [TakeUnit /\ data_send # <<>> =>
            LET u == Head(data_send) IN
              bound' = IF unit[u].id \in DOMAIN send_bind THEN unit[u].to ELSE "none"]_vars
  <2> SUFFICES ASSUME TypeInv, BoundInv, TakeUnit, data_send # <<>>
               PROVE  LET u == Head(data_send) IN
                        bound' = IF unit[u].id \in DOMAIN send_bind THEN unit[u].to ELSE "none"
    OBVIOUS
  <2> DEFINE h == Head(data_send)
  <2>1. bound' = Binding(h)
    BY DEF TakeUnit
  <2>2. h \in SeqToSet(data_send)
    <3>1. 1 \in DOMAIN data_send /\ h = data_send[1]
      BY DEF TypeInv, QueueTyped
    <3> QED BY <3>1 DEF SeqToSet
  <2> HIDE DEF h
  <2>3. bound' = IF unit[h].id \in DOMAIN send_bind THEN unit[h].to ELSE "none"
    BY <2>1, <2>2 DEF Binding, BindRepairs, Repaired, BoundInv, QueueBound
  <2> QED BY <2>3 DEF h
<1> QED BY <1>1, <1>2, <1>3, TypeInvIsInvariant, PTL DEF Spec, RightServer
-----------------------------------------------------------------------------
(***************************************************************************)
(* A session has what it needs and leaves nothing behind.  The service     *)
(* thread is behind the control thread by what is in srvQueue, so that the *)
(* invariant is about the order of the beginnings and ends there: which of *)
(* them is the last says what will be the case when all are read.          *)
(***************************************************************************)
InitOf(k) == IF k = "SAM" THEN {"INIT_SAM"} ELSE {"INIT_SMP"}
DeInitOf(k) == IF k = "SAM" THEN {"DEINIT_SAM"} ELSE {"DEINIT_SMP"}
TimerOf(k) == IF k = "SAM" THEN "sam" ELSE "ask"
Inits == {"INIT_SAM", "INIT_SMP"}
DeInits == {"DEINIT_SAM", "DEINIT_SMP"}

Has(q, B) == \E i \in DOMAIN q : q[i].type \in B
\* After each message of a type in A there is one of a type in B, and before it.
Followed(q, A, B) ==
  \A i \in DOMAIN q : q[i].type \in A => \E j \in DOMAIN q : i < j /\ q[j].type \in B
Preceded(q, A, B) ==
  \A i \in DOMAIN q : q[i].type \in A => \E j \in DOMAIN q : j < i /\ q[j].type \in B
\* Between two messages of types in A there is one of a type in B.
Alternate(q, A, B) ==
  \A i, j \in DOMAIN q :
    i < j /\ q[i].type \in A /\ q[j].type \in A =>
      \E k \in DOMAIN q : i < k /\ k < j /\ q[k].type \in B

\* What the service thread has not undone, or done, yet for server k.
Ended(k) ==
  /\ Followed(srvQueue, InitOf(k), DeInitOf(k))
  /\ ~Has(srvQueue, DeInitOf(k)) => k \notin receivers /\ TimerOf(k) \notin timers
Begun(k) ==
  /\ Followed(srvQueue, DeInitOf(k), InitOf(k))
  /\ ~Has(srvQueue, InitOf(k)) => k \in receivers
\* No timer is set that still runs.
Once(k) ==
  /\ Alternate(srvQueue, InitOf(k), DeInitOf(k))
  /\ TimerOf(k) \in timers => Preceded(srvQueue, InitOf(k), DeInitOf(k))
\* The same of what the servers share; SMP is the last to be ended.
On ==
  /\ Followed(srvQueue, DeInits, Inits)
  /\ ~Has(srvQueue, Inits) => running_dir /\ inited
Off ==
  /\ Followed(srvQueue, Inits, DeInitOf("SMP"))
  /\ ~Has(srvQueue, DeInitOf("SMP")) => ~running_dir /\ ~inited /\ "hello" \notin timers

\* The servers that the control thread has begun with, and has ended with.
Started ==
  IF ctl = "session" THEN servers
  ELSE IF ctl = "init" THEN IF "SAM" \in servers THEN {"SAM"} ELSE servers
  ELSE {}
Stopped ==
  IF ctl \in {"idle", "smp"} THEN Servers
  ELSE IF ctl \in {"sam", "next"} THEN {"SAM"}
  ELSE Servers \ Started

SessionInv ==
  /\ leaked = {} /\ \A k \in Servers : Once(k)
  /\ \A k \in Started : Begun(k)
  /\ \A k \in Stopped : Ended(k)
  /\ ctl \in {"init", "session"} => On
  /\ ctl \in {"idle", "smp"} => Off

\* A thread that hangs ends the order of the others: nothing is read to the end any more.
Hung == srv = "hung" \/ ctl = "hung"

SessionRepairs == {"ReceiverId", "Init_Smp", "AskTimer", "HelloTimer", "LateData"} \subseteq Repairs

LEMMA TailPlaces ==
  ASSUME NEW q \in Seq(MessageSet), q # <<>>
  PROVE  /\ 1 \in DOMAIN q /\ Head(q) = q[1] /\ Tail(q) \in Seq(MessageSet)
         /\ \A i \in DOMAIN Tail(q) :
              i \in Int /\ 1 < i + 1 /\ i + 1 \in DOMAIN q /\ Tail(q)[i] = q[i + 1]
         /\ \A i \in DOMAIN q :
              i \in Int /\ (i = 1 \/ (1 < i /\ i - 1 \in DOMAIN Tail(q) /\ Tail(q)[i - 1] = q[i]))
<1>1. Len(q) \in Nat /\ Len(q) > 0 /\ DOMAIN q = 1..Len(q) /\ Tail(q) \in Seq(MessageSet)
      /\ Len(Tail(q)) = Len(q) - 1 /\ DOMAIN Tail(q) = 1..(Len(q) - 1)
      /\ Head(q) = q[1] /\ \A i \in 1..(Len(q) - 1) : Tail(q)[i] = q[i + 1]
  OBVIOUS
<1> QED BY <1>1

LEMMA AppendPlaces ==
  ASSUME NEW q \in Seq(MessageSet), NEW e \in MessageSet
  PROVE  LET r == Append(q, e) IN
         /\ r \in Seq(MessageSet)
         /\ Len(q) + 1 \in DOMAIN r /\ r[Len(q) + 1] = e
         /\ \A i \in DOMAIN q : i \in Int /\ i \in DOMAIN r /\ r[i] = q[i] /\ i < Len(q) + 1
         /\ \A i \in DOMAIN r : i \in Int /\ (i = Len(q) + 1 \/ i \in DOMAIN q)
<1> DEFINE r == Append(q, e)
<1>1. Len(q) \in Nat /\ DOMAIN q = 1..Len(q) /\ r \in Seq(MessageSet)
      /\ Len(r) = Len(q) + 1 /\ DOMAIN r = 1..(Len(q) + 1)
      /\ r[Len(q) + 1] = e /\ \A i \in 1..Len(q) : r[i] = q[i]
  OBVIOUS
<1> HIDE DEF r
<1>2. /\ Len(q) + 1 \in DOMAIN r
      /\ \A i \in DOMAIN q : i \in Int /\ i \in DOMAIN r /\ r[i] = q[i] /\ i < Len(q) + 1
      /\ \A i \in DOMAIN r : i \in Int /\ (i = Len(q) + 1 \/ i \in DOMAIN q)
  BY <1>1
<1> QED BY <1>1, <1>2 DEF r

LEMMA ReadQueue ==
  ASSUME NEW q \in Seq(MessageSet), q # <<>>, NEW A, NEW B
  PROVE  /\ Has(q, B) <=> Head(q).type \in B \/ Has(Tail(q), B)
         /\ Followed(q, A, B) =>
              Followed(Tail(q), A, B) /\ (Head(q).type \in A => Has(Tail(q), B))
         /\ Alternate(q, A, B) =>
              Alternate(Tail(q), A, B) /\ (Head(q).type \in A => Preceded(Tail(q), A, B))
         /\ Preceded(q, A, B) =>
              Head(q).type \notin A /\ (Head(q).type \notin B => Preceded(Tail(q), A, B))
<1> DEFINE r == Tail(q)
<1>1. /\ 1 \in DOMAIN q /\ Head(q) = q[1]
      /\ \A i \in DOMAIN r : i \in Int /\ 1 < i + 1 /\ i + 1 \in DOMAIN q /\ r[i] = q[i + 1]
      /\ \A i \in DOMAIN q : i \in Int /\ (i = 1 \/ (1 < i /\ i - 1 \in DOMAIN r /\ r[i - 1] = q[i]))
  BY TailPlaces
<1> HIDE DEF r
<1>2. Has(q, B) <=> Head(q).type \in B \/ Has(r, B)
  BY <1>1 DEF Has
<1>3. ASSUME NEW i \in DOMAIN r, NEW j \in DOMAIN q, i + 1 < j
      PROVE  j - 1 \in DOMAIN r /\ i < j - 1 /\ r[j - 1] = q[j]
  BY <1>1, <1>3
<1>4. ASSUME Followed(q, A, B) PROVE Followed(r, A, B) /\ (Head(q).type \in A => Has(r, B))
  <2>1. Head(q).type \in A => Has(r, B)
    BY <1>1, <1>4 DEF Followed, Has
  <2>2. ASSUME NEW i \in DOMAIN r, r[i].type \in A
        PROVE  \E j \in DOMAIN r : i < j /\ r[j].type \in B
    <3>1. PICK j \in DOMAIN q : i + 1 < j /\ q[j].type \in B
      BY <1>1, <1>4, <2>2 DEF Followed
    <3> QED BY <1>3, <3>1
  <2> QED BY <2>1, <2>2 DEF Followed
<1>5. ASSUME Alternate(q, A, B)
      PROVE  Alternate(r, A, B) /\ (Head(q).type \in A => Preceded(r, A, B))
  <2>1. ASSUME NEW i \in DOMAIN r, NEW j \in DOMAIN r, i < j, r[i].type \in A, r[j].type \in A
        PROVE  \E k \in DOMAIN r : i < k /\ k < j /\ r[k].type \in B
    <3>1. i + 1 \in DOMAIN q /\ j + 1 \in DOMAIN q /\ i + 1 < j + 1
          /\ q[i + 1].type \in A /\ q[j + 1].type \in A
      BY <1>1, <2>1
    <3>2. PICK k \in DOMAIN q : i + 1 < k /\ k < j + 1 /\ q[k].type \in B
      BY <1>5, <3>1 DEF Alternate
    <3>3. k - 1 \in DOMAIN r /\ i < k - 1 /\ r[k - 1] = q[k]
      BY <1>3, <3>2
    <3>4. k \in Int /\ j \in Int
      BY <1>1
    <3>5. k - 1 < j
      BY <3>2, <3>4
    <3> QED BY <3>2, <3>3, <3>5
  <2>2. ASSUME Head(q).type \in A, NEW i \in DOMAIN r, r[i].type \in A
        PROVE  \E j \in DOMAIN r : j < i /\ r[j].type \in B
    <3>1. i + 1 \in DOMAIN q /\ 1 < i + 1 /\ q[i + 1].type \in A /\ q[1].type \in A
      BY <1>1, <2>2
    <3>2. PICK j \in DOMAIN q : 1 < j /\ j < i + 1 /\ q[j].type \in B
      BY <1>1, <1>5, <3>1 DEF Alternate
    <3>3. j - 1 \in DOMAIN r /\ j - 1 < i /\ r[j - 1] = q[j]
      BY <1>1, <3>2
    <3> QED BY <3>2, <3>3
  <2> QED BY <2>1, <2>2 DEF Alternate, Preceded
<1>6. ASSUME Preceded(q, A, B)
      PROVE  Head(q).type \notin A /\ (Head(q).type \notin B => Preceded(r, A, B))
  <2>1. Head(q).type \notin A
    BY <1>1, <1>6 DEF Preceded
  <2>2. ASSUME Head(q).type \notin B, NEW i \in DOMAIN r, r[i].type \in A
        PROVE  \E j \in DOMAIN r : j < i /\ r[j].type \in B
    <3>1. PICK j \in DOMAIN q : j < i + 1 /\ q[j].type \in B
      BY <1>1, <1>6, <2>2 DEF Preceded
    <3>2. j - 1 \in DOMAIN r /\ j - 1 < i /\ r[j - 1] = q[j]
      BY <1>1, <2>2, <3>1
    <3> QED BY <3>1, <3>2
  <2> QED BY <2>1, <2>2 DEF Preceded
<1> QED BY <1>2, <1>4, <1>5, <1>6 DEF r

LEMMA PostQueue ==
  ASSUME NEW q \in Seq(MessageSet), NEW e \in MessageSet, NEW A, NEW B
  PROVE  LET r == Append(q, e) IN
         /\ r \in Seq(MessageSet)
         /\ Has(r, B) <=> Has(q, B) \/ e.type \in B
         /\ e.type \notin A /\ (Followed(q, A, B) \/ e.type \in B) => Followed(r, A, B)
         /\ Alternate(q, A, B) /\ (e.type \notin A \/ Followed(q, A, B)) => Alternate(r, A, B)
         /\ Preceded(q, A, B) /\ (e.type \notin A \/ Has(q, B)) => Preceded(r, A, B)
<1> DEFINE r == Append(q, e)
           n == Len(q) + 1
<1>1. /\ r \in Seq(MessageSet) /\ n \in DOMAIN r /\ r[n] = e
      /\ \A i \in DOMAIN q : i \in Int /\ i \in DOMAIN r /\ r[i] = q[i] /\ i < n
      /\ \A i \in DOMAIN r : i \in Int /\ (i = n \/ i \in DOMAIN q)
  BY AppendPlaces
<1> HIDE DEF r, n
<1>2. Has(r, B) <=> Has(q, B) \/ e.type \in B
  BY <1>1 DEF Has
<1>3. e.type \notin A /\ (Followed(q, A, B) \/ e.type \in B) => Followed(r, A, B)
  BY <1>1 DEF Followed
<1>4. Alternate(q, A, B) /\ (e.type \notin A \/ Followed(q, A, B)) => Alternate(r, A, B)
  <2> SUFFICES ASSUME Alternate(q, A, B), e.type \notin A \/ Followed(q, A, B),
                      NEW i \in DOMAIN r, NEW j \in DOMAIN r,
                      i < j, r[i].type \in A, r[j].type \in A
               PROVE  \E k \in DOMAIN r : i < k /\ k < j /\ r[k].type \in B
    BY DEF Alternate
  <2>1. i \in DOMAIN q
    BY <1>1
  <2>2. CASE j \in DOMAIN q
    BY <1>1, <2>1, <2>2 DEF Alternate
  <2>3. CASE j = n
    BY <1>1, <2>1, <2>3 DEF Followed
  <2> QED BY <1>1, <2>2, <2>3
<1>5. Preceded(q, A, B) /\ (e.type \notin A \/ Has(q, B)) => Preceded(r, A, B)
  BY <1>1 DEF Preceded, Has
<1> QED BY <1>1, <1>2, <1>3, <1>4, <1>5 DEF r

\* Only the types of the messages count.
LEMMA SameQueue ==
  ASSUME NEW q, NEW r, DOMAIN r = DOMAIN q, \A i \in DOMAIN q : r[i].type = q[i].type,
         NEW A, NEW B
  PROVE  /\ Has(r, B) <=> Has(q, B)
         /\ Followed(r, A, B) <=> Followed(q, A, B)
         /\ Alternate(r, A, B) <=> Alternate(q, A, B)
         /\ Preceded(r, A, B) <=> Preceded(q, A, B)
BY DEF Has, Followed, Alternate, Preceded

\* The steps, as they are seen from the session.
Quiet ==
  /\ UNCHANGED <<ctl, servers, srvQueue, receivers, leaked, running_dir, inited>>
  /\ timers' \subseteq timers
ReadsOne ==
  /\ srvQueue # <<>> /\ UNCHANGED <<ctl, servers>>
  /\ \/ srvQueue' = Tail(srvQueue)
     \/ \E e \in MessageSet :
          e.type \notin Inits \cup DeInits /\ srvQueue' = Append(Tail(srvQueue), e)
ReadsInit(k) ==
  /\ ReadsOne /\ Head(srvQueue).type \in InitOf(k)
  /\ running_dir' = TRUE /\ inited' = TRUE
  /\ receivers \subseteq receivers' /\ receivers' \subseteq receivers \cup {k}
  /\ k \in servers => k \in receivers'
  /\ UNCHANGED <<timers, leaked>> \/ SetTimer(TimerOf(k))
ReadsDeInit(k) ==
  /\ ReadsOne /\ Head(srvQueue).type \in DeInitOf(k)
  /\ running_dir' = FALSE /\ inited' = FALSE /\ receivers' = receivers \ {k}
  /\ timers' \subseteq timers \ {TimerOf(k)} /\ (k = "SMP" => "hello" \notin timers')
  /\ UNCHANGED leaked
ReadsOther ==
  /\ ReadsOne /\ Head(srvQueue).type \notin Inits \cup DeInits
  /\ UNCHANGED <<receivers, leaked, running_dir, inited>>
  /\ timers' \subseteq timers \cup {"hello"}
  /\ "hello" \in timers' => "hello" \in timers \/ inited

LEMMA TypesApart ==
  /\ \A k \in Servers : /\ InitOf(k) \subseteq Inits /\ DeInitOf(k) \subseteq DeInits
                        /\ TimerOf(k) \in {"sam", "ask"} /\ TimerOf(k) # "hello"
                        /\ InitOf(k) # {} /\ DeInitOf(k) # {}
  /\ \A k, l \in Servers : k # l => /\ InitOf(k) \cap InitOf(l) = {}
                                    /\ DeInitOf(k) \cap DeInitOf(l) = {}
                                    /\ TimerOf(k) # TimerOf(l)
  /\ Inits \cap DeInits = {} /\ Servers = {"SAM", "SMP"}
  /\ \A x \in Inits : \E k \in Servers : x \in InitOf(k)
  /\ \A x \in DeInits : \E k \in Servers : x \in DeInitOf(k)
BY DEF InitOf, DeInitOf, TimerOf, Inits, DeInits, Servers

\* What reading a message does to the order of the types in A and in B.
ReadOf(A, B) ==
  /\ Has(srvQueue, B) <=> Head(srvQueue).type \in B \/ Has(srvQueue', B)
  /\ Followed(srvQueue, A, B) =>
       Followed(srvQueue', A, B) /\ (Head(srvQueue).type \in A => Has(srvQueue', B))
  /\ Alternate(srvQueue, A, B) =>
       Alternate(srvQueue', A, B) /\ (Head(srvQueue).type \in A => Preceded(srvQueue', A, B))
  /\ Preceded(srvQueue, A, B) =>
       /\ Head(srvQueue).type \notin A
       /\ Head(srvQueue).type \notin B => Preceded(srvQueue', A, B)

LEMMA ReadAnyOf ==
  ASSUME TypeInv, ReadsOne, NEW A, NEW B, A \subseteq Inits \cup DeInits,
         B \subseteq Inits \cup DeInits
  PROVE  ReadOf(A, B)
<1> DEFINE q == srvQueue
           r == Tail(srvQueue)
<1>1. q \in Seq(MessageSet) /\ q # <<>> /\ r \in Seq(MessageSet)
  BY DEF TypeInv, ServiceTyped, ReadsOne
<1>2. /\ Has(q, B) <=> Head(q).type \in B \/ Has(r, B)
      /\ Followed(q, A, B) => Followed(r, A, B) /\ (Head(q).type \in A => Has(r, B))
      /\ Alternate(q, A, B) => Alternate(r, A, B) /\ (Head(q).type \in A => Preceded(r, A, B))
      /\ Preceded(q, A, B) =>
           Head(q).type \notin A /\ (Head(q).type \notin B => Preceded(r, A, B))
  BY <1>1, ReadQueue
<1>3. CASE srvQueue' = r
  BY <1>2, <1>3 DEF ReadOf
<1>4. ASSUME NEW e \in MessageSet, e.type \notin Inits \cup DeInits, srvQueue' = Append(r, e)
      PROVE  ReadOf(A, B)
  <2>1. e.type \notin A /\ e.type \notin B
    BY <1>4
  <2>2. /\ Has(srvQueue', B) <=> Has(r, B)
        /\ Followed(r, A, B) => Followed(srvQueue', A, B)
        /\ Alternate(r, A, B) => Alternate(srvQueue', A, B)
        /\ Preceded(r, A, B) => Preceded(srvQueue', A, B)
    BY <1>1, <1>4, <2>1, PostQueue
  <2> HIDE DEF r
  <2> QED BY <1>2, <2>2 DEF ReadOf
<1> QED BY <1>3, <1>4 DEF ReadsOne

LEMMA ReadPairs ==
  ASSUME TypeInv, ReadsOne
  PROVE  /\ \A l \in Servers : ReadOf(InitOf(l), DeInitOf(l)) /\ ReadOf(DeInitOf(l), InitOf(l))
         /\ ReadOf(DeInits, Inits) /\ ReadOf(Inits, DeInitOf("SMP"))
<1>1. "SMP" \in Servers
  BY DEF Servers
<1>2. /\ Inits \subseteq Inits \cup DeInits /\ DeInits \subseteq Inits \cup DeInits
      /\ \A l \in Servers : /\ InitOf(l) \subseteq Inits \cup DeInits
                            /\ DeInitOf(l) \subseteq Inits \cup DeInits
  BY TypesApart
<1>3. ASSUME NEW l \in Servers PROVE ReadOf(InitOf(l), DeInitOf(l)) /\ ReadOf(DeInitOf(l), InitOf(l))
  BY <1>2, ReadAnyOf
<1>4. ReadOf(DeInits, Inits)
  BY <1>2, ReadAnyOf
<1>5. ReadOf(Inits, DeInitOf("SMP"))
  BY <1>1, <1>2, ReadAnyOf
<1> QED BY <1>3, <1>4, <1>5

LEMMA QuietStep ==
  ASSUME SessionInv, Quiet
  PROVE  SessionInv'
<1>1. \A k \in Servers : Once(k)'
  BY DEF SessionInv, Quiet, Once
<1>2. Started' = Started /\ Stopped' = Stopped
  BY DEF Quiet, Started, Stopped
<1>3. \A k \in Started : Begun(k)'
  BY DEF SessionInv, Quiet, Begun
<1>4. \A k \in Stopped : Ended(k)'
  BY DEF SessionInv, Quiet, Ended
<1>5. (On => On') /\ (Off => Off')
  BY DEF Quiet, On, Off
<1> QED BY <1>1, <1>2, <1>3, <1>4, <1>5 DEF SessionInv, Quiet

\* What remains the same of each server when a message is read.
LEMMA ReadStep ==
  ASSUME TypeInv, SessionInv, ReadsOne, leaked' = {},
         \A k \in Servers : Once(k) => Once(k)',
         \A k \in servers : Begun(k) => Begun(k)',
         \A k \in Servers : Ended(k) => Ended(k)',
         On => On', Off => Off'
  PROVE  SessionInv'
<1>1. Started' = Started /\ Stopped' = Stopped /\ UNCHANGED ctl
  BY DEF ReadsOne, Started, Stopped
<1>2. Started \subseteq servers /\ Stopped \subseteq Servers
  BY DEF Started, Stopped, Servers
<1> QED BY <1>1, <1>2 DEF SessionInv

LEMMA InitStep ==
  ASSUME TypeInv, SessionInv, NEW k \in Servers, ReadsInit(k)
  PROVE  SessionInv'
<1> DEFINE t == Head(srvQueue).type
<1>1. /\ ReadsOne /\ "SMP" \in Servers
      /\ t \in InitOf(k) /\ t \notin DeInits /\ t \in Inits
      /\ \A l \in Servers \ {k} : t \notin InitOf(l)
      /\ \A l \in Servers : t \notin DeInitOf(l)
  BY TypesApart DEF ReadsInit, ReadsOne, Servers
<1>2. TimerOf(k) \notin timers \/ UNCHANGED <<timers, leaked>>
  BY <1>1, ReadPairs DEF ReadOf, ReadsInit, SessionInv, Once
<1>3. leaked' = {} /\ timers' \subseteq timers \cup {TimerOf(k)}
  BY <1>2 DEF ReadsInit, SetTimer, SessionInv
<1>4. ASSUME NEW l \in Servers, Once(l) PROVE Once(l)'
  <2>1. Alternate(srvQueue', InitOf(l), DeInitOf(l))
    BY <1>1, <1>4, ReadPairs DEF ReadOf, Once
  <2>2. CASE l = k
    <3>1. Preceded(srvQueue', InitOf(l), DeInitOf(l))
      BY <1>1, <1>4, <2>2, ReadPairs DEF ReadOf, Once
    <3> QED BY <2>1, <3>1 DEF Once
  <2>3. CASE l # k
    <3>1. TimerOf(l) \in timers' => TimerOf(l) \in timers
      BY <1>3, <2>3, TypesApart
    <3>2. Preceded(srvQueue, InitOf(l), DeInitOf(l)) => Preceded(srvQueue', InitOf(l), DeInitOf(l))
      BY <1>1, ReadPairs DEF ReadOf
    <3> QED BY <1>4, <2>1, <3>1, <3>2 DEF Once
  <2> QED BY <2>2, <2>3
<1>5. ASSUME NEW l \in servers, Begun(l) PROVE Begun(l)'
  <2>1. l \in Servers
    BY DEF TypeInv, ControlTyped
  <2>2. Followed(srvQueue', DeInitOf(l), InitOf(l))
    BY <1>1, <1>5, <2>1, ReadPairs DEF ReadOf, Begun
  <2>3. CASE l = k
    BY <2>2, <2>3 DEF Begun, ReadsInit
  <2>4. CASE l # k
    <3>1. Has(srvQueue, InitOf(l)) <=> Has(srvQueue', InitOf(l))
      BY <1>1, <2>1, <2>4, ReadPairs DEF ReadOf
    <3> QED BY <1>5, <2>2, <3>1 DEF Begun, ReadsInit
  <2> QED BY <2>3, <2>4
<1>6. ASSUME NEW l \in Servers, Ended(l) PROVE Ended(l)'
  <2>1. Followed(srvQueue', InitOf(l), DeInitOf(l))
    BY <1>1, <1>6, ReadPairs DEF ReadOf, Ended
  <2>2. CASE l = k
    <3>1. Has(srvQueue', DeInitOf(l))
      BY <1>1, <1>6, <2>2, ReadPairs DEF ReadOf, Ended
    <3> QED BY <2>1, <3>1 DEF Ended
  <2>3. CASE l # k
    <3>1. Has(srvQueue, DeInitOf(l)) <=> Has(srvQueue', DeInitOf(l))
      BY <1>1, ReadPairs DEF ReadOf
    <3>2. (l \in receivers' => l \in receivers) /\ (TimerOf(l) \in timers' => TimerOf(l) \in timers)
      BY <1>3, <2>3, TypesApart DEF ReadsInit
    <3> QED BY <1>6, <2>1, <3>1, <3>2 DEF Ended
  <2> QED BY <2>2, <2>3
<1>7. On => On'
  <2>1. Followed(srvQueue, DeInits, Inits) => Followed(srvQueue', DeInits, Inits)
    BY <1>1, ReadPairs DEF ReadOf
  <2> QED BY <2>1 DEF On, ReadsInit
<1>8. Off => Off'
  <2>1. Followed(srvQueue, Inits, DeInitOf("SMP"))
        => Followed(srvQueue', Inits, DeInitOf("SMP")) /\ Has(srvQueue', DeInitOf("SMP"))
    BY <1>1, ReadPairs DEF ReadOf
  <2> QED BY <2>1 DEF Off
<1> QED BY <1>1, <1>3, <1>4, <1>5, <1>6, <1>7, <1>8, ReadStep

LEMMA DeInitStep ==
  ASSUME TypeInv, SessionInv, NEW k \in Servers, ReadsDeInit(k)
  PROVE  SessionInv'
<1> DEFINE t == Head(srvQueue).type
<1>1. /\ ReadsOne /\ "SMP" \in Servers
      /\ t \in DeInitOf(k) /\ t \notin Inits /\ t \in DeInits
      /\ \A l \in Servers \ {k} : t \notin DeInitOf(l)
      /\ \A l \in Servers : t \notin InitOf(l)
  BY TypesApart DEF ReadsDeInit, ReadsOne, Servers
<1>2. leaked' = {} /\ timers' \subseteq timers \ {TimerOf(k)} /\ receivers' = receivers \ {k}
  BY DEF ReadsDeInit, SessionInv
<1>3. ASSUME NEW l \in Servers, Once(l) PROVE Once(l)'
  <2>1. Alternate(srvQueue', InitOf(l), DeInitOf(l))
    BY <1>1, <1>3, ReadPairs DEF ReadOf, Once
  <2>2. CASE l = k
    BY <1>2, <2>1, <2>2 DEF Once
  <2>3. CASE l # k
    <3>1. Preceded(srvQueue, InitOf(l), DeInitOf(l)) => Preceded(srvQueue', InitOf(l), DeInitOf(l))
      BY <1>1, <2>3, ReadPairs DEF ReadOf
    <3> QED BY <1>2, <1>3, <2>1, <3>1 DEF Once
  <2> QED BY <2>2, <2>3
<1>4. ASSUME NEW l \in servers, Begun(l) PROVE Begun(l)'
  <2>1. l \in Servers
    BY DEF TypeInv, ControlTyped
  <2>2. Followed(srvQueue', DeInitOf(l), InitOf(l))
        /\ (t \in DeInitOf(l) => Has(srvQueue', InitOf(l)))
    BY <1>1, <1>4, <2>1, ReadPairs DEF ReadOf, Begun
  <2>3. Has(srvQueue, InitOf(l)) <=> Has(srvQueue', InitOf(l))
    BY <1>1, <2>1, ReadPairs DEF ReadOf
  <2> QED BY <1>1, <1>2, <1>4, <2>1, <2>2, <2>3 DEF Begun
<1>5. ASSUME NEW l \in Servers, Ended(l) PROVE Ended(l)'
  <2>1. Followed(srvQueue', InitOf(l), DeInitOf(l))
    BY <1>1, <1>5, ReadPairs DEF ReadOf, Ended
  <2>2. CASE l = k
    BY <1>2, <2>1, <2>2 DEF Ended
  <2>3. CASE l # k
    <3>1. Has(srvQueue, DeInitOf(l)) <=> Has(srvQueue', DeInitOf(l))
      BY <1>1, <2>3, ReadPairs DEF ReadOf
    <3> QED BY <1>2, <1>5, <2>1, <3>1 DEF Ended
  <2> QED BY <2>2, <2>3
<1>6. On => On'
  <2>1. Followed(srvQueue, DeInits, Inits)
        => Followed(srvQueue', DeInits, Inits) /\ Has(srvQueue', Inits)
    BY <1>1, ReadPairs DEF ReadOf
  <2> QED BY <2>1 DEF On
<1>7. Off => Off'
  <2>1. Followed(srvQueue, Inits, DeInitOf("SMP")) => Followed(srvQueue', Inits, DeInitOf("SMP"))
    BY <1>1, ReadPairs DEF ReadOf
  <2>2. CASE k = "SMP"
    BY <2>1, <2>2 DEF Off, ReadsDeInit
  <2>3. CASE k # "SMP"
    <3>1. Has(srvQueue, DeInitOf("SMP")) <=> Has(srvQueue', DeInitOf("SMP"))
      BY <1>1, <2>3, ReadPairs, TypesApart DEF ReadOf
    <3> QED BY <1>2, <2>1, <3>1 DEF Off, ReadsDeInit
  <2> QED BY <2>2, <2>3
<1> QED BY <1>1, <1>2, <1>3, <1>4, <1>5, <1>6, <1>7, ReadStep

LEMMA OtherStep ==
  ASSUME TypeInv, SessionInv, ReadsOther
  PROVE  SessionInv'
<1>1. /\ ReadsOne /\ "SMP" \in Servers
      /\ Head(srvQueue).type \notin Inits /\ Head(srvQueue).type \notin DeInits
      /\ \A l \in Servers : /\ Head(srvQueue).type \notin InitOf(l)
                            /\ Head(srvQueue).type \notin DeInitOf(l)
  BY TypesApart DEF ReadsOther, ReadsOne, Servers
<1>2. /\ UNCHANGED <<receivers, leaked, running_dir, inited>>
      /\ \A l \in Servers : TimerOf(l) \in timers' => TimerOf(l) \in timers
  BY TypesApart DEF ReadsOther
<1>3. /\ \A l \in Servers : /\ Has(srvQueue, InitOf(l)) <=> Has(srvQueue', InitOf(l))
                            /\ Has(srvQueue, DeInitOf(l)) <=> Has(srvQueue', DeInitOf(l))
      /\ Has(srvQueue, Inits) <=> Has(srvQueue', Inits)
  BY <1>1, ReadPairs DEF ReadOf
<1>4. ASSUME NEW l \in Servers, Once(l) PROVE Once(l)'
  BY <1>1, <1>2, <1>4, ReadPairs DEF ReadOf, Once
<1>5. ASSUME NEW l \in servers, Begun(l) PROVE Begun(l)'
  BY <1>1, <1>2, <1>3, <1>5, ReadPairs, TypesApart DEF ReadOf, Begun, TypeInv, ControlTyped
<1>6. ASSUME NEW l \in Servers, Ended(l) PROVE Ended(l)'
  BY <1>1, <1>2, <1>3, <1>6, ReadPairs, TypesApart DEF ReadOf, Ended
<1>7. On => On'
  BY <1>1, <1>2, <1>3, ReadPairs DEF ReadOf, On
<1>8. Off => Off'
  <2>1. Followed(srvQueue, Inits, DeInitOf("SMP")) => Followed(srvQueue', Inits, DeInitOf("SMP"))
    BY <1>1, ReadPairs DEF ReadOf
  <2>2. Has(srvQueue, DeInitOf("SMP")) <=> Has(srvQueue', DeInitOf("SMP"))
    BY <1>1, <1>3 DEF Servers
  <2> QED BY <1>2, <2>1, <2>2 DEF Off, ReadsOther
<1> QED BY <1>1, <1>2, <1>4, <1>5, <1>6, <1>7, <1>8, ReadStep DEF SessionInv

LEMMA PostStep ==
  ASSUME TypeInv, SessionInv, NEW type, NEW handle, Message(type, handle) \in MessageSet,
         Post(type, handle), type \notin Inits \cup DeInits,
         UNCHANGED <<ctl, servers, receivers, timers, leaked, running_dir, inited>>
  PROVE  SessionInv'
<1> DEFINE e == Message(type, handle)
<1>1. /\ srvQueue \in Seq(MessageSet) /\ srvQueue' = Append(srvQueue, e)
      /\ e \in MessageSet /\ e.type = type
  BY DEF TypeInv, ServiceTyped, Post, Message
<1> HIDE DEF e
<1>2. /\ e.type \notin Inits /\ e.type \notin DeInits
      /\ \A l \in Servers : e.type \notin InitOf(l) /\ e.type \notin DeInitOf(l)
  BY <1>1, TypesApart
<1>3. ASSUME NEW B, e.type \notin B PROVE Has(srvQueue, B) <=> Has(srvQueue', B)
  BY <1>1, <1>3, PostQueue
<1>4. ASSUME NEW A, NEW B, e.type \notin A
      PROVE  /\ Followed(srvQueue, A, B) => Followed(srvQueue', A, B)
             /\ Alternate(srvQueue, A, B) => Alternate(srvQueue', A, B)
             /\ Preceded(srvQueue, A, B) => Preceded(srvQueue', A, B)
  BY <1>1, <1>4, PostQueue
<1>5. Started' = Started /\ Stopped' = Stopped
  BY DEF Started, Stopped
<1>6. Started \subseteq Servers /\ Stopped \subseteq Servers
  BY DEF Started, Stopped, Servers, TypeInv, ControlTyped
<1>7. \A l \in Servers : Once(l) => Once(l)'
  BY <1>2, <1>4 DEF Once
<1>8. \A l \in Servers : Begun(l) => Begun(l)'
  BY <1>2, <1>3, <1>4 DEF Begun
<1>9. \A l \in Servers : Ended(l) => Ended(l)'
  BY <1>2, <1>3, <1>4 DEF Ended
<1>10. (On => On') /\ (Off => Off')
  <2>1. "SMP" \in Servers
    BY DEF Servers
  <2> QED BY <1>2, <1>3, <1>4, <2>1 DEF On, Off
<1> QED BY <1>5, <1>6, <1>7, <1>8, <1>9, <1>10 DEF SessionInv

\* A DeInit, which is the last message then.
LEMMA StopStep ==
  ASSUME TypeInv, SessionInv, KillDirectSrv \/ DeInitSmp
  PROVE  SessionInv'
<1>1. PICK k \in Servers :
        /\ \/ k = "SAM" /\ ctl' = "sam"
           \/ k = "SMP" /\ ctl = "next" /\ ctl' = "smp"
        /\ \E type : type \in DeInitOf(k) /\ Post(type, "own")
        /\ UNCHANGED <<servers, receivers, timers, leaked>>
  BY DEF KillDirectSrv, DeInitSmp, DeInit, Ctl, SrvUnchanged, timerVars, DeInitOf, Servers
<1>2. PICK type : type \in DeInitOf(k) /\ Post(type, "own")
  BY <1>1
<1> DEFINE e == Message(type, "own")
<1>3. /\ srvQueue \in Seq(MessageSet) /\ srvQueue' = Append(srvQueue, e)
      /\ e \in MessageSet /\ e.type \in DeInitOf(k)
  <2>1. srvQueue \in Seq(MessageSet) /\ srvQueue' = Append(srvQueue, e) /\ e.type = type
    BY <1>2 DEF TypeInv, ServiceTyped, Post, Message
  <2>2. e \in MessageSet
    BY <1>2 DEF DeInitOf, Message, MessageSet
  <2> QED BY <1>2, <2>1, <2>2
<1> HIDE DEF e
<1>4. /\ e.type \notin Inits /\ \A l \in Servers : e.type \notin InitOf(l)
      /\ \A l \in Servers \ {k} : e.type \notin DeInitOf(l)
  BY <1>3, TypesApart
<1>5. \A l \in Servers : Once(l)'
  BY <1>1, <1>3, <1>4, PostQueue DEF SessionInv, Once
<1>6. Ended(k)'
  BY <1>3, <1>4, PostQueue DEF Ended
<1>7. CASE k = "SAM"
  <2>1. Started' = {} /\ Stopped' = {"SAM"}
    BY <1>1, <1>7 DEF Started, Stopped
  <2> QED BY <1>1, <1>5, <1>6, <1>7, <2>1 DEF SessionInv
<1>8. CASE k = "SMP"
  <2>1. ctl' = "smp" /\ Started' = {} /\ Stopped' = {"SAM", "SMP"} /\ "SAM" \in Stopped
    BY <1>1, <1>8 DEF Started, Stopped, Servers
  <2>2. Ended("SAM")'
    <3>1. Ended("SAM") /\ "SAM" \in Servers /\ "SAM" # k
      BY <1>8, <2>1 DEF SessionInv, Servers
    <3>2. Has(srvQueue', DeInitOf("SAM")) <=> Has(srvQueue, DeInitOf("SAM"))
      BY <1>3, <1>4, <3>1, PostQueue
    <3>3. Followed(srvQueue', InitOf("SAM"), DeInitOf("SAM"))
      BY <1>3, <1>4, <3>1, PostQueue DEF Ended
    <3> QED BY <1>1, <3>1, <3>2, <3>3 DEF Ended
  <2>3. Off'
    BY <1>3, <1>4, <1>8, PostQueue DEF Off
  <2> QED BY <1>1, <1>5, <1>6, <1>8, <2>1, <2>2, <2>3 DEF SessionInv
<1> QED BY <1>1, <1>7, <1>8

\* Only the handles of the messages change.
LEMMA DisownedKeeps ==
  ASSUME TypeInv, NEW h, NEW A, NEW B
  PROVE  LET r == Disowned(h) IN
         /\ Has(r, B) <=> Has(srvQueue, B)
         /\ Followed(r, A, B) <=> Followed(srvQueue, A, B)
         /\ Alternate(r, A, B) <=> Alternate(srvQueue, A, B)
         /\ Preceded(r, A, B) <=> Preceded(srvQueue, A, B)
<1> DEFINE r == Disowned(h)
<1>1. ASSUME NEW m \in MessageSet PROVE [m EXCEPT !.handle = h].type = m.type
  BY DEF MessageSet
<1>2. DOMAIN r = DOMAIN srvQueue
  BY DEF Disowned
<1>3. ASSUME NEW i \in DOMAIN srvQueue PROVE r[i].type = srvQueue[i].type
  <2>1. srvQueue[i] \in MessageSet
    BY DEF TypeInv, ServiceTyped
  <2>2. r[i] = srvQueue[i] \/ r[i] = [srvQueue[i] EXCEPT !.handle = h]
    BY DEF Disowned
  <2>3. [srvQueue[i] EXCEPT !.handle = h].type = srvQueue[i].type
    BY <1>1, <2>1
  <2> QED BY <2>2, <2>3
<1> HIDE DEF r
<1>4. /\ Has(r, B) <=> Has(srvQueue, B)
      /\ Followed(r, A, B) <=> Followed(srvQueue, A, B)
      /\ Alternate(r, A, B) <=> Alternate(srvQueue, A, B)
      /\ Preceded(r, A, B) <=> Preceded(srvQueue, A, B)
  BY <1>2, <1>3, SameQueue
<1> QED BY <1>4 DEF r

\* What the control thread ends itself when nobody else does.
LEMMA GivenUpStep ==
  ASSUME TypeInv, SessionInv, DeInitSamReturns \/ DeInitSmpReturns, ctl' # "hung"
  PROVE  SessionInv'
<1>1. PICK server \in Servers :
        /\ \/ server = "SAM" /\ ctl = "sam" /\ ctl' = "next"
           \/ server = "SMP" /\ ctl = "smp" /\ ctl' = "idle"
        /\ UNCHANGED leaked
        /\ UNCHANGED srvQueue \/ \E h : srvQueue' = Disowned(h)
        /\ UNCHANGED <<inited, receivers, timers, running_dir>>
           \/ (~KillHangs(TimersOf(server)) /\ Ends("ctl", server))
  <2>1. ASSUME NEW server, NEW from, NEW to, DeInitReturns(server, from, to)
        PROVE  /\ ctl = from /\ ctl' = to /\ UNCHANGED leaked
               /\ UNCHANGED srvQueue \/ \E h : srvQueue' = Disowned(h)
               /\ UNCHANGED <<inited, receivers, timers, running_dir>>
                  \/ (~KillHangs(TimersOf(server)) /\ Ends("ctl", server))
    <3>1. PICK r \in WaitResults(waitHandle, SettingHandle) :
         LET hangs == r = "ETIMEDOUT" /\ EndHangs(server) IN
           /\ ctl' = IF hangs THEN "hung" ELSE to
           /\ srvQueue' = IF waitHandle THEN srvQueue
                          ELSE Disowned(IF r # "EBUSY" /\ Repaired("DeInitHandle") THEN "none"
                                        ELSE "stale")
           /\ IF r # "ETIMEDOUT"
              THEN UNCHANGED <<inited, receivers, timers, running_dir>>
              ELSE IF hangs THEN EndsHanging("ctl", server) ELSE Ends("ctl", server)
      BY <2>1 DEF DeInitReturns
    <3>2. ~(r = "ETIMEDOUT" /\ EndHangs(server))
      BY <3>1
    <3> QED BY <2>1, <3>1, <3>2 DEF DeInitReturns, EndHangs
  <2> QED BY <2>1 DEF DeInitSamReturns, DeInitSmpReturns, Servers
<1>3. receivers' \subseteq receivers /\ timers' \subseteq timers
  BY <1>1 DEF Ends, KillTimers
<1>4. ASSUME NEW A, NEW B
      PROVE  /\ Has(srvQueue', B) <=> Has(srvQueue, B)
             /\ Followed(srvQueue', A, B) <=> Followed(srvQueue, A, B)
             /\ Alternate(srvQueue', A, B) <=> Alternate(srvQueue, A, B)
             /\ Preceded(srvQueue', A, B) <=> Preceded(srvQueue, A, B)
  BY <1>1, DisownedKeeps
<1>5. \A l \in Servers : Once(l) => Once(l)'
  BY <1>3, <1>4 DEF Once
<1>6. \A l \in Servers : Ended(l) => Ended(l)'
  BY <1>3, <1>4 DEF Ended
<1>7. Started' = {} /\ Stopped' = Stopped /\ Stopped \subseteq Servers
      /\ ctl' \notin {"init", "session"} /\ leaked' = leaked
  BY <1>1 DEF Started, Stopped, Servers
<1>8. ctl' = "idle" => Off'
  <2> SUFFICES ASSUME ctl' = "idle" PROVE Off'
    OBVIOUS
  <2>1. Off /\ server = "SMP"
    BY <1>1 DEF SessionInv
  <2>2. /\ Followed(srvQueue', Inits, DeInitOf("SMP")) <=> Followed(srvQueue, Inits, DeInitOf("SMP"))
        /\ Has(srvQueue', DeInitOf("SMP")) <=> Has(srvQueue, DeInitOf("SMP"))
    BY <1>4
  <2>3. CASE UNCHANGED <<inited, receivers, timers, running_dir>>
    BY <2>1, <2>2, <2>3 DEF Off
  <2>4. CASE ~KillHangs(TimersOf(server)) /\ Ends("ctl", server)
    <3>a. timers' = timers \ TimersOf(server) /\ "hello" \in TimersOf(server)
      BY <2>1, <2>4 DEF Ends, KillTimers, TimersOf
    <3>1. running_dir' = FALSE /\ inited' = FALSE /\ "hello" \notin timers'
      BY <2>4, <3>a DEF Ends, StopRunAndHandshake
    <3> QED BY <2>1, <2>2, <3>1 DEF Off
  <2> QED BY <1>1, <2>1, <2>3, <2>4
<1> QED BY <1>1, <1>5, <1>6, <1>7, <1>8 DEF SessionInv

LEMMA NextInitStep ==
  ASSUME SessionRepairs, TypeInv, SessionInv, InitReturns
  PROVE  SessionInv'
<1> DEFINE q == IF waitHandle THEN srvQueue ELSE Disowned("stale")
           e == Message("INIT_SMP", "none")
<1>1. /\ ctl = "init" /\ ctl' = "session"
      /\ srvQueue' = q \o (IF servers # Servers THEN <<>> ELSE <<e>>)
      /\ UNCHANGED <<servers, inited, running_dir, receivers, timers, leaked>>
  BY DEF InitReturns, Ctl, SrvUnchanged, timerVars, SessionRepairs, Repaired
<1>a. q \in Seq(MessageSet)
  <2>1. srvQueue \in Seq(MessageSet) /\ "stale" \in {"none", "stale"}
    BY DEF TypeInv, ServiceTyped
  <2> QED BY <2>1, DisownedTyped
<1>b. ASSUME NEW A, NEW B
      PROVE  /\ Has(q, B) <=> Has(srvQueue, B)
             /\ Followed(q, A, B) <=> Followed(srvQueue, A, B)
             /\ Alternate(q, A, B) <=> Alternate(srvQueue, A, B)
             /\ Preceded(q, A, B) <=> Preceded(srvQueue, A, B)
  BY DisownedKeeps
<1> HIDE DEF q
<1>2. servers \subseteq {"SAM", "SMP"} /\ Servers = {"SAM", "SMP"}
  BY DEF TypeInv, ControlTyped, Servers
<1>3. Started' = servers /\ Stopped' = Servers \ servers
  BY <1>1 DEF Started, Stopped
<1>4. CASE servers # Servers
  <2>1. Started = servers /\ Stopped = Servers \ servers
    BY <1>1, <1>2, <1>4 DEF Started, Stopped
  <2>2. srvQueue' = q
    BY <1>1, <1>4, <1>a
  <2>3. /\ \A l \in Servers : Once(l) => Once(l)'
        /\ \A l \in Servers : Begun(l) => Begun(l)'
        /\ \A l \in Servers : Ended(l) => Ended(l)'
        /\ On => On'
    BY <1>1, <1>b, <2>2 DEF Once, Begun, Ended, On
  <2> QED BY <1>1, <1>2, <1>3, <2>1, <2>3 DEF SessionInv
<1>5. CASE servers = Servers
  <2>1. srvQueue' = Append(q, e) /\ e \in MessageSet /\ e.type = "INIT_SMP"
    <3>1. srvQueue' = q \o <<e>>
      BY <1>1, <1>5
    <3> QED BY <1>a, <3>1 DEF Message, MessageSet
  <2> HIDE DEF e
  <2>2. /\ e.type \in InitOf("SMP") /\ e.type \notin InitOf("SAM") /\ e.type \in Inits
        /\ e.type \notin DeInits /\ e.type \notin DeInitOf("SAM") /\ e.type \notin DeInitOf("SMP")
    BY <2>1 DEF InitOf, DeInitOf, Inits, DeInits
  <2>3. Started = {"SAM"} /\ Stopped = {"SMP"}
    BY <1>1, <1>2, <1>5 DEF Started, Stopped
  <2>4. Begun("SAM") /\ Ended("SMP") /\ Once("SAM") /\ Once("SMP") /\ leaked = {}
    BY <1>2, <2>3 DEF SessionInv
  <2>a. /\ Followed(q, DeInitOf("SAM"), InitOf("SAM"))
        /\ Followed(q, InitOf("SMP"), DeInitOf("SMP"))
        /\ ~Has(q, DeInitOf("SMP")) => "SMP" \notin receivers /\ TimerOf("SMP") \notin timers
        /\ ~Has(q, InitOf("SAM")) => "SAM" \in receivers
        /\ Alternate(q, InitOf("SAM"), DeInitOf("SAM"))
        /\ Alternate(q, InitOf("SMP"), DeInitOf("SMP"))
        /\ TimerOf("SAM") \in timers => Preceded(q, InitOf("SAM"), DeInitOf("SAM"))
        /\ TimerOf("SMP") \in timers => Preceded(q, InitOf("SMP"), DeInitOf("SMP"))
    BY <1>b, <2>4 DEF Begun, Ended, Once
  <2>5. Once("SAM")'
    <3>1. Alternate(srvQueue', InitOf("SAM"), DeInitOf("SAM"))
      BY <1>a, <2>1, <2>2, <2>a, PostQueue
    <3>2. TimerOf("SAM") \in timers =>
            Preceded(srvQueue', InitOf("SAM"), DeInitOf("SAM"))
      BY <1>a, <2>1, <2>2, <2>a, PostQueue
    <3> QED BY <1>1, <3>1, <3>2 DEF Once
  <2>6. Once("SMP")'
    <3>1. Alternate(srvQueue', InitOf("SMP"), DeInitOf("SMP"))
      BY <1>a, <2>1, <2>2, <2>a, PostQueue
    <3>2. TimerOf("SMP") \in timers =>
            Preceded(srvQueue', InitOf("SMP"), DeInitOf("SMP"))
      BY <1>a, <2>1, <2>2, <2>a, PostQueue
    <3> QED BY <1>1, <3>1, <3>2 DEF Once
  <2>7. Begun("SAM")'
    <3>1. Followed(srvQueue', DeInitOf("SAM"), InitOf("SAM"))
      BY <1>a, <2>1, <2>2, <2>a, PostQueue
    <3>2. Has(srvQueue', InitOf("SAM")) <=> Has(q, InitOf("SAM"))
      BY <1>a, <2>1, <2>2, PostQueue
    <3> QED BY <1>1, <2>a, <3>1, <3>2 DEF Begun
  <2>8. Begun("SMP")'
    BY <1>a, <2>1, <2>2, PostQueue DEF Begun
  <2>9. On'
    BY <1>a, <2>1, <2>2, PostQueue DEF On
  <2> QED BY <1>1, <1>2, <1>3, <1>5, <2>4, <2>5, <2>6, <2>7, <2>8, <2>9 DEF SessionInv
<1> QED BY <1>4, <1>5

\* A start posts one message or two, each for a server that is ended.
LEMMA StartStep ==
  ASSUME SessionRepairs, TypeInv, SessionInv, StartDirectTrans
  PROVE  SessionInv'
<1>1. PICK ss \in Sessions, wait \in BOOLEAN :
        /\ ctl = "idle" /\ ctl' = IF wait THEN "init" ELSE "session"
        /\ servers' = ss
        /\ srvQueue' =
             Append(srvQueue, Message(IF "SAM" \in ss THEN "INIT_SAM" ELSE "INIT_SMP",
                                      IF wait THEN "own" ELSE "none"))
             \o (IF ss = Servers /\ ~wait THEN <<Message("INIT_SMP", "none")>> ELSE <<>>)
        /\ UNCHANGED <<inited, running_dir, receivers, timers, leaked>>
  BY DEF StartDirectTrans, Ctl, SrvUnchanged, timerVars, SessionRepairs, Repaired
<1>2. ss \subseteq {"SAM", "SMP"} /\ ss # {} /\ Servers = {"SAM", "SMP"}
  BY ConstantsAssumption DEF Servers
<1>3. /\ \A l \in Servers : Once(l) /\ Ended(l)
      /\ leaked = {} /\ srvQueue \in Seq(MessageSet)
  BY <1>1 DEF SessionInv, Stopped, TypeInv, ServiceTyped
<1> DEFINE a == IF "SAM" \in ss THEN "SAM" ELSE "SMP"
           e == Message(IF "SAM" \in ss THEN "INIT_SAM" ELSE "INIT_SMP",
                        IF wait THEN "own" ELSE "none")
           r == Append(srvQueue, e)
<1>4. /\ a \in Servers /\ e \in MessageSet /\ r \in Seq(MessageSet)
      /\ e.type \in InitOf(a) /\ e.type \in Inits /\ e.type \notin DeInits
      /\ \A l \in Servers : e.type \notin DeInitOf(l)
      /\ \A l \in Servers \ {a} : e.type \notin InitOf(l)
  <2>1. /\ a \in Servers /\ e \in MessageSet /\ e.type \in InitOf(a)
    BY <1>2 DEF Message, MessageSet, InitOf
  <2> HIDE DEF a, e
  <2>2. r \in Seq(MessageSet)
    BY <1>3, <2>1, PostQueue
  <2> QED BY <2>1, <2>2, TypesApart
<1> HIDE DEF e
\* The first message.
<1>5. \A l \in Servers : /\ Alternate(r, InitOf(l), DeInitOf(l))
                         /\ TimerOf(l) \in timers => Preceded(r, InitOf(l), DeInitOf(l))
  BY <1>3, <1>4, PostQueue DEF Once, Ended
<1>6. \A l \in Servers \ {a} :
        /\ Followed(r, InitOf(l), DeInitOf(l))
        /\ ~Has(r, DeInitOf(l)) => l \notin receivers /\ TimerOf(l) \notin timers
  BY <1>3, <1>4, PostQueue DEF Ended
<1>7. Followed(r, DeInitOf(a), InitOf(a)) /\ Has(r, InitOf(a))
  BY <1>3, <1>4, PostQueue
<1>8. Followed(r, DeInits, Inits) /\ Has(r, Inits)
  BY <1>3, <1>4, PostQueue
<1> HIDE DEF r
<1>9. CASE ~(ss = Servers /\ ~wait)
  <2>1. srvQueue' = r
    <3>1. srvQueue' = r \o <<>>
      BY <1>1, <1>9 DEF r, e
    <3> QED BY <1>4, <3>1
  <2>2. Started' = {a} /\ Stopped' = Servers \ {a}
    BY <1>1, <1>2, <1>9 DEF Started, Stopped
  <2>3. \A l \in Servers : Once(l)'
    BY <1>1, <1>5, <2>1 DEF Once
  <2>4. Begun(a)' /\ On'
    BY <1>7, <1>8, <2>1 DEF Begun, On
  <2>5. \A l \in Servers \ {a} : Ended(l)'
    BY <1>1, <1>6, <2>1 DEF Ended
  <2> QED BY <1>1, <1>3, <2>2, <2>3, <2>4, <2>5 DEF SessionInv
<1>10. CASE ss = Servers /\ ~wait
  <2> DEFINE d == Message("INIT_SMP", "none")
  <2>1. srvQueue' = Append(r, d)
    <3>1. srvQueue' = r \o <<d>>
      BY <1>1, <1>10 DEF r, e
    <3> QED BY <1>4, <3>1
  <2>2. /\ d \in MessageSet /\ d.type \in InitOf("SMP") /\ d.type \notin InitOf("SAM")
        /\ d.type \in Inits /\ d.type \notin DeInits
        /\ d.type \notin DeInitOf("SAM") /\ d.type \notin DeInitOf("SMP")
    BY DEF Message, MessageSet, InitOf, DeInitOf, Inits, DeInits
  <2> HIDE DEF d
  <2>3. a = "SAM" /\ Started' = {"SAM", "SMP"} /\ Stopped' = {} /\ ctl' = "session"
    BY <1>1, <1>2, <1>10 DEF Started, Stopped
  <2>4. Once("SAM")'
    <3>1. /\ Alternate(r, InitOf("SAM"), DeInitOf("SAM"))
          /\ TimerOf("SAM") \in timers => Preceded(r, InitOf("SAM"), DeInitOf("SAM"))
      BY <1>2, <1>5
    <3>2. Alternate(srvQueue', InitOf("SAM"), DeInitOf("SAM"))
      BY <1>4, <2>1, <2>2, <3>1, PostQueue
    <3>3. TimerOf("SAM") \in timers => Preceded(srvQueue', InitOf("SAM"), DeInitOf("SAM"))
      BY <1>4, <2>1, <2>2, <3>1, PostQueue
    <3> QED BY <1>1, <3>2, <3>3 DEF Once
  <2>5. Once("SMP")'
    <3>1. /\ Alternate(r, InitOf("SMP"), DeInitOf("SMP"))
          /\ Followed(r, InitOf("SMP"), DeInitOf("SMP"))
          /\ TimerOf("SMP") \in timers =>
               /\ Preceded(r, InitOf("SMP"), DeInitOf("SMP"))
               /\ Has(r, DeInitOf("SMP"))
      BY <1>2, <1>5, <1>6, <2>3
    <3>2. Alternate(srvQueue', InitOf("SMP"), DeInitOf("SMP"))
      BY <1>4, <2>1, <2>2, <3>1, PostQueue
    <3>3. TimerOf("SMP") \in timers => Preceded(srvQueue', InitOf("SMP"), DeInitOf("SMP"))
      BY <1>4, <2>1, <2>2, <3>1, PostQueue
    <3> QED BY <1>1, <3>2, <3>3 DEF Once
  <2>6. Begun("SAM")'
    BY <1>4, <1>7, <2>1, <2>2, <2>3, PostQueue DEF Begun
  <2>7. Begun("SMP")' /\ On'
    BY <1>4, <2>1, <2>2, PostQueue DEF Begun, On
  <2> QED BY <1>1, <1>2, <1>3, <2>3, <2>4, <2>5, <2>6, <2>7 DEF SessionInv
<1> QED BY <1>9, <1>10

\* What a sending and its end leave alone of the service thread, if it does not hang.
LEMMA SendingQuiet ==
  ASSUME NEW c, Calls(c), srv' # "hung"
  PROVE  Quiet
<1>1. ASSUME NEW ok, CallEnds(c, ok) PROVE UNCHANGED leaked /\ timers' \subseteq timers
  BY <1>1 DEF CallEnds, KillsAndReads, KillTimers
<1>2. CASE SendPacket(c)
  <2>1. UNCHANGED timerVars \/ \E ok : CallEnds(c, ok)
    BY <1>2 DEF SendPacket
  <2> QED BY <1>1, <1>2, <2>1 DEF SendPacket, timerVars, Quiet
<1>3. CASE Returned(c)
  <2>1. \E ok : CallEnds(c, ok)
    BY <1>3 DEF Returned
  <2> QED BY <1>1, <1>3, <2>1 DEF Returned, Quiet
<1> QED BY <1>2, <1>3 DEF Calls

LEMMA ReadsEither ==
  ASSUME NEW type, Reads(type), NEW t \in {"HELLO_SAM", "HELLO_SMP"},
         srvQueue' = Tail(srvQueue) \/ (TypeInv /\ ReadsAndPosts(t))
  PROVE  ReadsOne
<1>1. srvQueue # <<>> /\ UNCHANGED <<ctl, servers>>
  BY DEF Reads
<1>2. CASE srvQueue' = Tail(srvQueue)
  BY <1>1, <1>2 DEF ReadsOne
<1>3. CASE TypeInv /\ ReadsAndPosts(t)
  <2> DEFINE e == Message(t, "none")
  <2>1. Tail(srvQueue) \in Seq(MessageSet)
    BY <1>1, <1>3 DEF TypeInv, ServiceTyped
  <2>2. e \in MessageSet /\ e.type \notin Inits \cup DeInits
    BY DEF Message, MessageSet, Inits, DeInits
  <2>3. srvQueue' = Tail(srvQueue) \o <<>> \/ srvQueue' = Tail(srvQueue) \o <<e>>
    BY <1>3 DEF ReadsAndPosts
  <2> HIDE DEF e
  <2>4. srvQueue' = Tail(srvQueue) \/ srvQueue' = Append(Tail(srvQueue), e)
    BY <2>1, <2>2, <2>3
  <2> QED BY <1>1, <2>2, <2>4 DEF ReadsOne
<1> QED BY <1>2, <1>3

LEMMA HandlerStep ==
  ASSUME SessionRepairs, TypeInv, Service, srv' # "hung"
  PROVE  Quiet \/ (\E k \in Servers : ReadsInit(k) \/ ReadsDeInit(k)) \/ ReadsOther
<1>1. "SAM" \in Servers /\ "SMP" \in Servers
  BY DEF Servers
<1>2. CASE OnInit_SAM
  <2>1. Reads("INIT_SAM") /\ ReadsOne
    BY <1>2, ReadsEither DEF OnInit_SAM
  <2>2. ReadsInit("SAM")
    BY <1>2, <2>1 DEF OnInit_SAM, Reads, ReadsInit, InitOf, TimerOf, timerVars
  <2> QED BY <1>1, <2>2
<1>3. CASE OnInit_SMP
  <2>1. ReadsInit("SMP")
    BY <1>3 DEF OnInit_SMP, Reads, ReadsInit, ReadsOne, InitOf, TimerOf, timerVars
  <2> QED BY <1>1, <2>1
<1>4. ASSUME NEW k \in Servers, OnDeInit(k) PROVE ReadsDeInit(k)
  <2>1. ~EndHangs(k) /\ Ends("srv", k) /\ srvQueue' = Tail(srvQueue) /\ UNCHANGED leaked
        /\ Reads(IF k = "SAM" THEN "DEINIT_SAM" ELSE "DEINIT_SMP")
    BY <1>4 DEF OnDeInit
  <2>2. timers' = timers \ TimersOf(k) /\ TimersOf(k) = IF k = "SAM" THEN {"sam"} ELSE {"hello", "ask"}
    BY <2>1 DEF EndHangs, Ends, KillTimers, TimersOf, SessionRepairs, Repaired
  <2>3. timers' \subseteq timers \ {TimerOf(k)} /\ (k = "SMP" => "hello" \notin timers')
    BY <2>2 DEF TimerOf, Servers
  <2> QED BY <2>1, <2>3 DEF Reads, Ends, StopRunAndHandshake, ReadsDeInit, ReadsOne, DeInitOf,
        Servers
<1>5. CASE HandshakeToSAM \/ HandshakeToSMP
  BY <1>5 DEF HandshakeToSAM, HandshakeToSMP, Handshake, Reads, timerVars, Handshakes,
    GSNSender, ReadsOther, ReadsOne, Inits, DeInits
<1>6. CASE OnAskTimer
  <2>1. timers' \subseteq timers
    BY <1>6 DEF OnAskTimer, KillsAndReads, KillTimers
  <2> QED BY <1>6, <2>1 DEF OnAskTimer, Reads, ReadsOther, ReadsOne, Inits, DeInits
<1>7. CASE ParseSMPData
  <2>1. Reads("DATA") /\ ReadsOne
    BY <1>7, ReadsEither DEF ParseSMPData
  <2>2. UNCHANGED <<receivers, running_dir, inited, leaked>>
    BY <1>7 DEF ParseSMPData, timerVars, SessionRepairs, Repaired
  <2>3. /\ timers' \subseteq timers \cup {"hello"}
        /\ "hello" \in timers' => "hello" \in timers \/ inited
    BY <1>7 DEF ParseSMPData, timerVars, KillsAndReads, KillTimers, SessionRepairs, Repaired
  <2> QED BY <2>1, <2>2, <2>3 DEF Reads, ReadsOther, Inits, DeInits
<1> QED BY <1>1, <1>2, <1>3, <1>4, <1>5, <1>6, <1>7, SendingQuiet DEF Service

LEMMA HungStays ==
  ASSUME TypeInv, Hung, [Next]_vars
  PROVE  Hung'
<1>1. ASSUME srv = "hung", NEW type, Reads(type) PROVE FALSE
  BY <1>1 DEF Reads
<1>2. ASSUME srv = "hung", Calls("srv") PROVE FALSE
  <2>1. call["srv"] = NoCall
    BY <1>2 DEF TypeInv, CallsTyped
  <2>2. call["srv"].at = "none"
    BY <2>1 DEF NoCall
  <2> QED BY <1>2, <2>2 DEF Calls, SendPacket, Returned
<1>3. ASSUME srv = "hung", Service PROVE FALSE
  BY <1>1, <1>2, <1>3 DEF Service, OnInit_SAM, OnInit_SMP, OnDeInit, HandshakeToSAM,
    HandshakeToSMP, Handshake, OnAskTimer, ParseSMPData
<1>4. Calls("ctl") => UNCHANGED <<ctl, srv>>
  BY DEF Calls, SendPacket, Returned, CallEnds
<1>5. ASSUME NEW server, NEW from \in {"sam", "smp", "session", "next"}, NEW to,
             DeInit(server, from, to) \/ DeInitReturns(server, from, to)
      PROVE  ctl # "hung" /\ UNCHANGED srv
  BY <1>5 DEF DeInit, DeInitReturns, Ctl, SrvUnchanged
<1>6. Service => UNCHANGED ctl
  BY DEF Service, OnInit_SAM, OnInit_SMP, OnDeInit, HandshakeToSAM, HandshakeToSMP, Handshake,
    OnAskTimer, ParseSMPData, Reads, Calls, SendPacket, Returned
<1>7. Transmitter => UNCHANGED <<ctl, srv>>
  BY DEF Transmitter, TransPacket, TakeUnit, DoSendPacket, UnitDone, ctlVars, srvVars
<1>8. InitReturns \/ StartDirectTrans => ctl # "hung" /\ UNCHANGED srv
  BY DEF InitReturns, StartDirectTrans, Ctl, SrvUnchanged
<1>9. SendTo \/ TimerFires \/ DataFromSmp => UNCHANGED <<ctl, srv>>
  BY DEF SendTo, TimerFires, DataFromSmp, Arrives, Ctl, ctlVars, srvVars
<1>10. UNCHANGED vars => UNCHANGED <<ctl, srv>>
  BY DEF vars, ctlVars, srvVars
<1> QED BY <1>3, <1>4, <1>5, <1>6, <1>7, <1>8, <1>9, <1>10
    DEF Hung, Next, Control, Outside, KillDirectSrv, DeInitSmp, DeInitSamReturns, DeInitSmpReturns

LEMMA SessionStep ==
  ASSUME SessionRepairs, TypeInv, SessionInv, [Next]_vars, ~Hung'
  PROVE  SessionInv'
<1>a. srv' # "hung" /\ ctl' # "hung"
  BY DEF Hung
<1>1. CASE UNCHANGED vars
  <2>1. Quiet
    BY <1>1 DEF vars, ctlVars, srvVars, timerVars, Quiet
  <2> QED BY <2>1, QuietStep
<1>2. CASE Transmitter
  <2>1. TransPacket \/ TakeUnit \/ DoSendPacket => Quiet
    BY DEF TransPacket, TakeUnit, DoSendPacket, ctlVars, srvVars, timerVars, Quiet
  <2>2. UnitDone => Quiet
    <3> SUFFICES ASSUME UnitDone PROVE Quiet
      OBVIOUS
    <3>1. receivers' = receivers
      BY DEF UnitDone, SessionRepairs, Repaired
    <3> QED BY <3>1 DEF UnitDone, ctlVars, timerVars, Quiet
  <2> QED BY <1>2, <2>1, <2>2, QuietStep DEF Transmitter
<1>3. CASE Service
  BY <1>3, <1>a, HandlerStep, QuietStep, InitStep, DeInitStep, OtherStep
<1>4. CASE Calls("ctl") \/ SendTo
  <2>1. Quiet
    BY <1>4, <1>a, SendingQuiet DEF SendTo, Ctl, srvVars, timerVars, Quiet
  <2> QED BY <2>1, QuietStep
<1>5. CASE InitReturns \/ StartDirectTrans
  BY <1>5, NextInitStep, StartStep
<1>6. CASE KillDirectSrv \/ DeInitSmp
  BY <1>6, StopStep
<1>7. CASE DeInitSamReturns \/ DeInitSmpReturns
  BY <1>7, <1>a, GivenUpStep
<1>8. CASE TimerFires \/ DataFromSmp
  <2>1. PICK type \in {"HELLO_SAM", "HELLO_SMP", "ASK", "DATA"} : Arrives(type)
    BY <1>8 DEF TimerFires, DataFromSmp
  <2>2. /\ Message(type, "none") \in MessageSet /\ Post(type, "none")
        /\ type \notin Inits \cup DeInits
        /\ UNCHANGED <<ctl, servers, receivers, timers, leaked, running_dir, inited>>
    BY <2>1 DEF Arrives, Message, MessageSet, Inits, DeInits, ctlVars, timerVars
  <2> QED BY <2>2, PostStep
<1> QED BY <1>1, <1>2, <1>3, <1>4, <1>5, <1>6, <1>7, <1>8 DEF Next, Control, Outside

LEMMA SessionFirst ==
  ASSUME Init
  PROVE  SessionInv
<1>1. Started = {} /\ Stopped = Servers /\ ctl = "idle" /\ leaked = {} /\ DOMAIN srvQueue = {}
  BY DEF Init, Started, Stopped
<1>2. \A k \in Servers : Once(k) /\ Ended(k)
  BY <1>1 DEF Init, Once, Ended, Alternate, Followed, Preceded
<1>3. Off
  BY <1>1 DEF Init, Off, Followed
<1> QED BY <1>1, <1>2, <1>3 DEF SessionInv

\* Once the service thread has read all that the control thread told it, a session has the
\* receivers of its servers, and after its end there is neither a receiver nor a timer,
\* however the handlers, the timers and the time-outs of the two threads interleave: what
\* a DeInit that nobody waits for any more ends is not what a later start began.
THEOREM SessionStaysCurrent ==
  ASSUME SessionRepairs
  PROVE  Spec => []SessionIsCurrent
<1>1. TypeInv /\ (Hung \/ SessionInv) => SessionIsCurrent
  <2>a. Hung => SessionIsCurrent
    BY DEF Hung, SessionIsCurrent
  <2> SUFFICES ASSUME TypeInv, SessionInv, srvQueue = <<>>
               PROVE  /\ ctl = "session" => running_dir /\ inited /\ receivers = servers
                      /\ ctl = "idle" => /\ ~running_dir /\ ~inited /\ receivers = {}
                                         /\ timers \cup leaked = {}
    BY <2>a DEF SessionIsCurrent
  <2>1. \A B : ~Has(srvQueue, B)
    BY DEF Has
  <2>2. receivers \subseteq Servers /\ timers \subseteq {"sam", "hello", "ask"}
        /\ servers \subseteq Servers
    BY DEF TypeInv, ServiceTyped, TimersTyped, ControlTyped, Timers
  <2>3. ASSUME ctl = "session" PROVE running_dir /\ inited /\ receivers = servers
    <3>1. /\ On /\ \A k \in servers : Begun(k)
          /\ \A k \in Servers \ servers : Ended(k)
      BY <2>3 DEF SessionInv, Started, Stopped
    <3> QED BY <2>1, <2>2, <3>1 DEF On, Begun, Ended
  <2>4. ASSUME ctl = "idle"
        PROVE  ~running_dir /\ ~inited /\ receivers = {} /\ timers \cup leaked = {}
    <3>1. Off /\ leaked = {} /\ \A k \in Servers : Ended(k)
      BY <2>4 DEF SessionInv, Stopped
    <3>2. \A k \in Servers : k \notin receivers /\ TimerOf(k) \notin timers
      BY <2>1, <3>1 DEF Ended
    <3>3. "sam" \notin timers /\ "ask" \notin timers
      BY <3>2 DEF TimerOf, Servers
    <3> QED BY <2>1, <2>2, <3>1, <3>2, <3>3 DEF Off
  <2> QED BY <2>3, <2>4
<1>2. Init => Hung \/ SessionInv
  BY SessionFirst
<1>3. TypeInv /\ (Hung \/ SessionInv) /\ [Next]_vars => (Hung \/ SessionInv)'
  BY SessionStep, HungStays
<1> QED BY <1>1, <1>2, <1>3, TypeInvIsInvariant, PTL DEF Spec

=============================================================================
