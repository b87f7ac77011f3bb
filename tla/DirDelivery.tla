---------------------------- MODULE DirDelivery ----------------------------
(***************************************************************************)
(* What posting a message to SAM or SMP promises: the peer's program gets  *)
(* it at most once, and the sender counts it as sent only if it was.       *)
(***************************************************************************)
CONSTANT Messages

VARIABLES
  arrived,   \* the messages the peer's program has been given
  result     \* what the sender made of each: "none", "ok", "failed"

vars == <<arrived, result>>

Init ==
  /\ arrived = {}
  /\ result = [m \in Messages |-> "none"]

\* Also after the sender has given the message up.
Arrive(m) ==
  /\ m \notin arrived /\ result[m] # "ok"
  /\ arrived' = arrived \cup {m}
  /\ UNCHANGED result

Succeed(m) ==
  /\ result[m] = "none" /\ m \in arrived
  /\ result' = [result EXCEPT ![m] = "ok"]
  /\ UNCHANGED arrived

Fail(m) ==
  /\ result[m] = "none"
  /\ result' = [result EXCEPT ![m] = "failed"]
  /\ UNCHANGED arrived

Next == \E m \in Messages : Arrive(m) \/ Succeed(m) \/ Fail(m)

Spec == Init /\ [][Next]_vars

=============================================================================
