----------------------------- MODULE ThreadLife -----------------------------
(***************************************************************************)
(* What CLnxThread promises the code that owns a thread object: an object  *)
(* is deleted once, and never while the thread it belongs to still uses it.*)
(* LnxThread is shown to implement this.                                   *)
(***************************************************************************)

VARIABLES
  thread,   \* "none", "running" (it may still touch the object), "ended"
  object    \* "none", "live", "deleted"

lifeVars == <<thread, object>>

Init == thread = "none" /\ object = "none"

\* CreateThread starts the thread of a new object.
Create ==
  /\ object = "none" /\ thread = "none"
  /\ object' = "live"
  /\ thread' = "running"

\* The thread leaves LnxEndThread, or is cancelled.
End ==
  /\ thread = "running"
  /\ thread' = "ended"
  /\ UNCHANGED object

\* SafeExitThread deletes the object, TerminateThread first where it must.
Delete ==
  /\ object = "live" /\ thread = "ended"
  /\ object' = "deleted"
  /\ UNCHANGED thread

Next == Create \/ End \/ Delete

Spec == Init /\ [][Next]_lifeVars

=============================================================================
