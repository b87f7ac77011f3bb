--------------------------- MODULE MCStateMachine ---------------------------
(* Instances of StateMachine for TLC. *)
EXTENDS StateMachine

\* What the switch and its server do in an authentication, and the start.
MCDialogue == {"start", "identity", "md5", "success", "failure"}

MCEverything == Packets \cup Orders

\* The code as it is.
MCAsIs == {}

=============================================================================
