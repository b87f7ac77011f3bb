---------------------------- MODULE MCLnxThread ----------------------------
(* Instances of LnxThread for TLC. *)
EXTENDS LnxThread

\* The code as it is.
MCAsIs == {}

\* What may fail when a thread begins.
MCFailures == {"msgget", "InitInstance"}

=============================================================================
