-------------------------- MODULE MCRxPacketThread --------------------------
(* Instances of RxPacketThread for TLC. *)
EXTENDS RxPacketThread

MCFailures == Failures
=============================================================================
