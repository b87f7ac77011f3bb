---------------------------- MODULE MCDirSlices ----------------------------
(* Instances of DirSlices for TLC. *)
EXTENDS DirSlices

\* One message of each kind: a single slice, and all three kinds of slices.
MCSlices == <<3, 1, 2>>

\* The wait of DoSendPacket as it is while the listener sets the event, all else repaired.
MCTryLockAsItIs == Defects \ {"TryLock"}
=============================================================================
