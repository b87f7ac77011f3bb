----------------------------- MODULE MCDirTran -----------------------------
(* Instances of DirTran for TLC. *)
EXTENDS DirTran

MCSessions == {{"SAM"}, {"SMP"}, {"SAM", "SMP"}}
=============================================================================
