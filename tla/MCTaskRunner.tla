----------------------------- MODULE MCTaskRunner -----------------------------
(* Instances of TaskRunner for TLC.  Runs are interchangeable, and so are  *)
(* callers; the liveness runs take no symmetry.                            *)
EXTENDS TaskRunner, TLC

Symmetry == Permutations(Run) \cup Permutations(Caller)
=============================================================================
