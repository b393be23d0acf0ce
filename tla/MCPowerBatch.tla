----------------------------- MODULE MCPowerBatch -----------------------------
(* Instances of PowerBatch for TLC: the desktops of one account.  Ids of   *)
(* batches are interchangeable; the run with liveness takes no symmetry.   *)
EXTENDS PowerBatch, TLC

SharedOwner == [t \in Target |-> CHOOSE a \in Account : TRUE]
JobSymmetry == Permutations(Job)
=============================================================================
