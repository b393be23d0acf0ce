------------------------------ MODULE MCRedeem ------------------------------
(* Instances of Redeem for TLC.                                            *)
EXTENDS Redeem, TLC

Symmetry == Permutations(Starter) \cup Permutations(Target)
=============================================================================
