------------------------------ MODULE MCUpdate ------------------------------
(* An instance of Update for TLC: version 3 needs the launcher of version 2.*)
EXTENDS Update

SomeNeeds == [v \in Version |-> IF v = 3 THEN 2 ELSE 1]
=============================================================================
