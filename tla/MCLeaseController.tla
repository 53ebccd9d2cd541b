------------------------- MODULE MCLeaseController -------------------------
(* Instances of LeaseController for TLC. *)
EXTENDS LeaseController, TLC

Symmetry == Permutations(Nodes)
=============================================================================
