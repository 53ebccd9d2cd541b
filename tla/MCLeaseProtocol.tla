-------------------------- MODULE MCLeaseProtocol --------------------------
(* Instances of LeaseProtocol for TLC. *)
EXTENDS LeaseProtocol
=============================================================================
