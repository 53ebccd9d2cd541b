-------------------------- MODULE MCNodeConditions --------------------------
(* Instances of NodeConditions for TLC. *)
EXTENDS NodeConditions

(* A condition a monitor emits and a built-in, whose type a custom         *)
(* condition of the configuration also has.                                *)
OwnedTypes == {"DNSDown"}
ForeignTypes == {"Ready"}
=============================================================================
