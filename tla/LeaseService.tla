---------------------------- MODULE LeaseService ----------------------------
(***************************************************************************)
(* What the controller promises the cluster about remediation leases:      *)
(* which nodes may remediate now.  A node joins only while there is room   *)
(* and it is not among them; holders leave, several at once when their     *)
(* time is up together.  There is no database, no map and no restart here. *)
(***************************************************************************)
EXTENDS Naturals, FiniteSets

CONSTANTS Nodes, MaxConcurrent

VARIABLE holding   \* the nodes that hold a lease

Init == holding = {}

Grant(n) ==
    /\ n \notin holding
    /\ Cardinality(holding) < MaxConcurrent
    /\ holding' = holding \cup {n}

End(ns) == ns # {} /\ holding' = holding \ ns

Next ==
    \/ \E n \in Nodes : Grant(n)
    \/ \E ns \in SUBSET holding : End(ns)

Spec == Init /\ [][Next]_holding
=============================================================================
