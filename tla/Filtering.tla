----------------------------- MODULE Filtering -----------------------------
(***************************************************************************)
(* The loops of the code that keep the entries of a slice that pass a      *)
(* test, in their order: checkRateLimit of pkg/remediators/registry.go     *)
(* (its entries are in the order of time, so those within the window are   *)
(* the end of the slice it cuts off) and topologicalSortMonitors of        *)
(* pkg/detector/detector.go (monitors without dependencies).  The test is  *)
(* given by the set of what passes.                                        *)
(***************************************************************************)
EXTENDS Integers, Sequences, FiniteSets

(* kept[i] is the copy after i entries were looked at. *)
Keep(s, T) ==
    LET kept[i \in 0 .. Len(s)] ==
            IF i = 0 THEN <<>>
            ELSE IF s[i] \in T THEN Append(kept[i - 1], s[i]) ELSE kept[i - 1]
    IN  kept[Len(s)]

(* How many entries are in U. *)
HowMany(s, U) == Cardinality({i \in DOMAIN s : s[i] \in U})
=============================================================================
