----------------------- MODULE LeaseController_proofs -----------------------
(* Proofs about the controller's lease table, for every number of nodes,   *)
(* every limit, cooldown and set of lease durations, and every bound.      *)
EXTENDS LeaseController, FiniteSetTheorems, SequenceTheorems, TLAPS

(* Lease IDs are finite in number, so the sets that requestLease counts    *)
(* have a cardinality.                                                     *)
LEMMA FiniteLeaseSets ==
    ASSUME TypeOK
    PROVE  /\ IsFiniteSet(LeaseIds)
           /\ IsFiniteSet(Holders) /\ Cardinality(Holders) \in Nat
           /\ IsFiniteSet(ActiveLeases) /\ Cardinality(ActiveLeases) \in Nat
<1>1. Len(issued) \in Nat
  BY LenProperties DEF TypeOK
<1>2. IsFiniteSet(LeaseIds)
  BY <1>1, FS_Interval DEF LeaseIds
<1>3. Holders \in SUBSET LeaseIds /\ ActiveLeases \in SUBSET LeaseIds
  BY DEF Holders, ActiveLeases, TypeOK
<1> QED
  BY <1>2, <1>3, FS_Subset, FS_CardinalityType

(* The types are preserved by every action. *)
LEMMA TypeStep ==
    ASSUME TypeOK, [Next]_vars
    PROVE  TypeOK'
<1> USE LeaseAssumption DEF TypeOK, LeaseIds, Lease, Row, Issued, Statuses, Never
<1>0. Len(issued) \in Nat /\ \A i \in 1 .. Len(issued) : issued[i] \in Issued
  BY LenProperties, ElementOfSeq
<1>1. CASE Tick
  BY <1>1 DEF Tick
<1>2. ASSUME NEW n \in Nodes, NEW d \in LeaseDurations, GrantLease(n, d)
      PROVE  TypeOK'
  <2> DEFINE e == [node |-> n, expiresAt |-> now + d, releasedAt |-> Never]
             r == [node |-> n, expiresAt |-> now + d, status |-> "active"]
             w == [node |-> n, expiresAt |-> now + d, status |-> "active", completedAt |-> Never]
             id == Len(issued) + 1
  <2>1. now + d \in Nat /\ e \in Issued /\ r \in Lease /\ w \in Row
    OBVIOUS
  <2>2. issued' \in Seq(Issued) /\ Len(issued') = id
    BY <1>2, <2>1, AppendProperties DEF GrantLease
  <2>3. leases' = With(leases, id, r) /\ db' \in {db, With(db, id, w)}
    BY <1>2 DEF GrantLease
  <2>4. /\ DOMAIN leases' \subseteq 1 .. id
        /\ \A i \in DOMAIN leases' : leases'[i] \in Lease
    <3> HIDE DEF e, r, w, Lease, Row, Issued
    <3> QED BY <1>0, <2>1, <2>3 DEF With
  <2>5. /\ DOMAIN db' \subseteq 1 .. id
        /\ \A i \in DOMAIN db' : db'[i] \in Row
    <3> HIDE DEF e, r, w, Lease, Row, Issued
    <3> QED BY SMTT(30), <1>0, <2>1, <2>3 DEF With
  <2>6. UNCHANGED <<now, phase, releasing>>
    BY <1>2 DEF GrantLease
  <2> QED
    BY <1>0, <2>2, <2>4, <2>5, <2>6
<1>3. ASSUME NEW n \in Nodes, DenyLease(n)
      PROVE  TypeOK'
  BY <1>3 DEF DenyLease, vars
<1>4. ASSUME NEW id \in LeaseIds, ReleaseLease(id)
      PROVE  TypeOK'
  <2> DEFINE e == [issued[id] EXCEPT !.releasedAt = IF @ = Never THEN now ELSE @]
  <2>1. e \in Issued
    BY <1>0
  <2>2. issued' = [issued EXCEPT ![id] = e]
    BY <1>4 DEF ReleaseLease
  <2>3. issued' \in Seq(Issued) /\ Len(issued') = Len(issued)
    <3> HIDE DEF e
    <3> QED BY <2>1, <2>2, ExceptSeq
  <2>4. /\ DOMAIN leases' = DOMAIN leases
        /\ \A i \in DOMAIN leases' : leases'[i] \in Lease
    BY ZenonT(30), <1>4 DEF ReleaseLease
  <2> QED
    BY <1>4, <2>3, <2>4 DEF ReleaseLease
<1>5. ASSUME NEW ids, NEW st \in Statuses
      PROVE  /\ DOMAIN UpdateLeaseStatus(ids, st) = DOMAIN db
             /\ \A i \in DOMAIN db : UpdateLeaseStatus(ids, st)[i] \in Row
  <2>1. DOMAIN UpdateLeaseStatus(ids, st) = DOMAIN db
    BY DEF UpdateLeaseStatus
  <2>2. ASSUME NEW i \in DOMAIN db
        PROVE  UpdateLeaseStatus(ids, st)[i] \in Row
    <3>1. db[i] \in Row
      OBVIOUS
    <3>2. UpdateLeaseStatus(ids, st)[i] \in
            {db[i], [db[i] EXCEPT !.status = st, !.completedAt = now]}
      BY DEF UpdateLeaseStatus
    <3> QED
      BY <3>1, <3>2
  <2> QED
    BY <2>1, <2>2
<1>6. ASSUME NEW id \in LeaseIds, PersistRelease(id)
      PROVE  TypeOK'
  BY <1>5, <1>6 DEF PersistRelease
<1>7. CASE CleanupExpiredLeases
  <2>1. PICK ids : db' = UpdateLeaseStatus(ids, "expired")
    BY <1>7 DEF CleanupExpiredLeases
  <2>2. /\ DOMAIN leases' = DOMAIN leases
        /\ \A i \in DOMAIN leases' : leases'[i] \in Lease
    BY <1>7 DEF CleanupExpiredLeases
  <2> QED
    BY <1>5, <1>7, <2>1, <2>2 DEF CleanupExpiredLeases
<1>8. CASE ExpireLeases
  BY <1>5, <1>8 DEF ExpireLeases
<1>9. CASE Stop
  BY <1>9 DEF Stop
<1>10. CASE Exit
  BY <1>10 DEF Exit
<1>11. CASE Start
  BY <1>11 DEF Start, GetActiveLeases
<1>12. CASE UNCHANGED vars
  BY <1>12 DEF vars
<1> QED
  BY <1>1, <1>2, <1>3, <1>4, <1>6, <1>7, <1>8, <1>9, <1>10, <1>11, <1>12 DEF Next

(* Type correctness of the lease table under every storage fault. *)
THEOREM TypeCorrect == Spec => []TypeOK
<1>1. Init => TypeOK
  BY LeaseAssumption, EmptySeq DEF Init, TypeOK, LeaseIds
<1>2. TypeOK /\ [Next]_vars => TypeOK'
  BY TypeStep
<1> QED
  BY <1>1, <1>2, PTL DEF Spec

----------------------------------------------------------------------------
(* A step that adds no holder keeps the two bounds. *)
LEMMA FewerHolders ==
    ASSUME HoldersKnown, TypeOK',
           \A i \in Holders' : i \in Holders /\ issued'[i].node = issued[i].node
    PROVE  ConcurrencyBound' /\ OneLeasePerNode'
<1>1. Holders' \in SUBSET Holders
  OBVIOUS
<1>2. IsFiniteSet(Holders) /\ Cardinality(Holders) \in Nat
  BY FiniteLeaseSets DEF HoldersKnown
<1>3. Cardinality(Holders') <= Cardinality(Holders) /\ Cardinality(Holders') \in Nat
  BY <1>1, <1>2, FS_Subset, FS_CardinalityType
<1>4. ConcurrencyBound'
  BY <1>2, <1>3, LeaseAssumption DEF HoldersKnown, ConcurrencyBound
<1>5. OneLeasePerNode'
  BY DEF HoldersKnown, OneLeasePerNode
<1> QED
  BY <1>4, <1>5

(* What the map holds for a holder, field by field. *)
LEMMA HeldLease ==
    ASSUME HeldInMemory, phase # "down", NEW i \in Holders
    PROVE  /\ i \in DOMAIN leases
           /\ leases[i].node = issued[i].node
           /\ leases[i].expiresAt = issued[i].expiresAt
           /\ leases[i].status = "active"
           /\ i \in LeaseIds /\ now < issued[i].expiresAt
<1>1. /\ i \in DOMAIN leases
      /\ leases[i] = [node |-> issued[i].node, expiresAt |-> issued[i].expiresAt,
                      status |-> "active"]
  BY DEF HeldInMemory
<1>2. i \in LeaseIds /\ now < issued[i].expiresAt
  BY DEF Holders, Held
<1> QED
  BY <1>1, <1>2

(* requestLease counts every holder before it grants, so the new lease     *)
(* keeps the limit and is its node's only one.                             *)
LEMMA GrantKeepsHoldersKnown ==
    ASSUME HoldersKnown, TypeOK', ReliableStorage,
           NEW n \in Nodes, NEW d \in LeaseDurations, GrantLease(n, d)
    PROVE  HoldersKnown'
<1> DEFINE id == Len(issued) + 1
           e == [node |-> n, expiresAt |-> now + d, releasedAt |-> Never]
           r == [node |-> n, expiresAt |-> now + d, status |-> "active"]
           w == [node |-> n, expiresAt |-> now + d, status |-> "active", completedAt |-> Never]
<1>1. TypeOK /\ HeldInMemory /\ HeldInDb /\ ConcurrencyBound /\ OneLeasePerNode
      /\ ReleasingIsReleased
  BY DEF HoldersKnown
<1>2. Len(issued) \in Nat /\ e \in Issued
  BY LenProperties, LeaseAssumption DEF TypeOK, HoldersKnown, Issued
<1>3. /\ issued' = Append(issued, e)
      /\ leases' = With(leases, id, r)
      /\ db' = With(db, id, w)
      /\ now' = now /\ phase' = phase /\ phase = "up" /\ releasing' = releasing
  BY DEF GrantLease, Outcome, ReliableStorage
<1>4. /\ Len(issued') = id
      /\ \A i \in LeaseIds : issued'[i] = issued[i]
      /\ issued'[id] = e
  <2> HIDE DEF e
  <2> QED BY <1>1, <1>2, <1>3, AppendProperties DEF TypeOK, LeaseIds
<1>5. \A i \in Holders' : i = id \/ i \in Holders
  BY <1>2, <1>3, <1>4 DEF Holders, Held, LeaseIds
<1>6. /\ id \notin LeaseIds /\ DOMAIN leases \subseteq LeaseIds
      /\ DOMAIN db \subseteq LeaseIds /\ Holders \subseteq LeaseIds
  BY <1>1, <1>2 DEF TypeOK, LeaseIds, Holders
<1>7. Holders \subseteq ActiveLeases
  BY <1>1, <1>3, HeldLease DEF ActiveLeases
<1>8. Cardinality(ActiveLeases) < MaxConcurrent
      /\ \A i \in ActiveLeases : leases[i].node # n
  BY <1>1, FiniteLeaseSets, LeaseAssumption DEF GrantLease, LeaseDecision
<1>9. ConcurrencyBound'
  <2>1. Cardinality(Holders) <= Cardinality(ActiveLeases)
    BY <1>1, <1>7, FiniteLeaseSets, FS_Subset
  <2>2. IsFiniteSet(Holders \cup {id}) /\ Cardinality(Holders \cup {id}) <= Cardinality(Holders) + 1
    <3>1. IsFiniteSet(Holders) /\ Cardinality(Holders) \in Nat
      BY <1>1, FiniteLeaseSets
    <3> HIDE DEF id
    <3>2. /\ IsFiniteSet(Holders \cup {id})
          /\ Cardinality(Holders \cup {id}) =
               IF id \in Holders THEN Cardinality(Holders) ELSE Cardinality(Holders) + 1
      BY <3>1, FS_AddElement, Zenon
    <3> QED BY <3>1, <3>2
  <2>3. Cardinality(Holders') <= Cardinality(Holders \cup {id})
    BY <1>5, <2>2, FS_Subset
  <2>4. Cardinality(Holders') \in Nat /\ Cardinality(Holders \cup {id}) \in Nat
        /\ Cardinality(ActiveLeases) \in Nat /\ Cardinality(Holders) \in Nat
    <3>1. Holders' \in SUBSET (Holders \cup {id})
      BY <1>5
    <3> QED BY <1>1, <3>1, <2>2, FiniteLeaseSets, FS_Subset, FS_CardinalityType
  <2> HIDE DEF id
  <2> QED
    BY <1>8, <2>1, <2>2, <2>3, <2>4, LeaseAssumption DEF ConcurrencyBound
<1>10. OneLeasePerNode'
  <2>1. \A i \in Holders : issued[i].node # n /\ issued'[i].node = issued[i].node
    BY <1>1, <1>3, <1>4, <1>7, <1>8, HeldLease
  <2>2. issued'[id].node = n
    BY <1>4
  <2> HIDE DEF id, e
  <2> QED
    BY <1>1, <1>5, <2>1, <2>2 DEF OneLeasePerNode
<1>11. HeldInMemory'
  <2>1. ASSUME NEW i \in Holders
        PROVE  /\ i \in DOMAIN leases'
               /\ leases'[i] = [node |-> issued'[i].node, expiresAt |-> issued'[i].expiresAt,
                                status |-> "active"]
    BY <1>1, <1>3, <1>4, <1>6 DEF HeldInMemory, With
  <2>2. /\ id \in DOMAIN leases'
        /\ leases'[id] = [node |-> issued'[id].node, expiresAt |-> issued'[id].expiresAt,
                          status |-> "active"]
    BY <1>3, <1>4 DEF With
  <2> HIDE DEF id, e, r, w
  <2> QED
    BY <1>5, <2>1, <2>2 DEF HeldInMemory
<1>12. HeldInDb'
  <2>1. ASSUME NEW i \in Holders
        PROVE  /\ i \in DOMAIN db'
               /\ db'[i].status = "active"
               /\ db'[i].node = issued'[i].node
               /\ db'[i].expiresAt = issued'[i].expiresAt
    BY <1>1, <1>3, <1>4, <1>6 DEF HeldInDb, With
  <2>2. /\ id \in DOMAIN db'
        /\ db'[id].status = "active"
        /\ db'[id].node = issued'[id].node
        /\ db'[id].expiresAt = issued'[id].expiresAt
    BY <1>3, <1>4 DEF With
  <2> HIDE DEF id, e, r, w
  <2> QED
    BY <1>5, <2>1, <2>2 DEF HeldInDb
<1>13. ReleasingIsReleased'
  BY <1>1, <1>3, <1>4 DEF ReleasingIsReleased, TypeOK
<1> QED
  BY <1>9, <1>10, <1>11, <1>12, <1>13 DEF HoldersKnown

(* A status update in the database leaves the rows of other leases alone.  *)
LEMMA UpdateLeaseStatusOthers ==
    ASSUME NEW ids, NEW st
    PROVE  /\ DOMAIN UpdateLeaseStatus(ids, st) = DOMAIN db
           /\ \A i \in DOMAIN db \ ids : UpdateLeaseStatus(ids, st)[i] = db[i]
  BY DEF UpdateLeaseStatus

(* Every step keeps the map and the database aware of all holders. *)
LEMMA HoldersKnownStep ==
    ASSUME HoldersKnown, TypeOK', ReliableStorage, [Next]_vars
    PROVE  HoldersKnown'
<1>1. TypeOK /\ HeldInMemory /\ HeldInDb /\ ReleasingIsReleased
  BY DEF HoldersKnown
<1>2. Len(issued) \in Nat /\ now \in Nat /\ \A i \in LeaseIds : issued[i] \in Issued
  BY <1>1, LenProperties, ElementOfSeq DEF TypeOK, LeaseIds
<1>3. ASSUME issued' = issued, now' \in {now, now + 1}
      PROVE  /\ \A i \in Holders' : i \in Holders /\ issued'[i].node = issued[i].node
             /\ ConcurrencyBound' /\ OneLeasePerNode'
  <2>1. \A i \in Holders' : i \in Holders /\ issued'[i].node = issued[i].node
    BY <1>2, <1>3 DEF Holders, Held, LeaseIds, Issued
  <2> QED
    BY <2>1, FewerHolders
<1>4. CASE Tick
  BY <1>1, <1>3, <1>4 DEF Tick, HoldersKnown, HeldInMemory, HeldInDb, ReleasingIsReleased
<1>5. ASSUME NEW n \in Nodes, NEW d \in LeaseDurations, GrantLease(n, d)
      PROVE  HoldersKnown'
  BY <1>5, GrantKeepsHoldersKnown
<1>6. CASE UNCHANGED vars
  BY <1>1, <1>3, <1>6 DEF vars, HoldersKnown, HeldInMemory, HeldInDb, ReleasingIsReleased
<1>7. ASSUME NEW n \in Nodes, DenyLease(n)
      PROVE  HoldersKnown'
  BY <1>6, <1>7 DEF DenyLease
<1>8. ASSUME NEW id \in LeaseIds, ReleaseLease(id)
      PROVE  HoldersKnown'
  <2> DEFINE e == [issued[id] EXCEPT !.releasedAt = IF @ = Never THEN now ELSE @]
  <2>1. issued' = [issued EXCEPT ![id] = e] /\ e \in Issued
    BY <1>2, <1>8 DEF ReleaseLease, Issued
  <2>2. /\ Len(issued') = Len(issued)
        /\ issued'[id] = e
        /\ \A i \in LeaseIds : i # id => issued'[i] = issued[i]
    <3> HIDE DEF e
    <3> QED BY <1>1, <2>1, ExceptSeq DEF TypeOK, LeaseIds
  <2>3. e.releasedAt # Never
    BY <1>2 DEF Issued, Never
  <2>4. \A i \in Holders' : i # id /\ i \in Holders /\ issued'[i] = issued[i]
    <3> HIDE DEF e
    <3> QED BY <1>8, <2>2, <2>3 DEF Holders, Held, LeaseIds, ReleaseLease
  <2>5. ConcurrencyBound' /\ OneLeasePerNode'
    BY <2>4, FewerHolders
  <2>6. HeldInMemory' /\ HeldInDb'
    BY <1>1, <1>8, <2>4 DEF HeldInMemory, HeldInDb, ReleaseLease
  <2>7. ReleasingIsReleased'
    <3> HIDE DEF e
    <3> QED BY <1>1, <1>8, <2>2, <2>3 DEF ReleasingIsReleased, ReleaseLease, TypeOK
  <2> QED
    BY <2>5, <2>6, <2>7 DEF HoldersKnown
<1>9. ASSUME NEW id \in LeaseIds, PersistRelease(id)
      PROVE  HoldersKnown'
  <2>1. id \notin Holders
    BY <1>1, <1>9 DEF PersistRelease, ReleasingIsReleased, Holders, Held
  <2>2. \A i \in Holders : i \in DOMAIN db => i \in DOMAIN db' /\ db'[i] = db[i]
    BY <1>9, <2>1, UpdateLeaseStatusOthers DEF PersistRelease
  <2>3. HeldInDb' /\ HeldInMemory' /\ ReleasingIsReleased'
    BY <1>1, <1>3, <1>9, <2>2 DEF PersistRelease, HeldInDb, HeldInMemory, ReleasingIsReleased
  <2> QED
    BY <1>3, <1>9, <2>3 DEF PersistRelease, HoldersKnown
<1>10. CASE CleanupExpiredLeases
  <2> DEFINE due == {i \in DOMAIN leases :
                       leases[i].status = "active" /\ now > leases[i].expiresAt}
  <2>1. \A i \in Holders : i \notin due
    BY <1>1, <1>2, <1>10, HeldLease DEF CleanupExpiredLeases, Issued
  <2>2. PICK ids : ids \subseteq due /\ db' = UpdateLeaseStatus(ids, "expired")
    BY <1>10 DEF CleanupExpiredLeases
  <2>3. \A i \in Holders : i \in DOMAIN db => i \in DOMAIN db' /\ db'[i] = db[i]
    BY <2>1, <2>2, UpdateLeaseStatusOthers
  <2>4. \A i \in Holders : i \in DOMAIN leases => i \in DOMAIN leases' /\ leases'[i] = leases[i]
    BY <1>10, <2>1 DEF CleanupExpiredLeases
  <2> HIDE DEF due
  <2>5. HeldInDb' /\ HeldInMemory' /\ ReleasingIsReleased'
    BY <1>1, <1>3, <1>10, <2>3, <2>4
       DEF CleanupExpiredLeases, HeldInDb, HeldInMemory, ReleasingIsReleased
  <2> QED
    BY <1>3, <1>10, <2>5 DEF CleanupExpiredLeases, HoldersKnown
<1>11. CASE ExpireLeases
  <2> DEFINE due == {i \in DOMAIN db : db[i].status = "active" /\ db[i].expiresAt < now}
  <2>1. \A i \in Holders : i \notin due
    BY <1>1, <1>2 DEF HeldInDb, Holders, Held, Issued
  <2>2. db' = UpdateLeaseStatus(due, "expired")
    BY <1>11 DEF ExpireLeases
  <2> HIDE DEF due
  <2>3. \A i \in Holders : i \in DOMAIN db => i \in DOMAIN db' /\ db'[i] = db[i]
    BY <2>1, <2>2, UpdateLeaseStatusOthers
  <2>4. HeldInDb' /\ HeldInMemory' /\ ReleasingIsReleased'
    BY <1>1, <1>3, <1>11, <2>3 DEF ExpireLeases, HeldInDb, HeldInMemory, ReleasingIsReleased
  <2> QED
    BY <1>3, <1>11, <2>4 DEF ExpireLeases, HoldersKnown
<1>12. CASE Stop
  BY <1>1, <1>3, <1>12 DEF Stop, HoldersKnown, HeldInMemory, HeldInDb, ReleasingIsReleased
<1>13. CASE Exit
  BY <1>1, <1>3, <1>13 DEF Exit, HoldersKnown, HeldInMemory, HeldInDb, ReleasingIsReleased
<1>14. CASE Start
  <2>1. leases' = [i \in GetActiveLeases |->
                     [node |-> db[i].node, expiresAt |-> db[i].expiresAt,
                      status |-> db[i].status]]
    BY <1>14 DEF Start, Outcome, ReliableStorage
  <2>2. \A i \in Holders : i \in GetActiveLeases
    BY <1>1, <1>2 DEF HeldInDb, GetActiveLeases, Holders, Held, Issued
  <2>3. HeldInMemory'
    BY <1>1, <1>3, <1>14, <2>1, <2>2 DEF Start, HeldInMemory, HeldInDb
  <2>4. HeldInDb' /\ ReleasingIsReleased'
    BY <1>1, <1>3, <1>14 DEF Start, HeldInDb, ReleasingIsReleased
  <2> QED
    BY <1>3, <1>14, <2>3, <2>4 DEF Start, HoldersKnown
<1> QED
  BY <1>4, <1>5, <1>6, <1>7, <1>8, <1>9, <1>10, <1>11, <1>12, <1>13, <1>14 DEF Next

(* At first nobody holds a lease. *)
LEMMA NobodyHoldsAtFirst ==
    ASSUME Init
    PROVE  HoldersKnown /\ Holders = {}
<1>1. TypeOK
  BY LeaseAssumption, EmptySeq DEF Init, TypeOK, LeaseIds
<1>2. Holders = {}
  BY EmptySeq DEF Init, Holders, LeaseIds
<1>3. ConcurrencyBound
  BY <1>2, FS_EmptySet, LeaseAssumption DEF ConcurrencyBound
<1> QED
  BY <1>1, <1>2, <1>3
     DEF Init, HoldersKnown, HeldInMemory, HeldInDb, ReleasingIsReleased, OneLeasePerNode

(* With storage that writes the rows of new leases and gives them back at  *)
(* start, the map and the database know every holder, over any sequence of *)
(* grants, releases, sweeps, failed status updates, crashes and restarts.  *)
LEMMA HoldersStayKnown ==
    ASSUME ReliableStorage
    PROVE  Spec => []HoldersKnown
<1>1. Init => HoldersKnown
  BY NobodyHoldsAtFirst
<1>2. HoldersKnown /\ [Next]_vars => HoldersKnown'
  BY TypeStep, HoldersKnownStep DEF HoldersKnown
<1> QED
  BY <1>1, <1>2, PTL DEF Spec

(* If the rows of new leases are written and can be read back at start,    *)
(* never more than maxConcurrentRemediations leases are held, and never    *)
(* two by one node (requestLease and rehydrateFromStorage).                *)
THEOREM LeaseSafety ==
    ASSUME ReliableStorage
    PROVE  Spec => []SlotsRespected
<1>1. HoldersKnown => SlotsRespected
  BY DEF HoldersKnown, SlotsRespected
<1> QED
  BY <1>1, HoldersStayKnown, PTL

----------------------------------------------------------------------------
(* Only requestLease makes a holder: every other step keeps or ends what   *)
(* is held.                                                                *)
LEMMA OnlyGrantsAddHolders ==
    ASSUME TypeOK, [Next]_vars,
           ~ \E n \in Nodes, d \in LeaseDurations : GrantLease(n, d)
    PROVE  \A i \in Holders' : i \in Holders /\ issued'[i].node = issued[i].node
<1>1. Len(issued) \in Nat /\ now \in Nat /\ \A i \in LeaseIds : issued[i] \in Issued
  BY LenProperties, ElementOfSeq DEF TypeOK, LeaseIds
<1>2. CASE issued' = issued /\ now' \in {now, now + 1}
  BY <1>1, <1>2 DEF Holders, Held, LeaseIds, Issued
<1>3. ASSUME NEW id \in LeaseIds, ReleaseLease(id)
      PROVE  \A i \in Holders' : i \in Holders /\ issued'[i].node = issued[i].node
  <2> DEFINE e == [issued[id] EXCEPT !.releasedAt = IF @ = Never THEN now ELSE @]
  <2>1. issued' = [issued EXCEPT ![id] = e] /\ e \in Issued /\ e.releasedAt # Never
    BY SMTT(30), <1>1, <1>3 DEF ReleaseLease, Issued, Never
  <2> HIDE DEF e
  <2>2. /\ Len(issued') = Len(issued)
        /\ issued'[id] = e
        /\ \A i \in LeaseIds : i # id => issued'[i] = issued[i]
    BY <2>1, ExceptSeq DEF TypeOK, LeaseIds
  <2> QED
    BY <1>3, <2>1, <2>2 DEF Holders, Held, LeaseIds, ReleaseLease
<1>4. \/ issued' = issued /\ now' \in {now, now + 1}
      \/ \E id \in LeaseIds : ReleaseLease(id)
  BY DEF Next, vars, Tick, DenyLease, PersistRelease, CleanupExpiredLeases, ExpireLeases,
         Stop, Exit, Start
<1> QED
  BY <1>2, <1>3, <1>4

(* There are no more nodes that hold a lease than leases held. *)
LEMMA NoMoreNodesThanLeases ==
    ASSUME TypeOK
    PROVE  /\ Cardinality(HoldingNodes) \in Nat
           /\ Cardinality(HoldingNodes) <= Cardinality(Holders)
<1> DEFINE f == [i \in Holders |-> issued[i].node]
<1>1. f \in Surjection(Holders, HoldingNodes)
  BY DEF Surjection, HoldingNodes
<1>2. IsFiniteSet(Holders)
  BY FiniteLeaseSets
<1> HIDE DEF f
<1> QED
  BY <1>1, <1>2, FS_Surjection, FS_CardinalityType

(* A grant is a grant of the service, or none when the lease asked for     *)
(* lasts no time at all.                                                   *)
LEMMA GrantIsGrant ==
    ASSUME HoldersKnown, NEW n \in Nodes, NEW d \in LeaseDurations, GrantLease(n, d)
    PROVE  Service!Grant(n) \/ HoldingNodes' = HoldingNodes
<1> DEFINE id == Len(issued) + 1
           e == [node |-> n, expiresAt |-> now + d, releasedAt |-> Never]
<1>1. TypeOK /\ HeldInMemory
  BY DEF HoldersKnown
<1>2. Len(issued) \in Nat /\ e \in Issued
  BY <1>1, LenProperties, LeaseAssumption DEF TypeOK, Issued
<1>3. issued' = Append(issued, e) /\ now' = now /\ phase = "up"
  BY DEF GrantLease
<1>4. /\ Len(issued') = id /\ id \notin LeaseIds
      /\ \A i \in LeaseIds : issued'[i] = issued[i]
      /\ issued'[id] = e
  <2>1. id \notin LeaseIds
    BY <1>2 DEF LeaseIds
  <2> HIDE DEF e
  <2> QED BY <1>1, <1>2, <1>3, <2>1, AppendProperties DEF TypeOK, LeaseIds
<1>5. /\ \A i \in Holders' : i = id \/ i \in Holders
      /\ \A i \in Holders : i \in Holders' /\ i \in LeaseIds /\ issued'[i] = issued[i]
  BY <1>2, <1>3, <1>4 DEF Holders, Held, LeaseIds
<1>6. issued'[id].node = n
  BY <1>4
<1>7. /\ Holders \subseteq ActiveLeases
      /\ \A i \in Holders : leases[i].node = issued[i].node
  BY <1>1, <1>3, HeldLease DEF ActiveLeases
<1>8. /\ Cardinality(ActiveLeases) < MaxConcurrent
      /\ \A i \in ActiveLeases : leases[i].node # n
  BY <1>1, FiniteLeaseSets, LeaseAssumption DEF GrantLease, LeaseDecision
<1>9. n \notin HoldingNodes
  BY <1>7, <1>8 DEF HoldingNodes
<1>10. Cardinality(HoldingNodes) < MaxConcurrent
  <2>1. Cardinality(Holders) <= Cardinality(ActiveLeases)
        /\ Cardinality(Holders) \in Nat /\ Cardinality(ActiveLeases) \in Nat
    BY <1>1, <1>7, FiniteLeaseSets, FS_Subset
  <2> QED
    BY <1>1, <1>8, <2>1, NoMoreNodesThanLeases, LeaseAssumption
<1> HIDE DEF id, e
<1>11. CASE id \in Holders'
  <2>1. HoldingNodes' = HoldingNodes \cup {n}
    BY <1>5, <1>6, <1>11 DEF HoldingNodes
  <2>2. Service!Cardinality(HoldingNodes) = Cardinality(HoldingNodes)
    BY DEF Service!Cardinality, Cardinality
  <2> QED
    BY <1>9, <1>10, <2>1, <2>2 DEF Service!Grant
<1>12. CASE id \notin Holders'
  BY <1>5, <1>12 DEF HoldingNodes
<1> QED
  BY <1>11, <1>12

(* The controller implements the lease service: with reliable storage,     *)
(* every step of requestLease, releaseLease, the sweeps, a crash and a     *)
(* restart is a grant of the service, the end of some leases, or nothing.  *)
THEOREM ServiceImplemented ==
    ASSUME ReliableStorage
    PROVE  Spec => ImplementsService
<1>1. Init => Service!Init
  BY NobodyHoldsAtFirst DEF HoldingNodes, Service!Init
<1>2. HoldersKnown /\ [Next]_vars => [Service!Next]_HoldingNodes
  <2> SUFFICES ASSUME HoldersKnown, [Next]_vars
               PROVE  Service!Next \/ HoldingNodes' = HoldingNodes
    OBVIOUS
  <2>1. ASSUME NEW n \in Nodes, NEW d \in LeaseDurations, GrantLease(n, d)
        PROVE  Service!Next \/ HoldingNodes' = HoldingNodes
    BY <2>1, GrantIsGrant DEF Service!Next
  <2>2. ASSUME ~ \E n \in Nodes, d \in LeaseDurations : GrantLease(n, d)
        PROVE  Service!Next \/ HoldingNodes' = HoldingNodes
    <3>1. HoldingNodes' \subseteq HoldingNodes
      BY <2>2, OnlyGrantsAddHolders DEF HoldersKnown, HoldingNodes
    <3> DEFINE ended == HoldingNodes \ HoldingNodes'
    <3>2. ended \in SUBSET HoldingNodes /\ HoldingNodes' = HoldingNodes \ ended
      BY <3>1
    <3> HIDE DEF ended
    <3>3. CASE ended = {}
      BY <3>2, <3>3
    <3>4. CASE ended # {}
      BY <3>2, <3>4 DEF Service!Next, Service!End
    <3> QED
      BY <3>3, <3>4
  <2> QED
    BY <2>1, <2>2
<1>3. Init => HoldersKnown
  BY NobodyHoldsAtFirst
<1>4. HoldersKnown /\ [Next]_vars => HoldersKnown'
  BY TypeStep, HoldersKnownStep DEF HoldersKnown
<1> QED
  BY <1>1, <1>2, <1>3, <1>4, PTL DEF Spec, ImplementsService, Service!Spec

----------------------------------------------------------------------------
(* A recorded lease end keeps its node out for the whole cooldown.         *)

(* The facts about single leases and rows that every step uses. *)
LEMMA LeaseFacts ==
    ASSUME TypeOK
    PROVE  /\ now \in Nat /\ Len(issued) \in Nat
           /\ \A i \in LeaseIds : /\ issued[i] \in Issued
                                  /\ EndedAt(i) \in Int
                                  /\ EndedAt(i) <= issued[i].expiresAt
                                  /\ issued[i].releasedAt # Never
                                        => EndedAt(i) <= issued[i].releasedAt
           /\ \A i \in DOMAIN db : i \in LeaseIds /\ db[i] \in Row
           /\ \A i \in DOMAIN leases : i \in LeaseIds
<1>1. now \in Nat /\ Len(issued) \in Nat /\ \A i \in LeaseIds : issued[i] \in Issued
  BY LenProperties, ElementOfSeq DEF TypeOK, LeaseIds
<1>2. \A i \in LeaseIds : /\ EndedAt(i) \in Int
                          /\ EndedAt(i) <= issued[i].expiresAt
                          /\ issued[i].releasedAt # Never => EndedAt(i) <= issued[i].releasedAt
  BY <1>1 DEF EndedAt, Issued, Never
<1> QED
  BY <1>1, <1>2 DEF TypeOK

(* Marking rows as ended keeps them true when the leases have ended. *)
LEMMA MarkingEnded ==
    ASSUME EndsRecorded, NEW ids, NEW st, issued' = issued, now' = now,
           db' = UpdateLeaseStatus(ids, st),
           \A i \in ids : i \in DOMAIN db => now >= EndedAt(i)
    PROVE  RowsTrue'
<1>1. /\ \A i \in DOMAIN db : db[i] \in Row
      /\ DOMAIN db' = DOMAIN db
      /\ \A i \in LeaseIds : EndedAt(i)' = EndedAt(i)
  BY LeaseFacts DEF EndsRecorded, UpdateLeaseStatus, EndedAt
<1>2. ASSUME NEW i \in DOMAIN db, i \in ids
      PROVE  /\ db'[i].node = db[i].node /\ db'[i].expiresAt = db[i].expiresAt
             /\ db'[i].completedAt = now
  BY <1>1, <1>2 DEF UpdateLeaseStatus, Row
<1>3. \A i \in DOMAIN db : i \notin ids => db'[i] = db[i]
  BY UpdateLeaseStatusOthers
<1>4. now \in Nat /\ \A i \in DOMAIN db : i \in LeaseIds
  BY LeaseFacts DEF EndsRecorded
<1> QED
  BY <1>1, <1>2, <1>3, <1>4 DEF RowsTrue, EndsRecorded

(* A new lease is true in the map and in the database. *)
LEMMA GrantKeepsEnds ==
    ASSUME EndsRecorded, TypeOK', NEW n \in Nodes, NEW d \in LeaseDurations, GrantLease(n, d)
    PROVE  EndsRecorded'
<1> DEFINE id == Len(issued) + 1
           e == [node |-> n, expiresAt |-> now + d, releasedAt |-> Never]
           r == [node |-> n, expiresAt |-> now + d, status |-> "active"]
           w == [node |-> n, expiresAt |-> now + d, status |-> "active", completedAt |-> Never]
<1>1. TypeOK /\ LeasesTrue /\ RowsTrue /\ ReleasingIsReleased
  BY DEF EndsRecorded
<1>2. now \in Nat /\ Len(issued) \in Nat /\ e \in Issued
  <2>1. now \in Nat /\ Len(issued) \in Nat
    BY <1>1, LeaseFacts
  <2>2. now + d \in Nat
    BY <2>1, LeaseAssumption
  <2> QED
    BY <2>1, <2>2 DEF Issued
<1>3. /\ issued' = Append(issued, e) /\ leases' = With(leases, id, r)
      /\ db' = With(db, id, w) \/ db' = db
      /\ now' = now /\ releasing' = releasing
  BY DEF GrantLease
<1>4. /\ LeaseIds' = LeaseIds \cup {id} /\ id \notin LeaseIds
      /\ \A i \in LeaseIds : issued'[i] = issued[i] /\ EndedAt(i)' = EndedAt(i)
      /\ issued'[id] = e
  <2>1. Len(issued') = id /\ id \notin LeaseIds /\ LeaseIds' = LeaseIds \cup {id}
    BY <1>1, <1>2, <1>3, AppendProperties DEF TypeOK, LeaseIds
  <2>2. (\A i \in LeaseIds : issued'[i] = issued[i]) /\ issued'[id] = e
    <3> HIDE DEF e
    <3> QED BY <1>1, <1>2, <1>3, AppendProperties DEF TypeOK, LeaseIds
  <2> QED
    BY <2>1, <2>2 DEF EndedAt
<1>5. DOMAIN leases \subseteq LeaseIds /\ DOMAIN db \subseteq LeaseIds
      /\ releasing \subseteq LeaseIds
  BY <1>1 DEF TypeOK
<1>6. /\ r.expiresAt = e.expiresAt
      /\ w.node = e.node /\ w.expiresAt = e.expiresAt /\ w.status = "active"
      /\ w.completedAt <= now
      /\ e.releasedAt <= now
  BY <1>2 DEF Never
<1> HIDE DEF id, e, r, w
<1>7. LeasesTrue'
  <2>1. /\ \A i \in DOMAIN leases' : i = id \/ i \in DOMAIN leases
        /\ \A i \in DOMAIN leases : leases'[i] = leases[i]
        /\ leases'[id] = r
    BY <1>3, <1>4, <1>5 DEF With
  <2> QED
    BY <1>1, <1>4, <1>5, <1>6, <2>1 DEF LeasesTrue
<1>8. RowsTrue'
  <2>1. /\ \A i \in DOMAIN db' : (i = id /\ db'[i] = w) \/ i \in DOMAIN db
        /\ \A i \in DOMAIN db : db'[i] = db[i]
    BY <1>3, <1>4, <1>5 DEF With
  <2> QED
    BY ZenonT(30), <1>1, <1>3, <1>4, <1>5, <1>6, <2>1 DEF RowsTrue
<1>9. ReleasingIsReleased'
  BY <1>1, <1>3, <1>4, <1>5 DEF ReleasingIsReleased
<1>10. \A i \in LeaseIds' : issued'[i].releasedAt <= now'
  BY <1>3, <1>4, <1>6 DEF EndsRecorded
<1> QED
  BY <1>7, <1>8, <1>9, <1>10 DEF EndsRecorded

(* releaseLease ends a lease now, or leaves the end it already has. *)
LEMMA ReleaseKeepsEnds ==
    ASSUME EndsRecorded, TypeOK', NEW id \in LeaseIds, ReleaseLease(id)
    PROVE  EndsRecorded'
<1> DEFINE e == [issued[id] EXCEPT !.releasedAt = IF @ = Never THEN now ELSE @]
<1>1. TypeOK /\ LeasesTrue /\ RowsTrue /\ ReleasingIsReleased
      /\ \A i \in LeaseIds : issued[i].releasedAt <= now
  BY DEF EndsRecorded
<1>2. issued' = [issued EXCEPT ![id] = e] /\ e \in Issued
  BY <1>1, LeaseFacts DEF ReleaseLease, Issued
<1>3. /\ e.releasedAt # Never /\ e.releasedAt <= now
      /\ e.node = issued[id].node /\ e.expiresAt = issued[id].expiresAt
  BY <1>1, LeaseFacts DEF Issued, Never
<1>4. /\ LeaseIds' = LeaseIds /\ issued'[id] = e
      /\ \A i \in LeaseIds : i # id => issued'[i] = issued[i]
  <2> HIDE DEF e
  <2> QED BY <1>1, <1>2, ExceptSeq DEF TypeOK, LeaseIds
<1>5. \A i \in LeaseIds : EndedAt(i)' <= EndedAt(i) /\ EndedAt(i)' \in Int
  <2>1. \A i \in LeaseIds : i # id => EndedAt(i)' = EndedAt(i)
    BY <1>4 DEF EndedAt
  <2>2. EndedAt(id)' <= EndedAt(id) /\ EndedAt(id)' \in Int
    BY <1>1, <1>4, LeaseFacts DEF EndedAt, Issued, Never
  <2> QED
    BY <1>1, <2>1, <2>2, LeaseFacts
<1>6. \A i \in LeaseIds : /\ issued'[i].node = issued[i].node
                          /\ issued'[i].expiresAt = issued[i].expiresAt
                          /\ issued'[i].releasedAt <= now
                          /\ issued[i].releasedAt # Never => issued'[i].releasedAt # Never
  BY <1>1, <1>3, <1>4
<1>7. db' = db /\ now' = now /\ releasing' = releasing \cup {id}
  BY DEF ReleaseLease
<1>8. LeasesTrue'
  <2>1. /\ DOMAIN leases' = DOMAIN leases
        /\ \A i \in DOMAIN leases : leases'[i].expiresAt = leases[i].expiresAt
    BY <1>1 DEF ReleaseLease, TypeOK, Lease
  <2> QED
    BY <1>1, <1>6, <2>1, LeaseFacts DEF LeasesTrue
<1>9. RowsTrue'
  BY <1>1, <1>5, <1>6, <1>7, LeaseFacts DEF RowsTrue, Row, Never
<1>10. ReleasingIsReleased'
  BY <1>1, <1>3, <1>4, <1>6, <1>7 DEF ReleasingIsReleased, TypeOK
<1> QED
  BY <1>4, <1>6, <1>7, <1>8, <1>9, <1>10 DEF EndsRecorded

(* Every step keeps the record of lease ends true. *)
LEMMA EndsRecordedStep ==
    ASSUME EndsRecorded, TypeOK', [Next]_vars
    PROVE  EndsRecorded'
<1>1. TypeOK /\ LeasesTrue /\ RowsTrue /\ ReleasingIsReleased
      /\ \A i \in LeaseIds : issued[i].releasedAt <= now
  BY DEF EndsRecorded
<1>2. CASE UNCHANGED <<leases, db, releasing, issued>> /\ now' \in {now, now + 1}
  <2>1. /\ \A i \in LeaseIds : issued[i].releasedAt <= now'
        /\ \A i \in DOMAIN db : db[i].completedAt <= now'
    BY <1>1, <1>2, LeaseFacts DEF RowsTrue, Issued, Row, Never
  <2> QED
    BY <1>1, <1>2, <2>1
       DEF EndsRecorded, LeasesTrue, RowsTrue, ReleasingIsReleased, LeaseIds, EndedAt
<1>3. ASSUME NEW id \in LeaseIds, PersistRelease(id)
      PROVE  EndsRecorded'
  <2>1. now >= EndedAt(id)
    BY <1>1, <1>3, LeaseFacts DEF PersistRelease, ReleasingIsReleased, Issued, Never
  <2>2. RowsTrue'
    <3>1. CASE db' = UpdateLeaseStatus({id}, "completed")
      BY <1>3, <2>1, <3>1, MarkingEnded DEF PersistRelease
    <3>2. CASE db' = db
      BY <1>1, <1>3, <3>2 DEF PersistRelease, RowsTrue, EndedAt
    <3> QED
      BY <1>3, <3>1, <3>2 DEF PersistRelease
  <2> QED
    BY <1>1, <1>3, <2>2 DEF PersistRelease, EndsRecorded, LeasesTrue, ReleasingIsReleased, LeaseIds
<1>4. CASE CleanupExpiredLeases
  <2> DEFINE due == {i \in DOMAIN leases :
                       leases[i].status = "active" /\ now > leases[i].expiresAt}
  <2>1. PICK ids : ids \subseteq due /\ db' = UpdateLeaseStatus(ids, "expired")
    BY <1>4 DEF CleanupExpiredLeases
  <2>2. \A i \in due : now >= EndedAt(i)
    BY <1>1, LeaseFacts DEF LeasesTrue, Issued
  <2>3. RowsTrue'
    <3> HIDE DEF due
    <3> QED BY <1>4, <2>1, <2>2, MarkingEnded DEF CleanupExpiredLeases
  <2>4. LeasesTrue'
    <3>1. /\ DOMAIN leases' = DOMAIN leases
          /\ \A i \in DOMAIN leases : leases'[i].expiresAt = leases[i].expiresAt
      BY <1>1, <1>4 DEF CleanupExpiredLeases, TypeOK, Lease
    <3> QED
      BY <1>1, <1>4, <3>1 DEF LeasesTrue, CleanupExpiredLeases
  <2> QED
    BY <1>1, <1>4, <2>3, <2>4 DEF CleanupExpiredLeases, EndsRecorded, ReleasingIsReleased, LeaseIds
<1>5. CASE ExpireLeases
  <2> DEFINE due == {i \in DOMAIN db : db[i].status = "active" /\ db[i].expiresAt < now}
  <2>1. \A i \in due : now >= EndedAt(i)
    BY <1>1, LeaseFacts DEF RowsTrue, Issued
  <2>2. RowsTrue'
    <3>1. db' = UpdateLeaseStatus(due, "expired") /\ issued' = issued /\ now' = now
      BY <1>5 DEF ExpireLeases
    <3> HIDE DEF due
    <3> QED BY <2>1, <3>1, MarkingEnded
  <2> QED
    BY <1>1, <1>5, <2>2 DEF ExpireLeases, EndsRecorded, LeasesTrue, ReleasingIsReleased, LeaseIds
<1>6. CASE Exit
  BY <1>1, <1>6 DEF Exit, EndsRecorded, LeasesTrue, RowsTrue, ReleasingIsReleased, LeaseIds, EndedAt
<1>7. CASE Start
  <2>1. LeasesTrue'
    <3>1. \A i \in DOMAIN leases' : i \in DOMAIN db /\ leases'[i].expiresAt = db[i].expiresAt
      BY <1>7 DEF Start, GetActiveLeases
    <3> QED
      BY <1>1, <1>7, <3>1 DEF Start, LeasesTrue, RowsTrue
  <2> QED
    BY <1>1, <1>7, <2>1 DEF Start, EndsRecorded, RowsTrue, ReleasingIsReleased, LeaseIds, EndedAt
<1>8. \/ UNCHANGED <<leases, db, releasing, issued>> /\ now' \in {now, now + 1}
      \/ \E n \in Nodes, d \in LeaseDurations : GrantLease(n, d)
      \/ \E id \in LeaseIds : ReleaseLease(id) \/ PersistRelease(id)
      \/ CleanupExpiredLeases \/ ExpireLeases \/ Exit \/ Start
  BY DEF Next, vars, Tick, DenyLease, Stop
<1> QED
  BY <1>2, <1>3, <1>4, <1>5, <1>6, <1>7, <1>8, GrantKeepsEnds, ReleaseKeepsEnds

(* If the cooldown query never fails, requestLease gives a node whose      *)
(* lease end is recorded no new lease before the cooldown since the real   *)
(* end is over, over any crashes, restarts, sweeps, repeated releases and  *)
(* other storage failures.                                                 *)
THEOREM CooldownSafety ==
    ASSUME "cooldown" \notin Faults
    PROVE  Spec => RecordedCooldownHonoured
<1> DEFINE Honoured ==
      \A i \in DOMAIN db :
         (GrantsTo(issued[i].node) /\ db[i].status # "active")
            => now >= EndedAt(i) + CooldownPeriod
<1>1. Init => EndsRecorded
  <2> SUFFICES ASSUME Init PROVE EndsRecorded
    OBVIOUS
  <2>1. TypeOK /\ LeaseIds = {}
    BY LeaseAssumption, EmptySeq DEF Init, TypeOK, LeaseIds
  <2> QED
    BY <2>1 DEF Init, EndsRecorded, LeasesTrue, RowsTrue, ReleasingIsReleased
<1>2. EndsRecorded /\ [Next]_vars => EndsRecorded'
  BY TypeStep, EndsRecordedStep DEF EndsRecorded
<1>3. EndsRecorded /\ [Next]_vars => [Honoured]_vars
  <2> SUFFICES ASSUME EndsRecorded, [Next]_vars, NEW i \in DOMAIN db,
                      GrantsTo(issued[i].node), db[i].status # "active"
               PROVE  now >= EndedAt(i) + CooldownPeriod
    OBVIOUS
  <2>1. TypeOK /\ RowsTrue
    BY DEF EndsRecorded
  <2>2. Len(issued') # Len(issued)
    BY <2>1, LeaseFacts DEF GrantsTo
  <2>3. PICK n \in Nodes, d \in LeaseDurations : GrantLease(n, d)
    <3>1. \A id \in LeaseIds : ReleaseLease(id) => Len(issued') = Len(issued)
      <4> SUFFICES ASSUME NEW id \in LeaseIds, ReleaseLease(id)
                   PROVE  Len(issued') = Len(issued)
        OBVIOUS
      <4> DEFINE e == [issued[id] EXCEPT !.releasedAt = IF @ = Never THEN now ELSE @]
      <4>1. issued' = [issued EXCEPT ![id] = e] /\ e \in Issued
        BY <2>1, LeaseFacts DEF ReleaseLease, Issued
      <4> HIDE DEF e
      <4> QED
        BY <2>1, <4>1, ExceptSeq DEF TypeOK, LeaseIds
    <3> QED
      BY <2>2, <3>1 DEF Next, vars, Tick, DenyLease, PersistRelease, CleanupExpiredLeases,
                        ExpireLeases, Stop, Exit, Start
  <2>4. n = issued[i].node
    <3> DEFINE e == [node |-> n, expiresAt |-> now + d, releasedAt |-> Never]
    <3>1. issued' = Append(issued, e) /\ e \in Issued
      BY <2>1, <2>3, LeaseFacts, LeaseAssumption DEF GrantLease, Issued
    <3>2. e.node = n
      OBVIOUS
    <3> HIDE DEF e
    <3>3. issued'[Len(issued')] = e
      BY <2>1, <3>1, AppendProperties DEF TypeOK
    <3> QED
      BY <3>2, <3>3 DEF GrantsTo
  <2>5. CASE CooldownPeriod = 0
    BY <2>1, <2>5, LeaseFacts DEF RowsTrue, Row, Never
  <2>6. CASE CooldownPeriod > 0
    <3>1. CooldownOver(n)
      BY <2>3, <2>6 DEF GrantLease, LeaseDecision, Outcome
    <3>2. i \in CompletedRows(n)
      BY <2>1, <2>4, LeaseFacts DEF CompletedRows, RowsTrue, Row, Statuses
    <3> QED
      BY <2>1, <3>1, <3>2, LeaseFacts, LeaseAssumption DEF CooldownOver, RowsTrue, Row, Never
  <2> QED
    BY <2>5, <2>6, LeaseAssumption
<1> QED
  BY <1>1, <1>2, <1>3, PTL DEF Spec, RecordedCooldownHonoured
=============================================================================
