-------------------------- MODULE LeaseController --------------------------
(***************************************************************************)
(* The remediation lease table of node-doctor-controller                   *)
(* (pkg/controller/server.go) and its SQLite copy (pkg/controller/         *)
(* storage.go).                                                            *)
(*                                                                         *)
(* The in-memory map s.leases decides who may remediate; the database is   *)
(* written after each change, read back at start, and read for the node    *)
(* cooldown.  Handlers run under s.mu, so requestLease and the 30 second   *)
(* sweep are one step each.  releaseLease unlocks before it writes the     *)
(* database, so it is two steps, with requests, sweeps, the hourly         *)
(* ExpireLeases and a crash free to come in between.                       *)
(*                                                                         *)
(* A controller without storage behaves as one whose every storage call    *)
(* fails, so it is the case Faults = StorageOps.                           *)
(***************************************************************************)
EXTENDS Integers, Sequences, FiniteSets

CONSTANTS
    Nodes,            \* names of the nodes that ask for leases
    MaxConcurrent,    \* coordination.maxConcurrentRemediations
    CooldownPeriod,   \* coordination.cooldownPeriod
    LeaseDurations,   \* the default duration and the ones clients request
    Faults,           \* the storage operations that may fail
    MaxTime,          \* bound of the clock
    MaxLeases         \* bound on the number of leases ever granted

(* The storage calls whose failure the server only logs. *)
StorageOps == {"save", "update", "load", "cooldown"}

ASSUME LeaseAssumption ==
    /\ IsFiniteSet(Nodes)
    /\ MaxConcurrent \in Nat
    /\ CooldownPeriod \in Nat
    /\ LeaseDurations \subseteq Nat
    /\ Faults \subseteq StorageOps
    /\ MaxTime \in Nat
    /\ MaxLeases \in Nat

VARIABLES
    now,        \* time.Now()
    phase,      \* "up": started; "stopping": Stop drains handlers; "down"
    leases,     \* s.leases: lease ID -> lease, in memory
    db,         \* table leases: lease ID -> row
    releasing,  \* leases whose releaseLease has unlocked, not yet persisted
    issued      \* history: what was granted, and when its holder released it

vars == <<now, phase, leases, db, releasing, issued>>

(* IDs stand for node-type-nanoseconds: each is used once. *)
LeaseIds == 1 .. Len(issued)

(* The completed_at of a row no status update has touched (NULL). *)
Never == -1

Statuses == {"active", "completed", "expired"}
Lease  == [node : Nodes, expiresAt : Nat, status : Statuses]
Row    == [node : Nodes, expiresAt : Nat, status : Statuses, completedAt : Nat \cup {Never}]
Issued == [node : Nodes, expiresAt : Nat, releasedAt : Nat \cup {Never}]

TypeOK ==
    /\ now \in Nat
    /\ phase \in {"up", "stopping", "down"}
    /\ issued \in Seq(Issued)
    /\ DOMAIN leases \subseteq LeaseIds
    /\ \A i \in DOMAIN leases : leases[i] \in Lease
    /\ DOMAIN db \subseteq LeaseIds
    /\ \A i \in DOMAIN db : db[i] \in Row
    /\ releasing \subseteq LeaseIds

----------------------------------------------------------------------------
(* A map with one more entry. *)
With(f, i, e) == [j \in DOMAIN f \cup {i} |-> IF j = i THEN e ELSE f[j]]

(* A storage call comes back with an error only if it is one of Faults. *)
Outcome(op) == {"ok"} \cup (IF op \in Faults THEN {"error"} ELSE {})

(* UPDATE leases SET status = st, completed_at = now WHERE id IN ids. *)
UpdateLeaseStatus(ids, st) ==
    [i \in DOMAIN db |->
        IF i \in ids THEN [db[i] EXCEPT !.status = st, !.completedAt = now] ELSE db[i]]

(* The leases requestLease counts: status "active" and now before expiry. *)
ActiveLeases ==
    {i \in DOMAIN leases : leases[i].status = "active" /\ now < leases[i].expiresAt}

(* Rows GetLastCompletedLease selects for a node. *)
CompletedRows(n) ==
    {i \in DOMAIN db : db[i].node = n /\ db[i].status \in {"completed", "expired"}}

MutCooldownUncompared(n) == TRUE

(* The cooldown has run out since the newest completed_at of the node. *)
CooldownOver(n) ==
    \A i \in CompletedRows(n) : now >= db[i].completedAt + CooldownPeriod

MutNoNodeCheck(n, q) ==
    IF Cardinality(ActiveLeases) >= MaxConcurrent THEN "max_concurrent"
    ELSE IF CooldownPeriod > 0 /\ q = "ok" /\ ~CooldownOver(n) THEN "cooldown"
    ELSE "granted"

(* The answer requestLease gives; q is the outcome of the cooldown query,  *)
(* whose failure lets the request through.                                 *)
LeaseDecision(n, q) ==
    IF Cardinality(ActiveLeases) >= MaxConcurrent THEN "max_concurrent"
    ELSE IF \E i \in ActiveLeases : leases[i].node = n THEN "node_has_lease"
    ELSE IF CooldownPeriod > 0 /\ q = "ok" /\ ~CooldownOver(n) THEN "cooldown"
    ELSE "granted"

----------------------------------------------------------------------------
Init ==
    /\ now = 0
    /\ phase = "up"
    /\ leases = <<>>
    /\ db = <<>>
    /\ releasing = {}
    /\ issued = <<>>

Tick ==
    /\ now < MaxTime
    /\ now' = now + 1
    /\ UNCHANGED <<phase, leases, db, releasing, issued>>

(* requestLease, approved: the map first, then SaveLease, whose error is   *)
(* logged and does not take the grant back.                                *)
GrantLease(n, d) ==
    /\ phase = "up"
    /\ Len(issued) < MaxLeases
    /\ \E q \in Outcome("cooldown") : LeaseDecision(n, q) = "granted"
    /\ LET id  == Len(issued) + 1
           new == [node |-> n, expiresAt |-> now + d, status |-> "active"]
       IN  /\ leases' = With(leases, id, new)
           /\ issued' = Append(issued, [node |-> n, expiresAt |-> now + d,
                                        releasedAt |-> Never])
           /\ \E s \in Outcome("save") :
                db' = IF s = "ok"
                      THEN With(db, id, [node |-> n, expiresAt |-> now + d,
                                         status |-> "active", completedAt |-> Never])
                      ELSE db
    /\ UNCHANGED <<now, phase, releasing>>

(* requestLease, refused: an answer and a metric, no state. *)
DenyLease(n) ==
    /\ phase = "up"
    /\ \E q \in Outcome("cooldown") : LeaseDecision(n, q) # "granted"
    /\ UNCHANGED vars

(* releaseLease under s.mu.  Any lease in the map may be released, also    *)
(* one that has expired or was released before.                            *)
ReleaseLease(id) ==
    /\ phase = "up"
    /\ id \in DOMAIN leases
    /\ leases' = [leases EXCEPT ![id].status = "completed"]
    /\ releasing' = releasing \cup {id}
    /\ issued' = [issued EXCEPT ![id].releasedAt = IF @ = Never THEN now ELSE @]
    /\ UNCHANGED <<now, phase, db>>

(* releaseLease after the unlock: the status in the database. *)
PersistRelease(id) ==
    /\ phase \in {"up", "stopping"}
    /\ id \in releasing
    /\ releasing' = releasing \ {id}
    /\ \E s \in Outcome("update") :
         db' = IF s = "ok" THEN UpdateLeaseStatus({id}, "completed") ELSE db
    /\ UNCHANGED <<now, phase, leases, issued>>

(* cleanupExpiredLeases: the sweep every 30 s marks every overdue lease,   *)
(* each with its own, possibly failing, database update.                   *)
CleanupExpiredLeases ==
    /\ phase = "up"
    /\ LET due == {i \in DOMAIN leases :
                     leases[i].status = "active" /\ now > leases[i].expiresAt}
       IN  /\ leases' = [i \in DOMAIN leases |->
                            IF i \in due THEN [leases[i] EXCEPT !.status = "expired"]
                            ELSE leases[i]]
           /\ \E failed \in SUBSET due :
                /\ failed # {} => "update" \in Faults
                /\ db' = UpdateLeaseStatus(due \ failed, "expired")
    /\ UNCHANGED <<now, phase, releasing, issued>>

(* The hourly RunCleanup: ExpireLeases works on the database alone. *)
ExpireLeases ==
    /\ phase \in {"up", "stopping"}
    /\ db' = UpdateLeaseStatus({i \in DOMAIN db : db[i].status = "active"
                                                  /\ db[i].expiresAt < now}, "expired")
    /\ UNCHANGED <<now, phase, leases, releasing, issued>>

(* Stop: no new requests; Shutdown waits for the handlers that run. *)
Stop ==
    /\ phase = "up"
    /\ phase' = "stopping"
    /\ UNCHANGED <<now, leases, db, releasing, issued>>

(* The process ends, drained by Stop or killed at any moment: the map and  *)
(* the handlers are gone, the database stays.                              *)
Exit ==
    /\ phase # "down"
    /\ phase = "stopping" => releasing = {}
    /\ phase' = "down"
    /\ leases' = <<>>
    /\ releasing' = {}
    /\ UNCHANGED <<now, db, issued>>

MutLoadNothing == {}

(* Rows GetActiveLeases selects. *)
GetActiveLeases ==
    {i \in DOMAIN db : db[i].status = "active" /\ db[i].expiresAt > now}

(* Start with rehydrateFromStorage: both run under s.mu, before the first  *)
(* handler gets the lock.  A failed query leaves the map empty.            *)
Start ==
    /\ phase = "down"
    /\ phase' = "up"
    /\ \E q \in Outcome("load") :
         leases' = IF q = "ok"
                   THEN [i \in GetActiveLeases |->
                           [node |-> db[i].node, expiresAt |-> db[i].expiresAt,
                            status |-> db[i].status]]
                   ELSE <<>>
    /\ UNCHANGED <<now, db, releasing, issued>>

Next ==
    \/ Tick
    \/ \E n \in Nodes, d \in LeaseDurations : GrantLease(n, d)
    \/ \E n \in Nodes : DenyLease(n)
    \/ \E id \in LeaseIds : ReleaseLease(id) \/ PersistRelease(id)
    \/ CleanupExpiredLeases
    \/ ExpireLeases
    \/ Stop
    \/ Exit
    \/ Start

Spec == Init /\ [][Next]_vars

----------------------------------------------------------------------------
(* A lease whose holder may be remediating: granted, not given back, not   *)
(* past its expiry.  Defined on the history, so a crash does not end it.   *)
Held(i) == issued[i].releasedAt = Never /\ now < issued[i].expiresAt

Holders == {i \in LeaseIds : Held(i)}

(* At most maxConcurrentRemediations leases are held, and no two by one    *)
(* node.                                                                   *)
ConcurrencyBound == Cardinality(Holders) <= MaxConcurrent
OneLeasePerNode  == \A i, j \in Holders : issued[i].node = issued[j].node => i = j

(* At no time are more leases held than there are slots, nor two by one    *)
(* node, whatever crashes and restarts happened since they were granted    *)
(* (requestLease's count and per-node check, and rehydrateFromStorage).    *)
SlotsRespected == ConcurrencyBound /\ OneLeasePerNode

(* When the holder of lease i stopped: it released, or its time ran out. *)
EndedAt(i) ==
    IF issued[i].releasedAt # Never /\ issued[i].releasedAt < issued[i].expiresAt
    THEN issued[i].releasedAt ELSE issued[i].expiresAt

(* Whether this step grants a lease to node n. *)
GrantsTo(n) ==
    Len(issued') = Len(issued) + 1 /\ issued'[Len(issued')].node = n

(* Once the end of a lease has reached the database, no step grants its    *)
(* node another one until the cooldown since the lease really ended is     *)
(* over; restarts and later releases of the same lease only lengthen it    *)
(* (requestLease's use of GetLastCompletedLease).                          *)
RecordedCooldownHonoured ==
    [][\A i \in DOMAIN db :
         (GrantsTo(issued[i].node) /\ db[i].status # "active")
            => now >= EndedAt(i) + CooldownPeriod]_vars

(* The storage keeps what the bound depends on: the rows of new leases are *)
(* written and the active ones can be read back at start.                  *)
ReliableStorage == "save" \notin Faults /\ "load" \notin Faults

(* Whoever holds a lease is active in the map while the server runs ...    *)
HeldInMemory ==
    phase # "down" =>
        \A i \in Holders :
            /\ i \in DOMAIN leases
            /\ leases[i] = [node |-> issued[i].node, expiresAt |-> issued[i].expiresAt,
                            status |-> "active"]

(* ... and in the database at all times, so a restart finds it again. *)
HeldInDb ==
    \A i \in Holders :
        /\ i \in DOMAIN db
        /\ db[i].status = "active"
        /\ db[i].node = issued[i].node
        /\ db[i].expiresAt = issued[i].expiresAt

(* A release still to be persisted has been made. *)
ReleasingIsReleased == \A i \in releasing : issued[i].releasedAt # Never

(* The inductive invariant behind SlotsRespected: the map and the database *)
(* never forget a lease that is still held, so requestLease counts at      *)
(* least the holders (rehydrateFromStorage).                               *)
HoldersKnown ==
    /\ TypeOK
    /\ HeldInMemory
    /\ HeldInDb
    /\ ReleasingIsReleased
    /\ ConcurrencyBound
    /\ OneLeasePerNode

(* The map and the database know when a lease runs out, and a row that is  *)
(* no longer active was marked no earlier than its lease ended.            *)
LeasesTrue == \A i \in DOMAIN leases : leases[i].expiresAt = issued[i].expiresAt
RowsTrue ==
    \A i \in DOMAIN db :
        /\ db[i].node = issued[i].node
        /\ db[i].expiresAt = issued[i].expiresAt
        /\ db[i].status # "active" => db[i].completedAt >= EndedAt(i)
        /\ db[i].completedAt <= now

(* The inductive invariant behind RecordedCooldownHonoured. *)
EndsRecorded ==
    /\ TypeOK
    /\ LeasesTrue
    /\ RowsTrue
    /\ ReleasingIsReleased
    /\ \A i \in LeaseIds : issued[i].releasedAt <= now

(* The nodes that hold a lease, as LeaseService sees them. *)
HoldingNodes == {issued[i].node : i \in Holders}
Service == INSTANCE LeaseService WITH holding <- HoldingNodes

(* The controller with its map, its database, sweeps and restarts gives    *)
(* leases as the service does: each grant goes to a node without one while *)
(* fewer than maxConcurrentRemediations nodes hold one, and nothing else   *)
(* ever makes a node a holder (requestLease, releaseLease,                 *)
(* rehydrateFromStorage).                                                  *)
ImplementsService == Service!Spec

(* What the cooldown is documented to do: a node whose last lease ended    *)
(* less than cooldownPeriod ago is refused.                                *)
CooldownHonoured ==
    [][\A i \in LeaseIds :
         (GrantsTo(issued[i].node) /\ ~Held(i)) => now >= EndedAt(i) + CooldownPeriod]_vars
=============================================================================
