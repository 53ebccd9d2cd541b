----------------------- MODULE NodeConditions_proofs -----------------------
(* Proofs about the condition manager, for every set of condition types,   *)
(* values and custom conditions, every TTL and every bound.                *)
EXTENDS NodeConditions, TLAPS

(* What a map of conditions with some taken out, patched or set is. *)
LEMMA ContentsClosed ==
    ASSUME NEW f \in Contents, NEW t \in Types, NEW v \in Values \cup {Absent}, NEW ts
    PROVE  /\ Without(f, ts) \in Contents
           /\ [f EXCEPT ![t] = v] \in Contents
           /\ Nothing \in Contents
  BY DEF Contents, Without, Nothing

(* A new manager's state is well formed whether or not its first read of   *)
(* the node succeeds.                                                      *)
LEMMA StartManagerType ==
    ASSUME ConditionsTypeOK, NEW loads \in BOOLEAN, StartManager(loads)
    PROVE  /\ {conditions', updates'} \subseteq Contents
           /\ removals' \subseteq Ours
           /\ refreshed' \in [Owned -> Ages \cup {Untracked}] /\ uptime' \in Ages
           /\ snapshot' = <<>> /\ flushing' = FALSE
<1>1. 0 \in Ages
  BY ConditionsAssumption DEF Ages
<1> QED
  BY <1>1, ConditionsAssumption DEF StartManager, ConditionsTypeOK, Contents, Types, Ours

(* The types are preserved by every action of the manager, the exporter    *)
(* and the other owners.                                                   *)
LEMMA ConditionsTypeStep ==
    ASSUME ConditionsTypeOK, [Next]_vars
    PROVE  ConditionsTypeOK'
<1> USE ConditionsAssumption
<1>0. /\ Owned \subseteq Types /\ Foreign \subseteq Types /\ Heartbeat \in Types
      /\ Owned \subseteq Ours /\ Values \subseteq Values \cup {Absent}
      /\ 0 \in Ages
      /\ MaxFlips \in Nat /\ MaxFaults \in Nat /\ MaxRestarts \in Nat /\ Default \in Values
  BY DEF Types, Ours, Ages
<1>1. ASSUME NEW t \in Types, NEW v \in Values, Flip(t, v)
      PROVE  ConditionsTypeOK'
  <2>1. finding' \in Contents
    BY <1>1, ContentsClosed DEF ConditionsTypeOK, Flip
  <2>2. flips' \in 0 .. MaxFlips
    BY <1>0, <1>1 DEF ConditionsTypeOK, Flip
  <2> QED
    BY <1>1, <2>1, <2>2 DEF ConditionsTypeOK, Flip, manager
<1>2. ASSUME NEW t \in Types, NEW v \in Values, OwnerWrites(t, v)
      PROVE  ConditionsTypeOK'
  <2>1. finding' \in Contents /\ node' \in Contents
    BY <1>2, ContentsClosed DEF ConditionsTypeOK, OwnerWrites
  <2>2. flips' \in 0 .. MaxFlips
    BY <1>0, <1>2 DEF ConditionsTypeOK, OwnerWrites
  <2> QED
    BY <1>2, <2>1, <2>2 DEF ConditionsTypeOK, OwnerWrites, manager
<1>3. ASSUME NEW t \in Owned, UpdateCondition(t)
      PROVE  ConditionsTypeOK'
  <2>1. finding[t] \in Values \cup {Absent}
    BY <1>0 DEF ConditionsTypeOK, Contents
  <2>2. updates' \in Contents
    BY <1>0, <1>3, <2>1, ContentsClosed DEF ConditionsTypeOK, UpdateCondition
  <2>3. refreshed' \in [Owned -> Ages \cup {Untracked}]
    BY <1>0, <1>3 DEF ConditionsTypeOK, UpdateCondition
  <2>4. monitor' \in [Owned -> {"on", "late", "off", "retired"}]
    BY <1>3 DEF ConditionsTypeOK, UpdateCondition
  <2> QED
    BY <1>3, <2>2, <2>3, <2>4 DEF ConditionsTypeOK, UpdateCondition
<1>4. ASSUME NEW t \in Owned, CleanupMonitorConditions(t)
      PROVE  ConditionsTypeOK'
  <2>1. conditions' \in Contents /\ updates' \in Contents
    BY SMTT(30), <1>0, <1>4, ContentsClosed
       DEF ConditionsTypeOK, CleanupMonitorConditions, RemoveCondition
  <2>2. removals' \subseteq Ours
    BY <1>0, <1>4 DEF ConditionsTypeOK, CleanupMonitorConditions, RemoveCondition
  <2>3. monitor' \in [Owned -> {"on", "late", "off", "retired"}]
    BY <1>4 DEF ConditionsTypeOK, CleanupMonitorConditions
  <2> QED
    BY <1>4, <2>1, <2>2, <2>3 DEF ConditionsTypeOK, CleanupMonitorConditions
<1>5. CASE SendHeartbeat
  <2>1. updates' \in Contents
    BY <1>0, <1>5, ContentsClosed DEF ConditionsTypeOK, SendHeartbeat
  <2> QED
    BY <1>5, <2>1 DEF ConditionsTypeOK, SendHeartbeat, api
<1>6. CASE FlushRemovals
  <2>1. conditions' \in Contents /\ node' \in Contents
    <3>1. \A f \in Contents : \A ts : Without(f, ts) \in Contents
      BY DEF Contents, Without
    <3> QED
      BY <1>6, <3>1 DEF ConditionsTypeOK, FlushRemovals, RemoveNodeConditions
  <2>2. removals' \subseteq Ours
    BY <1>0, <1>6 DEF ConditionsTypeOK, FlushRemovals, ExpireStaleConditions
  <2>3. refreshed' \in [Owned -> Ages \cup {Untracked}]
    BY <1>6 DEF ConditionsTypeOK, FlushRemovals
  <2>4. faults' \in 0 .. MaxFaults
    BY <1>6 DEF ConditionsTypeOK, FlushRemovals, Answers
  <2> QED
    BY <1>6, <2>1, <2>2, <2>3, <2>4 DEF ConditionsTypeOK, FlushRemovals
<1>7. CASE FlushUpdates
  <2>1. node' \in Contents
    BY <1>7 DEF ConditionsTypeOK, FlushUpdates, PatchNodeConditions, Contents
  <2>2. conditions' \in Contents /\ updates' \in Contents
    BY <1>7 DEF ConditionsTypeOK, FlushUpdates, Contents, Nothing
  <2>3. faults' \in 0 .. MaxFaults
    BY <1>7 DEF ConditionsTypeOK, FlushUpdates, Answers
  <2> QED
    BY <1>7, <2>1, <2>2, <2>3 DEF ConditionsTypeOK, FlushUpdates
<1>8. CASE ResyncRead
  BY <1>8 DEF ConditionsTypeOK, ResyncRead, api, manager
<1>9. CASE ResyncApply
  <2>1. snapshot[1] \in Contents
    BY <1>9 DEF ConditionsTypeOK, ResyncApply
  <2> QED
    BY <1>9, <2>1 DEF ConditionsTypeOK, ResyncApply, api
<1>10. CASE Restart
  <2>1. PICK loads \in BOOLEAN : StartManager(loads)
    BY <1>10 DEF Restart
  <2>2. monitor' \in [Owned -> {"on", "late", "off", "retired"}]
    BY <1>10 DEF ConditionsTypeOK, Restart
  <2>3. restarts' \in 0 .. MaxRestarts
    BY <1>0, <1>10 DEF ConditionsTypeOK, Restart
  <2> QED
    BY <1>10, <2>1, <2>2, <2>3, StartManagerType DEF ConditionsTypeOK, Restart
<1>11. CASE Reload
  <2>1. PICK loads \in BOOLEAN : StartManager(loads)
    BY <1>11 DEF Reload
  <2>2. restarts' \in 0 .. MaxRestarts
    BY <1>0, <1>11 DEF ConditionsTypeOK, Reload
  <2> QED
    BY <1>11, <2>1, <2>2, StartManagerType DEF ConditionsTypeOK, Reload, api
<1>12. CASE Stop
  BY <1>12 DEF ConditionsTypeOK, Stop, api, manager
<1>13. CASE Tick
  <2>1. \A age \in Ages \cup {Untracked} : /\ Older(age) \in Ages \cup {Untracked}
                                           /\ age \in Ages => Older(age) \in Ages
    BY DEF Ages, Untracked, Older
  <2>2. refreshed' \in [Owned -> Ages \cup {Untracked}] /\ uptime' \in Ages
    BY <1>13, <2>1 DEF ConditionsTypeOK, Tick
  <2> QED
    BY <1>13, <2>2 DEF ConditionsTypeOK, Tick, api
<1>14. CASE UNCHANGED vars
  BY <1>14 DEF ConditionsTypeOK, vars, api, manager
<1> QED
  BY <1>1, <1>2, <1>3, <1>4, <1>5, <1>6, <1>7, <1>8, <1>9, <1>10, <1>11, <1>12, <1>13, <1>14
     DEF Next

(* What an earlier run left on the node has the right type too. *)
LEMMA InitTyped ==
    ASSUME Init
    PROVE  ConditionsTypeOK
<1> USE ConditionsAssumption
<1>1. node \in Contents /\ finding \in Contents
  BY DEF Init, Contents
<1>2. updates \in Contents /\ conditions \in Contents
  BY DEF Init, Contents
<1>3. removals \subseteq Ours
  BY DEF Init, Ours
<1>4. 0 \in Ages /\ 0 \in 0 .. MaxFlips /\ 0 \in 0 .. MaxFaults /\ 0 \in 0 .. MaxRestarts
  BY DEF Ages
<1>5. refreshed \in [Owned -> Ages \cup {Untracked}]
  BY <1>4 DEF Init
<1>6. monitor \in [Owned -> {"on", "late", "off", "retired"}]
  BY DEF Init
<1> QED
  BY <1>1, <1>2, <1>3, <1>4, <1>5, <1>6 DEF Init, ConditionsTypeOK

(* The condition cache, the pending updates and removals and the node      *)
(* object keep their types, and only conditions of ours are ever queued    *)
(* for removal (expireStaleConditions, RemoveCondition).                   *)
THEOREM ConditionsTyped == Spec => []ConditionsTypeOK
<1>1. Init => ConditionsTypeOK
  BY InitTyped
<1> QED
  BY <1>1, ConditionsTypeStep, PTL DEF Spec

----------------------------------------------------------------------------
(* No flush, restart or reload of ours changes a condition of another      *)
(* owner on the node.                                                      *)
LEMMA ForeignStep ==
    ASSUME ConditionsTypeOK, ForeignIntact, [Next]_vars
    PROVE  ForeignIntact'
<1>1. \A t \in Foreign : t \in Types /\ t \notin Ours /\ t \notin Owned
  BY ConditionsAssumption DEF Types, Ours
<1>2. CASE UNCHANGED <<node, finding>>
  BY <1>2 DEF ForeignIntact
<1>3. ASSUME NEW t \in Types, NEW v \in Values, Flip(t, v)
      PROVE  ForeignIntact'
  BY <1>1, <1>3 DEF Flip, ForeignIntact, ConditionsTypeOK, Contents
<1>4. ASSUME NEW t \in Types, NEW v \in Values, OwnerWrites(t, v)
      PROVE  ForeignIntact'
  BY <1>1, <1>4 DEF OwnerWrites, ForeignIntact, ConditionsTypeOK, Contents
<1>5. CASE FlushRemovals
  <2>1. node' = node \/ \E ts : node' = Without(node, ts \cap Ours)
    BY <1>5 DEF FlushRemovals, RemoveNodeConditions
  <2>2. \A t \in Foreign : node'[t] = node[t]
    BY <1>1, <2>1 DEF Without
  <2> QED
    BY <1>5, <2>2 DEF FlushRemovals, ForeignIntact
<1>6. CASE FlushUpdates
  <2>1. node' = node \/ node' = PatchNodeConditions
    BY <1>6 DEF FlushUpdates
  <2>2. \A t \in Foreign : node'[t] = node[t]
    BY <1>1, <2>1 DEF PatchNodeConditions
  <2> QED
    BY <1>6, <2>2 DEF FlushUpdates, ForeignIntact
<1>7. \/ UNCHANGED <<node, finding>>
      \/ \E t \in Types, v \in Values : Flip(t, v) \/ OwnerWrites(t, v)
      \/ FlushRemovals \/ FlushUpdates
  BY DEF Next, vars, api, UpdateCondition, CleanupMonitorConditions, SendHeartbeat, ResyncRead,
         ResyncApply, Restart, Reload, Stop, Tick
<1> QED
  BY <1>2, <1>3, <1>4, <1>5, <1>6, <1>7

(* The ownership guards of flushPendingUpdates and RemoveNodeConditions    *)
(* suffice: with any custom conditions, stale caches, lost answers,        *)
(* restarts and reloads, what other owners wrote stays on the node.        *)
THEOREM OthersIntact == Spec => []ForeignIntact
<1>1. Init => ConditionsTypeOK /\ ForeignIntact
  BY InitTyped DEF Init, ForeignIntact
<1>2. ConditionsTypeOK /\ ForeignIntact /\ [Next]_vars => ConditionsTypeOK' /\ ForeignIntact'
  BY ConditionsTypeStep, ForeignStep
<1> QED
  BY <1>1, <1>2, PTL DEF Spec
=============================================================================
