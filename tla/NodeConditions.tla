--------------------------- MODULE NodeConditions ---------------------------
(***************************************************************************)
(* The Kubernetes exporter's condition manager                             *)
(* (pkg/exporters/kubernetes/condition_manager.go) against the node object *)
(* of the API server (client.go), with the exporter's start, stop and      *)
(* reload (exporter.go) and the clean-up of a removed monitor's conditions *)
(* (cleanupMonitorConditions in pkg/detector/detector.go).                 *)
(*                                                                         *)
(* The update loop holds the manager's lock over both of its API calls;    *)
(* the resync loop reads the node without it and takes it only to replace  *)
(* the cache.  A condition is its type and one value standing for status,  *)
(* reason and message, which is what conditionsEqual compares.             *)
(***************************************************************************)
EXTENDS Integers, Sequences, FiniteSets

CONSTANTS
    Owned,       \* NodeDoctor* types that monitors emit
    Foreign,     \* types other controllers own: Ready, MemoryPressure, ...
    Heartbeat,   \* NodeDoctorHealthy
    Custom,      \* types of config.Conditions, whose prefix nobody checks
    Values,      \* what a condition may say
    Default,     \* the value of a custom or heartbeat condition
    StaleTTL,    \* conditionStaleTTL
    MaxFlips,    \* bound on changes of what monitors and other owners find
    MaxFaults,   \* bound on API calls that fail
    MaxRestarts  \* bound on restarts of the agent and reloads of the exporter

Types == Owned \cup Foreign \cup {Heartbeat}
Ours  == Owned \cup {Heartbeat}

ASSUME ConditionsAssumption ==
    /\ Owned \cap Foreign = {} /\ Heartbeat \notin Owned \cup Foreign
    /\ Custom \subseteq Owned \cup Foreign
    /\ Default \in Values
    /\ {StaleTTL, MaxFlips, MaxFaults, MaxRestarts} \subseteq Nat

Absent == "absent"
Untracked == -1

VARIABLES
    node,        \* the conditions of the node object
    finding,     \* what each monitor finds, and what each other owner wrote
    monitor,     \* per owned type: "on", "late" (stopped, a status still queued), "off",
                 \* or "retired": the DNS monitor no longer writes it (retiredDNSConditionTypes)
    conditions,  \* cm.conditions
    updates,     \* cm.pendingUpdates
    removals,    \* cm.pendingRemovals
    refreshed,   \* per owned type: time since cm.lastRefreshed, Untracked where there is none
    uptime,      \* time since cm.startTime
    snapshot,    \* the node performResync has read: a sequence of at most one
    flushing,    \* flushPendingUpdates has made its removals, cm.mu is held
    phase,       \* of the exporter: "running", "orphaned" (its loops have ended), "stopped"
    flips, faults, restarts

api     == <<node, finding, monitor, flips>>
manager == <<conditions, updates, removals, refreshed, uptime>>
vars == <<api, manager, snapshot, flushing, phase, faults, restarts>>

Ages == 0 .. StaleTTL + 1
Contents == [Types -> Values \cup {Absent}]
Nothing == [t \in Types |-> Absent]

ConditionsTypeOK ==
    /\ {node, finding, conditions, updates} \subseteq Contents
    /\ monitor \in [Owned -> {"on", "late", "off", "retired"}]
    /\ removals \subseteq Ours
    /\ refreshed \in [Owned -> Ages \cup {Untracked}] /\ uptime \in Ages
    /\ snapshot \in {<<>>} \cup {<<c>> : c \in Contents}
    /\ flushing \in BOOLEAN
    /\ phase \in {"running", "orphaned", "stopped"}
    /\ flips \in 0 .. MaxFlips /\ faults \in 0 .. MaxFaults /\ restarts \in 0 .. MaxRestarts

----------------------------------------------------------------------------
(* ConditionManager.Start on a new manager, then AddCustomConditions: the  *)
(* initial sync loads the node or fails, retired conditions are scheduled  *)
(* for removal, custom ones are queued with their defaults.                *)
StartManager(loads) ==
    LET retired == {t \in Owned : loads /\ monitor[t] = "retired" /\ node[t] # Absent}
    IN  /\ conditions' = [t \in Types |-> IF loads /\ t \notin retired THEN node[t] ELSE Absent]
        /\ removals' = retired
        /\ updates' = [t \in Types |-> IF t \in Custom THEN Default ELSE Absent]
        /\ refreshed' = [t \in Owned |-> IF t \in Custom THEN 0 ELSE Untracked]
        /\ uptime' = 0
        /\ snapshot' = <<>> /\ flushing' = FALSE

(* The node may hold what an earlier run of the agent left behind; the     *)
(* manager has started and its initial sync has loaded that.               *)
Init ==
    /\ finding = [t \in Types |-> Default]
    /\ node \in [Types -> Values \cup {Absent}]
    /\ \A t \in Foreign \cup {Heartbeat} : node[t] = finding[t]
    /\ monitor \in [Owned -> {"on", "retired"}]
    /\ \A t \in Custom \cap Owned : monitor[t] = "on"
    /\ LET retired == {t \in Owned : monitor[t] = "retired" /\ node[t] # Absent}
       IN  /\ conditions = [t \in Types |-> IF t \in retired THEN Absent ELSE node[t]]
           /\ removals = retired
    /\ updates = [t \in Types |-> IF t \in Custom THEN Default ELSE Absent]
    /\ refreshed = [t \in Owned |-> IF t \in Custom THEN 0 ELSE Untracked]
    /\ uptime = 0
    /\ snapshot = <<>> /\ flushing = FALSE /\ phase = "running"
    /\ flips = 0 /\ faults = 0 /\ restarts = 0

(* An API call goes through; fails; or goes through and its answer is lost.*)
Outcomes == {"ok", "error", "lost"}
Answers(o) ==
    \/ o = "ok" /\ UNCHANGED faults
    \/ o # "ok" /\ faults < MaxFaults /\ faults' = faults + 1

----------------------------------------------------------------------------
(* A monitor begins to find something else. *)
Flip(t, v) ==
    /\ t \in Owned /\ monitor[t] = "on" /\ v # finding[t]
    /\ flips < MaxFlips /\ flips' = flips + 1
    /\ finding' = [finding EXCEPT ![t] = v]
    /\ UNCHANGED <<node, monitor, manager, snapshot, flushing, phase, faults, restarts>>

(* Kubelet or the control plane writes a condition of its own. *)
OwnerWrites(t, v) ==
    /\ t \in Foreign /\ v # finding[t]
    /\ flips < MaxFlips /\ flips' = flips + 1
    /\ finding' = [finding EXCEPT ![t] = v]
    /\ node' = [node EXCEPT ![t] = v]
    /\ UNCHANGED <<monitor, manager, snapshot, flushing, phase, faults, restarts>>

MutComparesPresence(t) ==
    /\ phase # "stopped" /\ ~flushing
    /\ monitor[t] \in {"on", "late"}
    /\ updates' = IF conditions[t] # Absent THEN updates
                  ELSE [updates EXCEPT ![t] = finding[t]]
    /\ refreshed' = [refreshed EXCEPT ![t] = 0]
    /\ monitor' = [monitor EXCEPT ![t] = IF @ = "late" THEN "off" ELSE @]
    /\ UNCHANGED <<node, finding, flips, conditions, removals, uptime, snapshot, flushing,
                   phase, faults, restarts>>

(* UpdateCondition for what the monitor finds: unchanged from the cache,   *)
(* it only counts as refreshed; else it is queued.                         *)
UpdateCondition(t) ==
    /\ phase # "stopped" /\ ~flushing
    /\ monitor[t] \in {"on", "late"}
    /\ updates' = IF conditions[t] = finding[t] THEN updates
                  ELSE [updates EXCEPT ![t] = finding[t]]
    /\ refreshed' = [refreshed EXCEPT ![t] = 0]
    /\ monitor' = [monitor EXCEPT ![t] = IF @ = "late" THEN "off" ELSE @]
    /\ UNCHANGED <<node, finding, flips, conditions, removals, uptime, snapshot, flushing,
                   phase, faults, restarts>>

(* RemoveCondition, called for the mapped types of a removed monitor. *)
RemoveCondition(t) ==
    /\ removals' = removals \cup {t}
    /\ conditions' = [conditions EXCEPT ![t] = Absent]
    /\ updates' = [updates EXCEPT ![t] = Absent]

(* A monitor is removed; types without an entry in conditionMap are left.  *)
CleanupMonitorConditions(t) ==
    /\ phase # "stopped" /\ ~flushing
    /\ monitor[t] = "on"
    /\ monitor' = [monitor EXCEPT ![t] = "late"]
    /\ RemoveCondition(t) \/ UNCHANGED <<removals, conditions, updates>>
    /\ UNCHANGED <<node, finding, flips, refreshed, uptime, snapshot, flushing, phase,
                   faults, restarts>>

(* sendHeartbeat *)
SendHeartbeat ==
    /\ phase = "running" /\ ~flushing
    /\ updates' = [updates EXCEPT ![Heartbeat] = Default]
    /\ UNCHANGED <<api, conditions, removals, refreshed, uptime, snapshot, flushing, phase, faults,
                   restarts>>

MutExpiresFromCacheOnly == {t \in Owned : conditions[t] # Absent /\ refreshed[t] > StaleTTL}

(* expireStaleConditions: conditions of ours, the heartbeat excepted, not  *)
(* refreshed for longer than the TTL, counted from the start of the        *)
(* manager for those never refreshed.                                      *)
ExpireStaleConditions ==
    {t \in Owned : /\ conditions[t] # Absent
                   /\ (IF refreshed[t] = Untracked THEN uptime ELSE refreshed[t]) > StaleTTL}

Without(f, ts) == [t \in Types |-> IF t \in ts THEN Absent ELSE f[t]]

(* RemoveNodeConditions removes what is ours and nothing else. *)
RemoveNodeConditions(ts) == node' = Without(node, ts \cap Ours)

(* flushPendingUpdates up to the patch. *)
FlushRemovals ==
    /\ phase = "running" /\ ~flushing
    /\ LET expired == ExpireStaleConditions
           due == removals \cup expired
       IN  /\ conditions' = Without(conditions, expired)
           /\ refreshed' = [t \in Owned |-> IF t \in expired THEN Untracked ELSE refreshed[t]]
           /\ \E o \in IF due = {} THEN {"ok"} ELSE Outcomes :
                /\ Answers(o)
                /\ IF o = "error" THEN UNCHANGED node ELSE RemoveNodeConditions(due)
                /\ removals' = IF o = "ok" THEN {} ELSE due
    /\ flushing' = (updates # Nothing)
    /\ UNCHANGED <<finding, monitor, flips, updates, uptime, snapshot, phase, restarts>>

MutPatchEverything ==
    [t \in Types |-> IF updates[t] # Absent THEN updates[t]
                     ELSE IF conditions[t] # Absent THEN conditions[t] ELSE node[t]]

(* PatchNodeConditions: the conditions of ours, pending ones over cached. *)
PatchNodeConditions ==
    [t \in Types |-> IF t \notin Ours THEN node[t]
                     ELSE IF updates[t] # Absent THEN updates[t]
                     ELSE IF conditions[t] # Absent THEN conditions[t] ELSE node[t]]

(* flushPendingUpdates from the patch on: the pending updates move to the  *)
(* cache when it succeeds, refused ones too.                               *)
FlushUpdates ==
    /\ flushing /\ flushing' = FALSE
    /\ \E o \in Outcomes :
         /\ Answers(o)
         /\ node' = IF o = "error" THEN node ELSE PatchNodeConditions
         /\ IF o = "ok"
            THEN /\ conditions' = [t \in Types |-> IF updates[t] # Absent THEN updates[t]
                                                   ELSE conditions[t]]
                 /\ updates' = Nothing
            ELSE UNCHANGED <<conditions, updates>>
    /\ UNCHANGED <<finding, monitor, flips, removals, refreshed, uptime, snapshot, phase,
                   restarts>>

(* performResync reads the node ... *)
ResyncRead ==
    /\ phase = "running" /\ snapshot = <<>>
    /\ snapshot' = <<node>>
    /\ UNCHANGED <<api, manager, flushing, phase, faults, restarts>>

(* ... and later replaces the cache by what it has read. *)
ResyncApply ==
    /\ snapshot # <<>> /\ ~flushing
    /\ conditions' = snapshot[1]
    /\ snapshot' = <<>>
    /\ UNCHANGED <<api, updates, removals, refreshed, uptime, flushing, phase, faults,
                   restarts>>

(* The agent ends and starts again. *)
Restart ==
    /\ restarts < MaxRestarts /\ restarts' = restarts + 1
    /\ \E loads \in BOOLEAN : StartManager(loads)
    /\ monitor' = [t \in Owned |-> IF monitor[t] = "late" THEN "off" ELSE monitor[t]]
    /\ phase' = "running"
    /\ UNCHANGED <<node, finding, flips, faults>>

(* KubernetesExporter.Reload with new intervals or limits: new managers,   *)
(* started under a context that is cancelled when Reload returns, which    *)
(* ends their loops.                                                       *)
Reload ==
    /\ phase # "stopped" /\ ~flushing
    /\ restarts < MaxRestarts /\ restarts' = restarts + 1
    /\ \E loads \in BOOLEAN : StartManager(loads)
    /\ phase' = "orphaned"
    /\ UNCHANGED <<api, faults>>

(* KubernetesExporter.Stop waits for the loops; nothing is flushed. *)
Stop ==
    /\ phase # "stopped" /\ ~flushing /\ snapshot = <<>>
    /\ phase' = "stopped"
    /\ UNCHANGED <<api, manager, snapshot, flushing, faults, restarts>>

Older(age) == IF age \in 0 .. StaleTTL THEN age + 1 ELSE age

Tick ==
    /\ refreshed' = [t \in Owned |-> Older(refreshed[t])]
    /\ uptime' = Older(uptime)
    /\ UNCHANGED <<api, conditions, updates, removals, snapshot, flushing, phase, faults,
                   restarts>>

Next ==
    \/ \E t \in Types, v \in Values : Flip(t, v) \/ OwnerWrites(t, v)
    \/ \E t \in Owned : UpdateCondition(t) \/ CleanupMonitorConditions(t)
    \/ SendHeartbeat \/ FlushRemovals \/ FlushUpdates \/ ResyncRead \/ ResyncApply
    \/ Restart \/ Reload \/ Stop \/ Tick

Spec == Init /\ [][Next]_vars

(* Time passes, the loops run on their tickers, monitors go on reporting,  *)
(* nobody waits for cm.mu for ever (a Go mutex is handed to a waiter that  *)
(* starves), and API calls fail only so often (MaxFaults).                 *)
FairSpec ==
    /\ Spec
    /\ WF_vars(Tick) /\ SF_vars(SendHeartbeat)
    /\ SF_vars(FlushRemovals) /\ WF_vars(FlushUpdates)
    /\ WF_vars(ResyncRead) /\ SF_vars(ResyncApply)
    /\ \A t \in Owned : SF_vars(monitor[t] = "on" /\ UpdateCondition(t))

----------------------------------------------------------------------------
(* The conditions of other owners are on the node as they last wrote them, *)
(* although the cache holds old copies of them and a custom condition may  *)
(* have their type (the ownership guards of flushPendingUpdates and        *)
(* RemoveNodeConditions).                                                  *)
ForeignIntact == \A t \in Foreign : node[t] = finding[t]

(* What a monitor keeps reporting is shown on the node, again and again if *)
(* not all the time: no failed call, lost answer, cache replaced by an old *)
(* read or skipped update hides it for good (UpdateCondition,              *)
(* flushPendingUpdates and performResync together).                        *)
SteadyShown ==
    \A t \in Owned :
        <>[](monitor[t] = "on" /\ phase = "running") => []<>(node[t] = finding[t])

(* A condition that no monitor reports any more leaves the node and does   *)
(* not come back, whatever the cache, a pending update or a late status    *)
(* still say (expireStaleConditions).                                      *)
StaleGoes ==
    \A t \in Owned :
        <>[](monitor[t] \in {"off", "retired"} /\ phase = "running") => <>[](node[t] = Absent)

(* The managers are restarted by a reload of a running exporter, so what   *)
(* monitors keep reporting is shown as long as the exporter is not stopped.*)
ReloadedStillExports ==
    \A t \in Owned :
        <>[](monitor[t] = "on" /\ phase # "stopped") => []<>(node[t] = finding[t])
=============================================================================
