---------------------------- MODULE ConfigReload ----------------------------
(***************************************************************************)
(* Configuration hot reload: the file watcher (pkg/reload/watcher.go), the *)
(* coordinator (pkg/reload/coordinator.go, diff.go) and the detector's     *)
(* apply step (applyConfigReload in pkg/detector/detector.go), with the    *)
(* detector's Stop running against them.                                   *)
(*                                                                         *)
(* One goroutine, watchConfigChanges, runs the reloads, so they do not     *)
(* overlap; edits of the file, the debounce timer and Stop interleave with *)
(* its steps.  Stop holds pd.mu until it has closed the status channel, so *)
(* the steps of a reload that need pd.mu wait for it; reload events are    *)
(* sent on that channel without any lock.                                  *)
(*                                                                         *)
(* A configuration is reduced to what ComputeConfigDiff compares: per      *)
(* monitor a setting (its type, interval, timeout, config map and enabled  *)
(* flag), and the settings of each exporter's block and of remediation's.  *)
(* An exporter is built, and an executor of remediations is wired, when    *)
(* the agent starts, if its block is turned on then; a reload that turns   *)
(* one on later has nothing to give the settings to.                       *)
(***************************************************************************)
EXTENDS Integers, Sequences, FiniteSets, FiniteSetsExt, SequencesExt

CONSTANTS
    Names,           \* monitor names
    Settings,        \* what a monitor's entry may say
    Kinds,           \* kinds of exporters
    BlockSettings,   \* what the block of an exporter or of remediation may say
    EnabledBlocks,   \* those of them that turn it on
    Absent,          \* the one of a block that is not there
    FileContents,    \* contents the configuration file may have
    InitialConfigs,  \* those the agent may have started with
    MaxWrites,       \* bound on edits of the file
    MaxSkipped,      \* bound on monitors and exporters that do not start with the agent
    MaxFaults        \* bound on operations of reloads that fail

FileConfig == [valid : BOOLEAN, monitors : UNION {[s -> Settings] : s \in SUBSET Names},
               exporters : [Kinds -> BlockSettings], remediation : BlockSettings \ {Absent}]

ASSUME ReloadAssumption ==
    /\ IsFiniteSet(Names)
    /\ EnabledBlocks \subseteq BlockSettings \ {Absent} /\ "remediation" \notin Kinds
    /\ FileContents \subseteq FileConfig
    /\ InitialConfigs \subseteq {c \in FileContents : c.valid}
    /\ MaxWrites \in Nat /\ MaxSkipped \in Nat /\ MaxFaults \in Nat

VARIABLES
    file,       \* the file's contents
    writes,     \* edits so far
    timer,      \* the debounce timer is armed
    changeCh,   \* the buffered change channel holds its one token
    current,    \* ReloadCoordinator.currentConfig
    config,     \* pd.config
    handles,    \* pd.monitorHandles: running monitors, in order
    index,      \* pd.monitorConfigIndex
    exporters,  \* pd.exporters: of every exporter built, the block it runs with
    executor,   \* pd.remediatorRegistry: "none", the reconfigurable "registry", or "fixed"
    registry,   \* the settings the remediator registry runs with
    watcher,    \* watchConfigChanges: "idle", "load", "guard", "apply", "exited"
    new,        \* the configuration being applied
    steps,      \* steps of applyConfigReload left: <<operation, monitor>>
    critical,   \* criticalErrors is not empty
    phase,      \* of the detector: "running", "stopping", "stopped", "panicked"
    faults,     \* operations that failed so far
    loaded,     \* history: the configuration read last
    told,       \* history: what reloads were reported to need a restart for
    disturbed,  \* history: a reload failed, or a monitor or exporter did not start
    outcome     \* history: how the last reload ended

apply  == <<handles, index, exporters, executor, registry>>
reload == <<watcher, new, steps, critical>>
reloadVars == <<file, writes, timer, changeCh, current, config, apply, reload, phase,
          faults, loaded, told, disturbed, outcome>>

NoName == "none"
Operations == <<"remove", "modify", "add", "exporters", "remediation">>
Stage(op) == CHOOSE i \in DOMAIN Operations : Operations[i] = op
Outcomes == {"none", "rejected", "nochange", "failed", "succeeded"}
Handle == [name : Names, setting : Settings]

ReloadTypeOK ==
    /\ {file, current, config, new, loaded} \subseteq FileContents
    /\ writes \in 0 .. MaxWrites /\ faults \in 0 .. MaxFaults
    /\ {timer, changeCh, critical, disturbed} \subseteq BOOLEAN
    /\ handles \in Seq(Handle)
    /\ DOMAIN index \subseteq {h.name : h \in ToSet(handles)}
    /\ DOMAIN exporters \subseteq Kinds
    /\ {exporters[e] : e \in DOMAIN exporters} \cup {registry} \subseteq BlockSettings
    /\ executor \in {"none", "fixed", "registry"}
    /\ told \subseteq Kinds \cup {"remediation"}
    /\ watcher \in {"idle", "load", "guard", "apply", "exited"}
    /\ steps \subseteq ToSet(Operations) \X (Names \cup {NoName})
    /\ watcher # "apply" => steps = {}
    /\ phase \in {"running", "stopping", "stopped", "panicked"}
    /\ outcome \in Outcomes

----------------------------------------------------------------------------
NewHandle(c, m) == [name |-> m, setting |-> c.monitors[m]]

EnabledExporters(c) == {e \in Kinds : c.exporters[e] \in EnabledBlocks}

(* ProblemDetector.Start: every monitor of the configuration, enabled or   *)
(* not; one that cannot be created or started is skipped.  Before it, main *)
(* builds the exporters that are turned on, without those that fail, and   *)
(* wires an executor if remediation is.                                    *)
StartParts(c) ==
    /\ \E skipped \in SUBSET DOMAIN c.monitors, unbuilt \in SUBSET EnabledExporters(c) :
         LET running == DOMAIN c.monitors \ skipped
         IN  /\ Cardinality(skipped) + Cardinality(unbuilt) <= MaxSkipped
             /\ disturbed = (skipped # {} \/ unbuilt # {})
             /\ handles = SetToSeq({NewHandle(c, m) : m \in running})
             /\ index = [m \in running |-> c.monitors[m]]
             /\ exporters = [e \in EnabledExporters(c) \ unbuilt |-> c.exporters[e]]
    /\ executor \in (IF c.remediation \in EnabledBlocks THEN {"registry", "fixed"} ELSE {"none"})
    /\ registry = c.remediation

ReloadInit ==
    /\ \E c \in InitialConfigs :
         /\ file = c /\ current = c /\ config = c /\ new = c /\ loaded = c
         /\ StartParts(c)
    /\ writes = 0 /\ timer = FALSE /\ changeCh = FALSE
    /\ watcher = "idle" /\ steps = {} /\ critical = FALSE
    /\ phase = "running" /\ faults = 0 /\ told = {} /\ outcome = "none"

(* The file is edited: the watcher, while it runs, (re)starts its timer. *)
WriteConfig(c) ==
    /\ writes < MaxWrites
    /\ c # file
    /\ file' = c
    /\ writes' = writes + 1
    /\ timer' = (phase = "running")
    /\ UNCHANGED <<changeCh, current, config, apply, reload, phase, faults, loaded, told,
                   disturbed, outcome>>

MutUnbufferedChange ==
    /\ timer /\ timer' = FALSE
    /\ changeCh' = (changeCh \/ watcher = "idle")
    /\ UNCHANGED <<file, writes, current, config, apply, reload, phase, faults, loaded, told,
                   disturbed, outcome>>

(* processEvents: the timer fires; a token already pending stands for it. *)
DebounceFires ==
    /\ timer /\ timer' = FALSE
    /\ changeCh' = TRUE
    /\ UNCHANGED <<file, writes, current, config, apply, reload, phase, faults, loaded, told,
                   disturbed, outcome>>

(* emitReloadEvent: a send on the status channel; it is dropped when the   *)
(* channel is full and panics when the channel is closed.                  *)
EmitReloadEvent == phase' = IF phase = "stopped" THEN "panicked" ELSE phase

(* watchConfigChanges receives and TriggerReload begins. *)
TriggerReload ==
    /\ watcher = "idle" /\ changeCh
    /\ changeCh' = FALSE
    /\ watcher' = "load"
    /\ EmitReloadEvent
    /\ UNCHANGED <<file, writes, timer, current, config, apply, new, steps, critical,
                   faults, loaded, told, disturbed, outcome>>

(* ComputeConfigDiff, as the steps applyConfigReload makes of it. *)
ComputeConfigDiff(old, c) ==
    LET was == DOMAIN old.monitors
        is  == DOMAIN c.monitors
    IN  {<<"remove", m>> : m \in was \ is}
        \cup {<<"modify", m>> : m \in {k \in was \cap is : old.monitors[k] # c.monitors[k]}}
        \cup {<<"add", m>> : m \in is \ was}
        \cup (IF old.exporters # c.exporters THEN {<<"exporters", NoName>>} ELSE {})
        \cup (IF old.remediation # c.remediation THEN {<<"remediation", NoName>>} ELSE {})

(* ClassifyReload: what c turns on that the configuration before it did    *)
(* not have on.                                                            *)
RestartRequired(old, c) ==
    (EnabledExporters(c) \ EnabledExporters(old))
    \cup {p \in {"remediation"} : old.remediation \notin EnabledBlocks /\ c.remediation \in EnabledBlocks}

(* performReload up to the callback: load, normalize, validate, diff, and  *)
(* the report of what needs a restart.  No difference: the coordinator     *)
(* adopts the configuration, nothing else.                                 *)
PerformReload ==
    /\ watcher = "load"
    /\ loaded' = file
    /\ told' = IF file.valid THEN told \cup RestartRequired(current, file) ELSE told
    /\ LET changes == ComputeConfigDiff(current, file) # {}
       IN  /\ watcher' = IF file.valid /\ changes THEN "guard" ELSE "idle"
           /\ new' = IF file.valid THEN file ELSE new
           /\ current' = IF file.valid /\ ~changes THEN file ELSE current
           /\ outcome' = CASE ~file.valid -> "rejected"
                           [] file.valid /\ ~changes -> "nochange"
                           [] OTHER -> outcome
    /\ EmitReloadEvent
    /\ UNCHANGED <<file, writes, timer, changeCh, config, apply, steps, critical,
                   faults, disturbed>>

(* handleConfigReload takes pd.mu to see whether the detector runs.  If it *)
(* does not, nothing is applied and the coordinator sees a success.        *)
HandleConfigReload ==
    /\ watcher = "guard"
    /\ phase # "stopping"
    /\ IF phase = "running"
       THEN /\ watcher' = "apply"
            /\ steps' = ComputeConfigDiff(current, new)
            /\ critical' = FALSE
            /\ UNCHANGED <<current, phase, outcome>>
       ELSE /\ watcher' = "idle"
            /\ current' = new
            /\ outcome' = "succeeded"
            /\ EmitReloadEvent
            /\ UNCHANGED <<steps, critical>>
    /\ UNCHANGED <<file, writes, timer, changeCh, config, apply, new, faults,
                   loaded, told, disturbed>>

----------------------------------------------------------------------------
(* The first handle of that name, 0 when there is none. *)
HandleOf(m) ==
    LET found == {i \in DOMAIN handles : handles[i].name = m}
    IN  IF found = {} THEN 0 ELSE Min(found)

(* stopMonitorByName: the handle leaves the list before it is stopped, so  *)
(* it is gone even when Stop times out.                                    *)
Without(m) == IF HandleOf(m) = 0 THEN handles ELSE RemoveAt(handles, HandleOf(m))
IndexWithout(m) ==
    IF HandleOf(m) = 0 THEN index
    ELSE [k \in DOMAIN index \ {m} |-> index[k]]
IndexWith(f, m) == [k \in DOMAIN f \cup {m} |-> IF k = m THEN new.monitors[m] ELSE f[k]]

(* applyConfigReload takes its steps stage by stage. *)
Doing(op, m) ==
    /\ watcher = "apply"
    /\ <<op, m>> \in steps
    /\ \A t \in steps : Stage(t[1]) >= Stage(op)
    /\ steps' = steps \ {<<op, m>>}
    /\ UNCHANGED <<file, writes, timer, changeCh, current, config, watcher, new, phase,
                   loaded, told, disturbed, outcome>>

(* An operation comes back without error, or with one. *)
Works == UNCHANGED faults
Fails == faults < MaxFaults /\ faults' = faults + 1

MutRemoveKeepsHandle(m) ==
    /\ Doing("remove", m)
    /\ Works
    /\ UNCHANGED <<apply, critical>>

(* Step 1: no error of stopping a removed monitor is critical. *)
StopRemoved(m) ==
    /\ Doing("remove", m)
    /\ handles' = Without(m) /\ index' = IndexWithout(m)
    /\ Works \/ (HandleOf(m) # 0 /\ Fails)
    /\ UNCHANGED <<exporters, executor, registry, critical>>

MutFailFast(m) ==
    /\ watcher = "apply" /\ <<"modify", m>> \in steps
    /\ \A t \in steps : Stage(t[1]) >= Stage("modify")
    /\ \/ /\ HandleOf(m) # 0 /\ Works
          /\ steps' = steps \ {<<"modify", m>>}
          /\ handles' = Append(Without(m), NewHandle(new, m))
          /\ index' = IndexWith(index, m)
          /\ UNCHANGED critical
       \/ /\ HandleOf(m) # 0 /\ Fails
          /\ steps' = {} /\ critical' = TRUE
          /\ handles' = Without(m) /\ index' = IndexWithout(m)
    /\ UNCHANGED <<file, writes, timer, changeCh, current, config, watcher, new, phase,
                   loaded, told, disturbed, outcome, exporters, executor, registry>>

(* Step 2: stop (not found or a timeout is critical), create, start. *)
RestartModified(m) ==
    /\ Doing("modify", m)
    /\ \/ /\ HandleOf(m) = 0 /\ Works
          /\ critical' = TRUE
          /\ UNCHANGED <<handles, index>>
       \/ /\ HandleOf(m) # 0 /\ Works
          /\ handles' = Append(Without(m), NewHandle(new, m))
          /\ index' = IndexWith(index, m)
          /\ UNCHANGED critical
       \/ /\ HandleOf(m) # 0 /\ Fails
          /\ critical' = TRUE
          /\ handles' = Without(m) /\ index' = IndexWithout(m)
    /\ UNCHANGED <<exporters, executor, registry>>

(* Step 3: create and start; a failure is critical, the others go on. *)
StartAdded(m) ==
    /\ Doing("add", m)
    /\ \/ /\ Works
          /\ handles' = Append(handles, NewHandle(new, m))
          /\ index' = IndexWith(index, m)
          /\ UNCHANGED critical
       \/ /\ Fails
          /\ critical' = TRUE
          /\ UNCHANGED <<handles, index>>
    /\ UNCHANGED <<exporters, executor, registry>>

(* Step 4: every exporter there is gets its block of the new               *)
(* configuration.  A Reload that fails is critical, as is a block that is  *)
(* gone, and the exporter keeps what it had; the others are reloaded.  One *)
(* that was not built is not there to be reloaded.                         *)
ReloadExporters ==
    /\ Doing("exporters", NoName)
    /\ LET gone == {e \in DOMAIN exporters : new.exporters[e] = Absent}
       IN  \E failed \in SUBSET DOMAIN exporters :
             /\ gone \subseteq failed
             /\ faults' = faults + Cardinality(failed \ gone) /\ faults' <= MaxFaults
             /\ exporters' = [e \in DOMAIN exporters |->
                                IF e \in failed THEN exporters[e] ELSE new.exporters[e]]
             /\ critical' = (critical \/ failed # {})
    /\ UNCHANGED <<handles, index, executor, registry>>

(* Step 4b: needs pd.mu.  Without an executor, or with one that cannot be  *)
(* reconfigured, a warning is logged and the reload goes on; ApplyConfig   *)
(* of the registry fails for no configuration that got this far.           *)
ApplyRemediation ==
    /\ phase # "stopping"
    /\ Doing("remediation", NoName)
    /\ Works
    /\ registry' = IF executor = "registry" THEN new.remediation ELSE registry
    /\ UNCHANGED <<handles, index, exporters, executor, critical>>

(* Step 5 with a critical error: the new configuration is not committed    *)
(* by the detector nor by the coordinator.                                 *)
ReloadPartialFailure ==
    /\ watcher = "apply" /\ steps = {} /\ critical
    /\ watcher' = "idle" /\ critical' = FALSE
    /\ outcome' = "failed" /\ disturbed' = TRUE
    /\ EmitReloadEvent
    /\ UNCHANGED <<file, writes, timer, changeCh, current, config, apply, new, steps,
                   faults, loaded, told>>

(* Step 5 without: pd.config under pd.mu, then the coordinator's copy. *)
Commit ==
    /\ watcher = "apply" /\ steps = {} /\ ~critical
    /\ phase # "stopping"
    /\ watcher' = "idle"
    /\ config' = new /\ current' = new
    /\ outcome' = "succeeded"
    /\ EmitReloadEvent
    /\ UNCHANGED <<file, writes, timer, changeCh, apply, new, steps, critical,
                   faults, loaded, told, disturbed>>

----------------------------------------------------------------------------
(* Stop takes pd.mu and stops the watcher, then the monitors. *)
BeginStop ==
    /\ phase = "running"
    /\ phase' = "stopping"
    /\ timer' = FALSE
    /\ UNCHANGED <<file, writes, changeCh, current, config, apply, reload, faults, loaded, told,
                   disturbed, outcome>>

(* The context is cancelled, the status channel closed, pd.mu released. *)
CloseStatusChan ==
    /\ phase = "stopping"
    /\ phase' = "stopped"
    /\ UNCHANGED <<file, writes, timer, changeCh, current, config, apply, reload, faults,
                   loaded, told, disturbed, outcome>>

(* watchConfigChanges sees the cancelled context or the closed channel. *)
WatcherExits ==
    /\ watcher = "idle"
    /\ phase = "stopped" \/ (phase = "stopping" /\ ~changeCh)
    /\ watcher' = "exited"
    /\ UNCHANGED <<file, writes, timer, changeCh, current, config, apply, new, steps,
                   critical, phase, faults, loaded, told, disturbed, outcome>>

ReloadStep ==
    \/ TriggerReload \/ PerformReload \/ HandleConfigReload
    \/ \E m \in Names : StopRemoved(m) \/ RestartModified(m) \/ StartAdded(m)
    \/ ReloadExporters \/ ApplyRemediation \/ ReloadPartialFailure \/ Commit

ReloadNext ==
    /\ phase # "panicked"
    /\ \/ \E c \in FileContents : WriteConfig(c)
       \/ DebounceFires
       \/ ReloadStep
       \/ BeginStop \/ CloseStatusChan \/ WatcherExits

ReloadSpec == ReloadInit /\ [][ReloadNext]_reloadVars

----------------------------------------------------------------------------
(* What c turns on and the agent was built without, a reload reported to   *)
(* need a restart.                                                         *)
Announced(c) ==
    /\ EnabledExporters(c) \subseteq DOMAIN exporters \cup told
    /\ (executor = "none" /\ c.remediation \in EnabledBlocks) => "remediation" \in told

(* What there is runs with the settings of c.  An executor that cannot be  *)
(* reconfigured is outside of this.                                        *)
ExportersAsIn(c) == exporters = [e \in DOMAIN exporters |-> c.exporters[e]]
RegistryAsIn(c)  == executor = "registry" => registry = c.remediation

(* What runs is what configuration c says: every monitor once and with its *)
(* setting, no other, every exporter that was built and the registry with  *)
(* theirs; what else c asks for was reported.                              *)
Runs(c) ==
    /\ ToSet(handles) = {NewHandle(c, m) : m \in DOMAIN c.monitors}
    /\ Len(handles) = Cardinality(DOMAIN c.monitors)
    /\ index = c.monitors
    /\ ExportersAsIn(c) /\ RegistryAsIn(c) /\ Announced(c)

(* As long as no critical error happened, between reloads the detector     *)
(* runs exactly its configuration, except for what the agent was started   *)
(* without and reloads reported to need a restart, and the coordinator     *)
(* diffs against the same configuration, however edits coalesced, were     *)
(* rejected or reverted (applyConfigReload and performReload).             *)
UndisturbedExact ==
    (watcher = "idle" /\ phase = "running" /\ ~disturbed) => Runs(config) /\ current = config

(* What makes it so.  Each monitor of the index has one handle, which runs *)
(* with its setting; half way through a reload without a critical error,   *)
(* a monitor is as the old configuration has it while its step is still to *)
(* come, and as the new one has it after.                                  *)
OneHandleEach(hs, ix) ==
    /\ hs \in Seq(Handle)
    /\ ix \in [DOMAIN ix -> Settings] /\ DOMAIN ix \subseteq Names
    /\ \A i \in DOMAIN hs : hs[i].name \in DOMAIN ix /\ hs[i].setting = ix[hs[i].name]
    /\ \A m \in DOMAIN ix : \E i \in DOMAIN hs : hs[i].name = m
    /\ \A i, j \in DOMAIN hs : hs[i].name = hs[j].name => i = j
Pending(m) == \E op \in {"remove", "modify", "add"} : <<op, m>> \in steps
AsIn(c, m) == /\ m \in DOMAIN index <=> m \in DOMAIN c.monitors
              /\ m \in DOMAIN index => index[m] = c.monitors[m]
AppliedSoFar ==
    /\ steps \subseteq ComputeConfigDiff(current, new)
    /\ \A m \in Names : AsIn(IF Pending(m) THEN current ELSE new, m)
    /\ ExportersAsIn(IF <<"exporters", NoName>> \in steps THEN current ELSE new)
    /\ RegistryAsIn(IF <<"remediation", NoName>> \in steps THEN current ELSE new)
ConfigsValid ==
    /\ {file, current, config, new} \subseteq FileConfig
    /\ current.valid /\ config.valid /\ (watcher \in {"guard", "apply"} => new.valid)
ReloadOnTrack ==
    (phase = "running" /\ ~disturbed) =>
        /\ current = config
        /\ Announced(current) /\ (watcher \in {"guard", "apply"} => Announced(new))
        /\ watcher # "apply" => /\ OneHandleEach(handles, index)
                               /\ index = config.monitors
                               /\ ExportersAsIn(config) /\ RegistryAsIn(config)
        /\ (watcher = "apply" /\ ~critical) => OneHandleEach(handles, index) /\ AppliedSoFar

(* The kill switch: once a reload whose remediation settings differ from   *)
(* the coordinator's has ended, a registry that was wired has the new      *)
(* ones, also when another part of the reload failed (step 4b of           *)
(* applyConfigReload is not skipped).                                      *)
KillSwitchLands ==
    [][(/\ watcher = "apply" /\ watcher' = "idle"
        /\ executor = "registry" /\ new.remediation # current.remediation)
          => registry' = new.remediation]_reloadVars

(* Until it has the new settings, the step that gives it them is to come. *)
KillSwitchPending ==
    (watcher = "apply" /\ executor = "registry" /\ new.remediation # current.remediation)
        => registry = new.remediation \/ <<"remediation", NoName>> \in steps

(* No edit is lost between the debounce timer, the one-token channel and a *)
(* reload in progress: while the detector runs, the file as it was last    *)
(* left gets read (processEvents and watchConfigChanges).                  *)
LastEditRead == [](phase = "running") => <>[](loaded = file)

(* A reload reported as succeeded, or as without changes, leaves the       *)
(* detector running the coordinator's configuration.                       *)
SuccessMeansApplied ==
    (watcher = "idle" /\ phase = "running" /\ outcome \in {"succeeded", "nochange"}) => Runs(current)
=============================================================================
