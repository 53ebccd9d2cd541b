----------------------- MODULE RemediationStrategies -----------------------
(***************************************************************************)
(* What the strategies do to the node (pkg/remediators: systemd.go,        *)
(* custom.go, network.go, node_reboot.go, pod_delete.go, registered by     *)
(* builtin.go).  A strategy is a list of commands and API calls, each one  *)
(* step that may fail; between two of them the context may be cancelled    *)
(* (everything after that fails), pods come and go, the configuration is   *)
(* reloaded.                                                               *)
(***************************************************************************)
EXTENDS Integers, FiniteSets

CONSTANTS
    Kind,            \* per pod: "plain", "daemonset", "mirror" or "self"
    MaxJobs          \* bound on the attempts of a behaviour

Pods == DOMAIN Kind
StrategyNames == {"systemd-restart", "custom-script", "flush-dns", "restart-interface",
                "reset-routing", "flush-ipv6-route", "node-reboot", "pod-delete"}
NoTarget == "none"

VARIABLES
    registryDry,   \* the registry's dry-run flag
    copiedDry,     \* the flag the strategies copied when they were registered
    attempts,
    job,           \* the attempt under way: strategy, target, requireEnabled; NoJob
    step,          \* the next command of it
    toEvict,          \* node-reboot: listed pods still to be asked to leave
    cancelled,     \* the attempt's context is done
    schedulable, pods, iface, service,         \* the node
    result,        \* of the last attempt: "none", "success" or "failure"
    done,          \* history: what the attempt's commands did
    wasDry         \* history: the attempt began in dry run

nodeVars == <<schedulable, pods, iface, service>>
strategyVars == <<registryDry, copiedDry, attempts, job, step, toEvict, cancelled, nodeVars,
                  result, done, wasDry>>

NoJob == [strategy |-> "none", target |-> NoTarget, requireEnabled |-> FALSE]

(* The targets a monitor's remediation block can name. *)
Targets(s) ==
    CASE s = "pod-delete" -> Pods \cup {NoTarget}
      [] s \in {"systemd-restart", "custom-script", "restart-interface"} -> {"given", NoTarget}
      [] OTHER -> {NoTarget}

(* RegisterBuiltinRemediators, RegisterClusterRemediators: the factories   *)
(* close over the dry-run flag of this moment.                             *)
StrategiesInit ==
    /\ registryDry \in BOOLEAN /\ copiedDry = registryDry
    /\ attempts = 0 /\ job = NoJob /\ step = "idle" /\ toEvict = {} /\ cancelled = FALSE
    /\ schedulable = TRUE /\ pods \in {Pods, {p \in Pods : Kind[p] # "plain"}}
    /\ iface = "up" /\ service \in {"active", "failed"}
    /\ result = "none" /\ done = {} /\ wasDry = FALSE

----------------------------------------------------------------------------
(* The registry calls the strategy, unless it is itself in dry run. *)
Attempt(s, t, e) ==
    /\ step = "idle" /\ ~registryDry /\ attempts < MaxJobs
    /\ attempts' = attempts + 1
    /\ job' = [strategy |-> s, target |-> t, requireEnabled |-> e]
    /\ step' = "start" /\ cancelled' = FALSE /\ toEvict' = {}
    /\ result' = "none" /\ done' = {} /\ wasDry' = copiedDry
    /\ UNCHANGED <<registryDry, copiedDry, nodeVars>>

(* The end of an attempt. *)
Finish(r) ==
    /\ result' = r /\ step' = "idle" /\ toEvict' = {}
    /\ UNCHANGED <<registryDry, copiedDry, attempts, job, cancelled, wasDry>>
(* The attempt goes on with another command. *)
Continue(s) ==
    /\ step' = s
    /\ UNCHANGED <<registryDry, copiedDry, attempts, job, cancelled, result, wasDry>>

SameNode == UNCHANGED <<nodeVars, done>>

(* Whether a command may succeed: none does on a cancelled context. *)
Outcomes == IF cancelled THEN {FALSE} ELSE BOOLEAN

(* systemd-restart: resolveServiceName, checkEnabled, then the command.    *)
(* The enabled check comes before the dry run, IsActive only logs.         *)
StartSystemd ==
    /\ step = "start"
    /\ \E enabled \in Outcomes :
        IF job.target = NoTarget \/ (job.requireEnabled /\ ~enabled)
        THEN Finish("failure") /\ SameNode
        ELSE IF copiedDry THEN Finish("success") /\ SameNode
        ELSE Continue("restart service") /\ UNCHANGED toEvict /\ SameNode

RestartService ==
    /\ step = "restart service"
    /\ \E ok \in Outcomes :
        /\ service' = IF ok THEN "active" ELSE service
        /\ done' = IF ok THEN done \cup {"restarted"} ELSE done
        /\ Finish(IF ok THEN "success" ELSE "failure")
    /\ UNCHANGED <<schedulable, pods, iface>>

(* custom-script: resolveScript, CheckScriptSafety, then ExecuteScript,    *)
(* whose exit code counts.                                                 *)
StartScript ==
    /\ step = "start"
    /\ \E safe \in BOOLEAN :
        IF job.target = NoTarget \/ ~safe THEN Finish("failure") /\ SameNode
        ELSE IF copiedDry THEN Finish("success") /\ SameNode
        ELSE Continue("run script") /\ UNCHANGED toEvict /\ SameNode

RunScript ==
    /\ step = "run script"
    /\ \E ok \in Outcomes :
        /\ done' = IF ok THEN done \cup {"ran"} ELSE done
        /\ Finish(IF ok THEN "success" ELSE "failure")
    /\ UNCHANGED nodeVars

----------------------------------------------------------------------------
(* NetworkRemediator.remediate: dry run first, then the target. *)
StartNetwork(first) ==
    /\ step = "start"
    /\ IF copiedDry THEN Finish("success") /\ SameNode
       ELSE IF job.strategy = "restart-interface" /\ job.target = NoTarget
       THEN Finish("failure") /\ SameNode
       ELSE Continue(first) /\ UNCHANGED toEvict /\ SameNode

(* flushDNS: resolvectl, then systemd-resolve. *)
FlushDNS ==
    /\ step \in {"resolvectl", "systemd-resolve"}
    /\ \E ok \in Outcomes :
        /\ done' = IF ok THEN done \cup {"flushed"} ELSE done
        /\ IF ok THEN Finish("success")
           ELSE IF step = "resolvectl" THEN Continue("systemd-resolve") /\ UNCHANGED toEvict
           ELSE Finish("failure")
    /\ UNCHANGED nodeVars

(* resetRouting: a flush that fails is only logged.  flushIPv6RouteCache   *)
(* fails.                                                                  *)
FlushRoutes ==
    /\ step = "flush routes"
    /\ \E ok \in Outcomes :
        /\ done' = IF ok THEN done \cup {"flushed"} ELSE done
        /\ Finish(IF ok \/ job.strategy = "reset-routing" THEN "success" ELSE "failure")
    /\ UNCHANGED nodeVars

MutIgnoresUp ==
    /\ step \in {"link exists", "link down", "link up"}
    /\ \E ok \in Outcomes :
        /\ iface' = CASE ok /\ step = "link down" -> "down" [] ok /\ step = "link up" -> "up"
                      [] OTHER -> iface
        /\ done' = IF ok THEN done \cup {step} ELSE done
        /\ IF ~ok /\ step # "link up" THEN Finish("failure")
           ELSE IF step = "link up" THEN Finish("success")
           ELSE Continue(IF step = "link exists" THEN "link down" ELSE "link up") /\ UNCHANGED toEvict
    /\ UNCHANGED <<schedulable, pods, service>>

(* restartInterface: it exists, down, up; a command that fails ends the    *)
(* attempt where it is.                                                    *)
RestartInterface ==
    /\ step \in {"link exists", "link down", "link up"}
    /\ \E ok \in Outcomes :
        /\ iface' = CASE ok /\ step = "link down" -> "down" [] ok /\ step = "link up" -> "up"
                      [] OTHER -> iface
        /\ done' = IF ok THEN done \cup {step} ELSE done
        /\ IF ~ok THEN Finish("failure")
           ELSE IF step = "link up" THEN Finish("success")
           ELSE Continue(IF step = "link exists" THEN "link down" ELSE "link up") /\ UNCHANGED toEvict
    /\ UNCHANGED <<schedulable, pods, service>>

----------------------------------------------------------------------------
(* shouldSkipPod: mirror pods, daemon set pods and the agent's own. *)
ShouldSkipPod(p) == Kind[p] # "plain"

(* NodeRebootRemediator.remediate: in dry run it only looks. *)
StartReboot ==
    /\ step = "start"
    /\ IF copiedDry THEN Finish("success") /\ SameNode
       ELSE Continue("cordon") /\ UNCHANGED toEvict /\ SameNode

MutCordonOptional ==
    /\ step = "cordon"
    /\ \E ok \in Outcomes :
        /\ schedulable' = IF ok THEN FALSE ELSE schedulable
        /\ done' = IF ok THEN done \cup {"cordoned"} ELSE done
        /\ Continue("list") /\ UNCHANGED toEvict
    /\ UNCHANGED <<pods, iface, service>>

(* cordon: get, patch if needed; a failure ends the attempt. *)
Cordon ==
    /\ step = "cordon"
    /\ \E ok \in Outcomes :
        /\ schedulable' = IF ok THEN FALSE ELSE schedulable
        /\ done' = IF ok THEN done \cup {"cordoned"} ELSE done
        /\ IF ok THEN Continue("list") /\ UNCHANGED toEvict ELSE Finish("failure")
    /\ UNCHANGED <<pods, iface, service>>

(* listNodePods: if the pods cannot be listed, none is asked. *)
ListNodePods ==
    /\ step = "list"
    /\ \E ok \in Outcomes :
        /\ toEvict' = IF ok THEN {p \in pods : ~ShouldSkipPod(p)} ELSE {}
        /\ done' = IF ok THEN done \cup {"listed"} ELSE done
        /\ Continue("evict")
    /\ UNCHANGED nodeVars

(* evictPod: evict, else delete, else leave it; the drain goes on anyway.  *)
EvictPod(p) ==
    /\ step = "evict" /\ p \in toEvict
    /\ \E ok \in Outcomes : pods' = IF ok THEN pods \ {p} ELSE pods
    /\ toEvict' = toEvict \ {p}
    /\ done' = done \cup {p}
    /\ Continue("evict")
    /\ UNCHANGED <<schedulable, iface, service>>

(* reboot, once every pod was asked. *)
Reboot ==
    /\ step = "evict" /\ toEvict = {}
    /\ \E ok \in Outcomes :
        /\ done' = IF ok THEN done \cup {"rebooted"} ELSE done
        /\ Finish(IF ok THEN "success" ELSE "failure")
    /\ UNCHANGED nodeVars

(* PodDeleteRemediator.remediate: the target, the agent's own pod, the pod *)
(* itself, a mirror pod, dry run, and then the deletion.  A pod that is    *)
(* gone is a success.                                                      *)
StartPodDelete ==
    /\ step = "start"
    /\ IF job.target = NoTarget \/ Kind[job.target] = "self" THEN Finish("failure") /\ SameNode
       ELSE \E ok \in Outcomes :
           IF ok /\ job.target \notin pods THEN Finish("success") /\ SameNode
           ELSE IF ~ok \/ Kind[job.target] = "mirror" THEN Finish("failure") /\ SameNode
           ELSE IF copiedDry THEN Finish("success") /\ SameNode
           ELSE Continue("delete pod") /\ UNCHANGED toEvict /\ SameNode

DeletePod ==
    /\ step = "delete pod"
    /\ \E ok \in Outcomes :
        /\ pods' = IF ok THEN pods \ {job.target} ELSE pods
        /\ done' = IF ok THEN done \cup {job.target} ELSE done
        /\ Finish(IF ok THEN "success" ELSE "failure")
    /\ UNCHANGED <<schedulable, iface, service>>

----------------------------------------------------------------------------
(* One step of the strategy of the attempt. *)
Start ==
    CASE job.strategy = "systemd-restart" -> StartSystemd
      [] job.strategy = "custom-script" -> StartScript
      [] job.strategy = "flush-dns" -> StartNetwork("resolvectl")
      [] job.strategy = "restart-interface" -> StartNetwork("link exists")
      [] job.strategy \in {"reset-routing", "flush-ipv6-route"} -> StartNetwork("flush routes")
      [] job.strategy = "node-reboot" -> StartReboot
      [] job.strategy = "pod-delete" -> StartPodDelete

(* BaseRemediator.Remediate: a context that is already done ends it; a     *)
(* panic in the strategy is an error too.                                  *)
EndEarly ==
    /\ step = "start" /\ cancelled
    /\ Finish("failure") /\ SameNode

(* The agent stops, or the attempt's time is up. *)
Cancel ==
    /\ step # "idle" /\ ~cancelled
    /\ cancelled' = TRUE
    /\ UNCHANGED <<registryDry, copiedDry, attempts, job, step, toEvict, nodeVars, result, done, wasDry>>

(* ApplyConfig changes the registry's flag, not the copies. *)
ReloadDryRun ==
    /\ step = "idle" /\ attempts < MaxJobs
    /\ registryDry' = ~registryDry
    /\ UNCHANGED <<copiedDry, attempts, job, step, toEvict, cancelled, nodeVars, result, done, wasDry>>

(* The cluster: a pod comes to the node; daemon set and static pods do     *)
(* also when it is cordoned.                                               *)
SchedulePod(p) ==
    /\ p \notin pods /\ (schedulable \/ Kind[p] # "plain")
    /\ pods' = pods \cup {p}
    /\ UNCHANGED <<registryDry, copiedDry, attempts, job, step, toEvict, cancelled, schedulable,
                   iface, service, result, done, wasDry>>

Commands ==
    \/ (step = "start" /\ ~cancelled /\ Start) \/ EndEarly
    \/ RestartService \/ RunScript \/ FlushDNS \/ FlushRoutes \/ RestartInterface
    \/ Cordon \/ ListNodePods \/ Reboot \/ DeletePod
    \/ \E p \in Pods : EvictPod(p)

StrategiesNext ==
    \/ \E s \in StrategyNames, e \in BOOLEAN : \E t \in Targets(s) : Attempt(s, t, e)
    \/ Commands \/ Cancel \/ ReloadDryRun
    \/ \E p \in Pods : SchedulePod(p)

StrategiesSpec == StrategiesInit /\ [][StrategiesNext]_strategyVars

----------------------------------------------------------------------------
(* A success that was no dry run means that the action took place: the     *)
(* service restarted, the interface came back up, the node is told to      *)
(* reboot.  Two strategies are left out: reset-routing reports a success   *)
(* without knowing (resetRouting), and a pod that was deleted may be back. *)
SuccessMeansDone ==
    (result = "success" /\ ~wasDry) =>
        CASE job.strategy = "systemd-restart" -> "restarted" \in done
          [] job.strategy = "custom-script" -> "ran" \in done
          [] job.strategy \in {"flush-dns", "flush-ipv6-route"} -> "flushed" \in done
          [] job.strategy = "restart-interface" -> iface = "up" /\ "link up" \in done
          [] job.strategy = "node-reboot" -> "rebooted" \in done
          [] OTHER -> TRUE

(* When the node is told to reboot, every pod on it that is to be drained  *)
(* has been asked to leave, if the pods could be listed at all: the node   *)
(* is closed to new pods before they are listed (cordon, drain, reboot).   *)
RebootAsksEveryPod ==
    ({"rebooted", "listed"} \subseteq done /\ step = "idle")
    => \A p \in pods : ShouldSkipPod(p) \/ p \in done

(* A command belongs to its strategy, and until the attempt ends it has no *)
(* result and keeps the dry-run flag it began with.                        *)
StepsBelong ==
    /\ step = "restart service" => job.strategy = "systemd-restart"
    /\ step = "run script" => job.strategy = "custom-script"
    /\ step \in {"resolvectl", "systemd-resolve"} => job.strategy = "flush-dns"
    /\ step = "flush routes" => job.strategy \in {"reset-routing", "flush-ipv6-route"}
    /\ step \in {"link exists", "link down", "link up"} => job.strategy = "restart-interface"
    /\ step \in {"cordon", "list", "evict"} => job.strategy = "node-reboot"
    /\ step = "delete pod" => job.strategy = "pod-delete"
    /\ step # "idle" =>
         job.strategy \in StrategyNames /\ result = "none" /\ wasDry = copiedDry

(* What each strategy has done so far, and for a reboot: from the cordon   *)
(* on no plain pod comes to the node, and a pod on it is to be skipped,    *)
(* was asked, or is still to be asked.                                     *)
DrainUnderWay ==
    /\ step \in {"list", "evict"} => ~schedulable
    /\ step = "idle" => toEvict = {}
    /\ step = "evict" /\ toEvict # {} => "listed" \in done
    /\ job.strategy = "pod-delete" => done \subseteq {job.target}
    /\ job.strategy \notin {"pod-delete", "node-reboot"} => "listed" \notin done
    /\ job.strategy = "node-reboot" /\ "listed" \in done =>
         /\ step \in {"evict", "idle"}
         /\ ~schedulable
         /\ \A p \in pods : ShouldSkipPod(p) \/ p \in done \cup toEvict

(* The inductive invariant behind SuccessMeansDone and RebootAsksEveryPod. *)
AttemptSound == StepsBelong /\ SuccessMeansDone /\ DrainUnderWay
=============================================================================
