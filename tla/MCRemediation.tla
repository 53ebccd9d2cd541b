---------------------------- MODULE MCRemediation ----------------------------
(***************************************************************************)
(* From a status to a command on the node, for TLC: the dispatch policy    *)
(* of the detector, the gatekeeper it calls, and the strategies that the   *)
(* gatekeeper runs; in each behaviour one of them is at work.              *)
(***************************************************************************)
EXTENDS StatusPipeline, RemediatorRegistry, RemediationStrategies

VARIABLE part      \* "policy", "registry" or "strategies"

allVars == <<part, pipelineVars, registryVars, strategyVars>>

Off == [enabled |-> FALSE, trigger |-> FALSE, maxAttempts |-> 0, cooldown |-> 0,
        requires |-> NoMonitor, status |-> "True", maxAge |-> 0]

(* The DNS monitor depends on the gateway monitor; its remediation is      *)
(* dispatched once per incident, with a cooldown, and only while the       *)
(* gateway is known to be up.                                              *)
PairMonitors  == {"gateway", "dns"}
PairDependsOn == [m \in PairMonitors |-> IF m = "dns" THEN {"gateway"} ELSE {}]
PairPolicy ==
    [m \in PairMonitors |->
        IF m = "dns"
        THEN [enabled |-> TRUE, trigger |-> TRUE, maxAttempts |-> 1, cooldown |-> 2,
              requires |-> "gateway", status |-> "True", maxAge |-> 1]
        ELSE Off]

Normal == [dryRun |-> FALSE, perHour |-> 2, perMinute |-> 0, disabled |-> FALSE,
           threshold |-> 2, timeout |-> 1, successThreshold |-> 2]

(* A reload tightens the limits, or turns on dry run and the breaker off;  *)
(* its setters run one by one, so each also meets the others' old values.  *)
Tight    == [Normal EXCEPT !.perHour = 1, !.perMinute = 1, !.threshold = 1]
DryRun   == [Normal EXCEPT !.dryRun = TRUE, !.disabled = TRUE]

ReloadConfigs == {Normal, Tight, DryRun}
TwoStrategies == <<"systemd-restart", "custom-script">>

(* A pod of each kind that a drain treats differently, and a second one    *)
(* that is evicted.                                                        *)
PodKinds == [web |-> "plain", db |-> "plain", proxy |-> "daemonset", etcd |-> "mirror",
             doctor |-> "self"]

(* The parts that are not at work are in one of their initial states. *)
RemediationInit ==
    /\ part \in {"policy", "registry", "strategies"}
    /\ PipelineInit
    /\ RegistryInit /\ (part # "registry" => cfg = Normal)
    /\ StrategiesInit /\ (part # "strategies" => ~registryDry /\ pods = Pods /\ service = "failed")

PolicyStep == part = "policy" /\ PipelineNext /\ UNCHANGED <<part, registryVars, strategyVars>>
RegistryStep == part = "registry" /\ RegistryNext /\ UNCHANGED <<part, pipelineVars, strategyVars>>
StrategyStep == part = "strategies" /\ StrategiesNext /\ UNCHANGED <<part, pipelineVars, registryVars>>

RemediationSpec ==
    RemediationInit /\ [][PolicyStep \/ RegistryStep \/ StrategyStep]_allVars
=============================================================================
