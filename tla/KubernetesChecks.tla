-------------------------- MODULE KubernetesChecks --------------------------
(***************************************************************************)
(* The checks of the API server, container runtime and pod capacity        *)
(* monitors (pkg/monitors/kubernetes), and the service status of           *)
(* pkg/util/system.go they share with the kubelet monitor.                 *)
(*                                                                         *)
(* A check is a function of the monitor's configuration, its state and     *)
(* what it observes; it yields the new state and the conditions of the     *)
(* status it sends, in order.  MonitorChecks runs them.                    *)
(***************************************************************************)
EXTENDS Integers, Sequences

Raise(c) == <<c, "True">>
Clear(c) == <<c, "False">>
Result(st, conds) == [state |-> st, conds |-> conds]
When(p, conds) == IF p THEN conds ELSE <<>>

(* GetServiceStatus: what systemctl says; processes only without one. *)
SystemctlSays == {"absent", "active", "inactive", "failed", "activating", "unknown",
                  "other exit", "exec error"}

CheckSystemdServiceStatus(s) ==
    CASE s = "active" -> "active"
      [] s \in {"unknown", "exec error"} -> "error"
      [] OTHER -> "inactive"

CheckProcessRunning(running) == IF running THEN "active" ELSE "inactive"

GetServiceStatus(s, running) ==
    IF s = "absent" THEN CheckProcessRunning(running) ELSE CheckSystemdServiceStatus(s)

----------------------------------------------------------------------------
(* API server. *)
APIServerConfigs == {[threshold |-> 2]}
APIServerFresh == [failures |-> 0, unhealthy |-> FALSE]
APIServerInputs == {"fast", "slow", "auth", "rate limited", "unreachable"}

(* CheckHealth: an answer, in time or not; any error is a failure. *)
APIServerAnswers(o) == o \in {"fast", "slow"}

(* checkAPIServer: unreachable is reported once, when the threshold is     *)
(* reached, and withdrawn once; the latency alarm is never withdrawn.      *)
CheckAPIServer(cfg, st, o) ==
    IF APIServerAnswers(o)
    THEN Result(APIServerFresh,
                <<Raise("APIServerReachable")>>
                \o When(st.unhealthy, <<Clear("APIServerUnreachable")>>)
                \o When(o = "slow", <<Raise("APIServerLatencyHigh")>>))
    ELSE LET n == st.failures + 1
             edge == n >= cfg.threshold /\ ~st.unhealthy
         IN  Result([failures |-> n, unhealthy |-> st.unhealthy \/ edge],
                    When(edge, <<Raise("APIServerUnreachable"), Clear("APIServerReachable")>>))

----------------------------------------------------------------------------
(* Container runtime.  detectRuntime: the socket a type names, which must  *)
(* exist, or for "auto" the first that exists, k3s before cri-dockerd      *)
(* before the standard ones.                                               *)
SocketOf == [docker |-> "docker.sock", containerd |-> "containerd.sock", crio |-> "crio.sock"]
AutoOrder == <<"k3s.sock", "cri-dockerd.sock", "containerd.sock", "docker.sock", "crio.sock">>
NoSocket == "none"

DetectRuntime(type, present) ==
    IF type # "auto"
    THEN IF SocketOf[type] \in present THEN SocketOf[type] ELSE NoSocket
    ELSE LET found == SelectSeq(AutoOrder, LAMBDA s : s \in present)
         IN  IF found = <<>> THEN NoSocket ELSE Head(found)

RuntimeChecks == {"socket", "systemd", "info"}

(* The monitors that could be constructed: a socket was found, a check is  *)
(* enabled (applyDefaults).                                                *)
RuntimeConfigs ==
    {c \in [threshold : {2}, checks : SUBSET RuntimeChecks,
            socket : {DetectRuntime(t, p) : t \in {"auto", "crio"},
                                            p \in SUBSET {"docker.sock", "containerd.sock"}}] :
        c.checks # {} /\ c.socket # NoSocket}
RuntimeFresh == [failures |-> 0]
RuntimeInputs == [accepting : SUBSET {"docker.sock", "containerd.sock"},
                  systemctl : {"absent", "active", "failed", "unknown"}, process : BOOLEAN]

CheckSocketConnectivity(cfg, o) == cfg.socket \in o.accepting

(* checkRuntime: unlike the kubelet's, a status that cannot be read fails  *)
(* the check.                                                              *)
RuntimeHealthy(cfg, o) ==
    /\ cfg.checks \cap {"socket", "info"} # {} => CheckSocketConnectivity(cfg, o)
    /\ "systemd" \in cfg.checks => GetServiceStatus(o.systemctl, o.process) = "active"

MutRaisedOnce(cfg, st, o) ==
    IF RuntimeHealthy(cfg, o)
    THEN Result(RuntimeFresh, <<Clear("ContainerRuntimeUnhealthy")>>)
    ELSE Result([failures |-> st.failures + 1],
                When(st.failures + 1 = cfg.threshold, <<Raise("ContainerRuntimeUnhealthy")>>))

(* updateFailureTracking: both values are asserted on every check. *)
CheckRuntime(cfg, st, o) ==
    IF RuntimeHealthy(cfg, o)
    THEN Result(RuntimeFresh, <<Clear("ContainerRuntimeUnhealthy")>>)
    ELSE Result([failures |-> st.failures + 1],
                When(st.failures + 1 >= cfg.threshold, <<Raise("ContainerRuntimeUnhealthy")>>))

----------------------------------------------------------------------------
(* Pod capacity; thresholds in percent of the node's pods. *)
CapacityConfigs == {[threshold |-> 2, warning |-> 50, critical |-> 75]}
CapacityFresh == [failures |-> 0, level |-> "normal"]
CapacityInputs == [node : BOOLEAN, capacity : {0, 4}, list : BOOLEAN, running : 0 .. 4]

CapacityKnown(o) == o.node /\ o.capacity # 0 /\ o.list
Level(cfg, o) ==
    IF o.running * 100 >= cfg.critical * o.capacity THEN "critical"
    ELSE IF o.running * 100 >= cfg.warning * o.capacity THEN "warning" ELSE "normal"

(* trackFailure: nothing withdraws PodCapacityUnhealthy. *)
TrackFailure(cfg, st) ==
    Result([st EXCEPT !.failures = @ + 1],
           When(st.failures + 1 >= cfg.threshold, <<Raise("PodCapacityUnhealthy")>>))

(* handleCriticalState, handleWarningState, handleNormalState: the         *)
(* pressure is withdrawn only when normal follows critical directly.       *)
EvaluateThresholds(cfg, st, o) ==
    LET level == Level(cfg, o)
    IN  Result([failures |-> 0, level |-> level],
               When(level = "critical", <<Raise("PodCapacityPressure")>>)
               \o When(level = "normal" /\ st.level = "critical", <<Clear("PodCapacityPressure")>>))

CheckCapacity(cfg, st, o) ==
    IF CapacityKnown(o) THEN EvaluateThresholds(cfg, st, o) ELSE TrackFailure(cfg, st)
=============================================================================
