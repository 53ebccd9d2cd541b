---------------------------- MODULE MonitorChecks ----------------------------
(***************************************************************************)
(* A monitor at work: BaseMonitor (pkg/monitors/base.go) runs its check    *)
(* again and again, one at a time, and hands the status on without         *)
(* waiting, so that a status is lost when the channel is full.  When the   *)
(* agent restarts, the monitor starts with a fresh state while the         *)
(* conditions it reported are still there.                                 *)
(*                                                                         *)
(* shown is the last value reported of each condition.  A status names     *)
(* some conditions, of which the last mention counts; the others stay.     *)
(* The history variables follow, for each alarm, what an observer of the   *)
(* inputs would expect: an alarm is a condition and the target it is       *)
(* raised for.                                                             *)
(***************************************************************************)
EXTENDS CustomChecks

CONSTANTS
    Monitors,   \* the monitors to run, by name
    MaxRun      \* bound on the bad checks in a row that are followed

VARIABLES
    monitor,    \* which monitor this is
    cfg,        \* its configuration
    st,         \* its state
    shown,      \* per condition: the last reported value
    run,        \* history, per alarm: bad checks in a row since the start (at most 1 if one is enough)
    verdict,    \* history, per alarm: what the last check, if it was delivered, should say
    due,        \* history: conditions whose limit was reached while they stood
    faults      \* history: a status was lost, or the agent restarted

checkVars == <<monitor, cfg, st, shown, run, verdict, due, faults>>

Configs(m) ==
    CASE m = "apiserver" -> APIServerConfigs [] m = "runtime" -> RuntimeConfigs
      [] m = "capacity" -> CapacityConfigs [] m = "gateway" -> GatewayConfigs
      [] m = "connectivity" -> ConnectivityConfigs [] m = "forwarding" -> ForwardingConfigs
      [] m = "ipv6sysctl" -> SysctlConfigs [] m = "ipv6route" -> RouteConfigs
      [] m = "ipv6neighbor" -> NeighborConfigs [] m = "ipv6firewall" -> FirewallConfigs
      [] m = "cpu" -> CPUConfigs [] m = "memory" -> MemoryConfigs [] m = "disk" -> DiskConfigs
      [] m = "dns" -> DNSConfigs [] m = "cni" -> CNIConfigs [] m = "dnspod" -> DNSPodConfigs
      [] m = "plugin" -> PluginConfigs

Fresh(m) ==
    CASE m = "apiserver" -> APIServerFresh [] m = "runtime" -> RuntimeFresh
      [] m = "capacity" -> CapacityFresh [] m = "gateway" -> GatewayFresh
      [] m = "connectivity" -> ConnectivityFresh [] m = "cpu" -> CPUFresh
      [] m = "memory" -> MemoryFresh [] m = "disk" -> DiskFresh
      [] m = "dns" -> DNSFresh [] m = "cni" -> CNIFresh [] m = "dnspod" -> DNSPodFresh
      [] m = "plugin" -> PluginFresh
      [] OTHER -> Stateless

Inputs(m, c) ==
    CASE m = "apiserver" -> APIServerInputs [] m = "runtime" -> RuntimeInputs
      [] m = "capacity" -> CapacityInputs [] m = "gateway" -> GatewayInputs
      [] m = "connectivity" -> ConnectivityInputs [] m = "forwarding" -> ForwardingInputs
      [] m = "ipv6sysctl" -> SysctlInputs [] m = "ipv6route" -> RouteInputs
      [] m = "ipv6neighbor" -> NeighborInputs [] m = "ipv6firewall" -> FirewallInputs
      [] m = "cpu" -> CPUInputs [] m = "memory" -> MemoryInputs [] m = "disk" -> DiskInputs(c)
      [] m = "dns" -> DNSInputs(c) [] m = "cni" -> CNIInputs(c) [] m = "dnspod" -> DNSPodInputs
      [] m = "plugin" -> PluginInputs

Check(m, c, s, o) ==
    CASE m = "apiserver" -> CheckAPIServer(c, s, o) [] m = "runtime" -> CheckRuntime(c, s, o)
      [] m = "capacity" -> CheckCapacity(c, s, o) [] m = "gateway" -> CheckGateway(c, s, o)
      [] m = "connectivity" -> CheckConnectivity(c, s, o)
      [] m = "forwarding" -> CheckIPForwarding(c, s, o)
      [] m = "ipv6sysctl" -> CheckIPv6Sysctl(c, s, o) [] m = "ipv6route" -> CheckIPv6Route(c, s, o)
      [] m = "ipv6neighbor" -> CheckIPv6Neighbor(c, s, o)
      [] m = "ipv6firewall" -> CheckIPv6Firewall(c, s, o)
      [] m = "cpu" -> CheckCPU(c, s, o) [] m = "memory" -> CheckMemory(c, s, o)
      [] m = "disk" -> CheckDisk(c, s, o) [] m = "dns" -> CheckDNS(c, s, o)
      [] m = "cni" -> CheckCNI(c, s, o) [] m = "dnspod" -> CheckClusterDNSPod(c, s, o)
      [] m = "plugin" -> CheckPlugin(c, s, o)

----------------------------------------------------------------------------
(* What an observer expects.  The alarms of a monitor: condition, target.  *)
Alarms(m) ==
    CASE m = "apiserver" -> {<<"APIServerUnreachable", 0>>}
      [] m = "runtime" -> {<<"ContainerRuntimeUnhealthy", 0>>}
      [] m = "capacity" -> {<<"PodCapacityPressure", 0>>, <<"PodCapacityUnhealthy", 0>>}
      [] m = "gateway" -> {<<"NetworkUnreachable", 0>>}
      [] m = "connectivity" -> {"NetworkUnreachable"} \X DOMAIN Endpoints
      [] m = "forwarding" -> {<<"IPForwardingDisabled", 0>>}
      [] m = "ipv6sysctl" -> {<<"IPv6SysctlMisconfigured", 0>>}
      [] m = "ipv6route" -> {<<"IPv6DefaultRouteMissing", 0>>}
      [] m = "ipv6neighbor" -> {"IPv6LinkLocalMissing", "IPv6GlobalAddressMissing",
                                "IPv6RouterAdvertisementDisabled"} \X {0}
      [] m = "ipv6firewall" -> {<<"IPv6FirewallBlackhole", 0>>}
      [] m = "cpu" -> {<<"CPUPressure", 0>>}
      [] m = "memory" -> {<<"MemoryPressure", 0>>}
      [] m = "disk" -> ({"DiskPressure", "InodePressure"} \X DOMAIN Mounts)
                       \cup {<<"ReadonlyFilesystem", 0>>}
      [] m = "dns" -> ({"ClusterDNSDown", "ExternalDNSDown", "ClusterDNSDegraded",
                        "ClusterDNSIntermittent", "CustomDNSDown", "DNSResolutionDegraded",
                        "DNSResolutionDown", "DNSResolutionIntermittent",
                        "DNSResolutionInconsistent"} \X {0})
                      \cup ({"DNSNameserverUnhealthy", "DNSNameserverDegraded"} \X Nameservers)
      [] m = "cni" -> {<<"NetworkPartitioned", 0>>, <<"CNIHealthy", 0>>}
                      \cup ({"NetworkDegraded"} \X Peers)
      [] m = "dnspod" -> {<<"ClusterDNSDown", 0>>}
      [] m = "plugin" -> {<<"PluginUnhealthy", 0>>}

Conditions(m) == {a[1] : a \in Alarms(m)}

(* Bad checks in a row that raise an alarm. *)
Limit(m, c, cond) ==
    CASE cond \in {"APIServerUnreachable", "ContainerRuntimeUnhealthy", "PodCapacityUnhealthy",
                   "NetworkUnreachable", "ClusterDNSDown", "ExternalDNSDown",
                   "PluginUnhealthy"} -> c.threshold
      [] cond \in {"CPUPressure", "MemoryPressure", "DiskPressure"} -> c.sustained
      [] cond = "NetworkDegraded" -> c.highLatency
      [] OTHER -> 1

(* What a check that sees o should count for alarm a: "bad", "near" (which *)
(* counts but does not raise), "good", "pause" (which ends a run of bad     *)
(* checks but is not good), or "none" when it cannot tell.                 *)
BadGood(bad, good) == IF bad THEN "bad" ELSE IF good THEN "good" ELSE "none"

DNSVerdict(c, a, o) ==
    LET window == AddToWindow(st.clusterWindow, c.window,
                              IF c.cluster /\ Unresolved(o.cluster) # {} THEN "Unknown" ELSE "None")
        rate == (100 * Failures(window)) \div Len(window)
        answered == {i \in DOMAIN o.queries : o.queries[i] # <<>>}
        health == ComputeHealthScore(CheckNameservers(c, st.stats, o)[a[2]])
        rated == c.rate /\ Len(window) >= c.minSamples
        tried == c.custom = "each nameserver" /\ o.resolv # {}
        queried == c.custom = "consistency" /\ Len(o.queries) = QueriesPerCheck
        scored == c.scoring /\ a[2] \in o.resolv
    IN  CASE a[1] = "ClusterDNSDown" -> BadGood(c.cluster /\ Unresolved(o.cluster) # {}, c.cluster)
          [] a[1] = "ExternalDNSDown" -> BadGood(Unresolved(o.external) # {}, TRUE)
          [] a[1] = "ClusterDNSDegraded" -> BadGood(rated /\ rate >= c.failureRate, rated)
          [] a[1] = "ClusterDNSIntermittent" -> BadGood(rated /\ rate \in 1 .. c.failureRate - 1, rated)
          [] a[1] = "CustomDNSDown" -> BadGood(tried /\ Resolving(o) = {}, tried)
          [] a[1] = "DNSResolutionDegraded" ->
               BadGood(tried /\ Resolving(o) \notin {{}, o.resolv}, tried)
          [] a[1] = "DNSResolutionDown" -> BadGood(queried /\ answered = {}, queried)
          [] a[1] = "DNSResolutionIntermittent" ->
               BadGood(queried /\ answered # {} /\ answered # DOMAIN o.queries, queried)
          [] a[1] = "DNSResolutionInconsistent" ->
               BadGood(queried /\ answered = DOMAIN o.queries
                       /\ Cardinality({ToSet(o.queries[i]) : i \in answered}) > 1, queried)
          [] a[1] = "DNSNameserverUnhealthy" -> BadGood(scored /\ health = "unhealthy", scored)
          [] a[1] = "DNSNameserverDegraded" -> BadGood(scored /\ health = "degraded", scored)

PeerVerdict(m, c, a, o) ==
    LET peers == Refresh(st.peers, o.listing)
        answering == {n \in peers : o.ping[n] # "lost"}
        share == (Cardinality(answering) * 100) \div Cardinality(peers)
        resolving == {n \in peers : o.probe[n] = "resolved"}
    IN  IF a[1] = "CNIHealthy"
        THEN BadGood(c.health /\ o.files \in {"valid", "one of two valid"}
                     /\ c.expected \subseteq o.interfaces, c.health)
        ELSE IF peers = {} THEN "none"
        ELSE CASE a[1] = "NetworkPartitioned" -> BadGood(share < c.minReachable, TRUE)
               [] a[1] = "NetworkDegraded" -> BadGood(a[2] \in peers /\ o.ping[a[2]] = "slow", TRUE)
               [] OTHER -> BadGood(Cardinality(resolving) < c.minSuccess, TRUE)

Verdict(m, c, a, o) ==
    CASE m = "apiserver" -> BadGood(~APIServerAnswers(o), TRUE)
      [] m = "runtime" -> BadGood(~RuntimeHealthy(c, o), TRUE)
      [] m = "capacity" /\ a[1] = "PodCapacityPressure" ->
           BadGood(CapacityKnown(o) /\ Level(c, o) = "critical",
                   CapacityKnown(o) /\ Level(c, o) = "normal")
      [] m = "capacity" /\ a[1] = "PodCapacityUnhealthy" -> BadGood(~CapacityKnown(o), TRUE)
      [] m = "gateway" -> BadGood(~GatewayReached(c, o), TRUE)
      [] m = "connectivity" -> BadGood(o[a[2]] \in {"dns", "http"}, o[a[2]] = "ok")
      [] m = "forwarding" ->
           BadGood(\/ c.ipv4 /\ o.ipv4 \in {"0", "unreadable"}
                   \/ c.ipv6 /\ o.ipv6 = "0"
                   \/ c.perInterface /\ "eth0" \in Checked(c) /\ o.iface["eth0"] = "0", TRUE)
      [] m = "ipv6sysctl" ->
           BadGood(\/ "unreadable" \in {o.all, o.default}
                   \/ c.expected /\ ("1" \in {o.all, o.default}
                         \/ (c.perInterface /\ "eth0" \in Checked(c) /\ o.iface["eth0"] = "1")),
                   TRUE)
      [] m = "ipv6route" ->
           BadGood(c.expected /\ (o.readable => DetectDefaultGateway(o.v6) = NoGateway), TRUE)
      [] m = "ipv6neighbor" ->
           BadGood(c.expected /\ "eth0" \in Checked(c) /\
                     CASE a[1] = "IPv6LinkLocalMissing" -> o.readable /\ o.scopes["eth0"] = {"global"}
                       [] a[1] = "IPv6GlobalAddressMissing" ->
                            c.global /\ o.readable /\ o.scopes["eth0"] = {"link"}
                       [] OTHER -> /\ c.perInterface /\ o.ra["eth0"] # -1
                                   /\ 0 \in {o.ra["eth0"], o.autoconf["eth0"]}, TRUE)
      [] m = "ipv6firewall" ->
           BadGood(c.expected /\ Blackholed(c, o), TRUE)
      [] m = "cpu" -> BadGood(c.load /\ o.load >= c.critical, c.load /\ o.load # -1)
      [] m = "memory" ->
           BadGood(c.usage /\ MemInfoReadable(o) /\ UsagePercent(o) >= c.critical,
                   c.usage /\ MemInfoReadable(o))
      [] m = "disk" /\ a[1] = "DiskPressure" ->
           LET u == Usage(o.stat[a[2]])
           IN  IF u = 1 THEN "near" ELSE BadGood(u = 2, u = 0)
      [] m = "disk" /\ a[1] = "InodePressure" ->
           LET u == Usage(o.stat[a[2]])
           IN  BadGood(u # -1 /\ o.inodes >= c.critical, u # -1)
      [] m = "disk" /\ a[1] = "ReadonlyFilesystem" ->
           LET probes == {WriteProbe(st, o, i) : i \in c.probes}
           IN  IF "readonly" \in {o.stat[i] : i \in DOMAIN Mounts} \/ "failed" \in probes THEN "bad"
               ELSE IF probes = {"ok"} THEN "good" ELSE IF "ok" \in probes THEN "pause" ELSE "none"
      [] m = "dns" -> DNSVerdict(c, a, o)
      [] m \in {"cni", "dnspod"} -> PeerVerdict(m, c, a, o)
      [] m = "plugin" /\ ~Executed(o) -> "bad"
      [] m = "plugin" /\ Executed(o) ->
           CASE Parse(c, o) = "critical" -> "bad" [] Parse(c, o) = "healthy" -> "good"
             [] Parse(c, o) = "warning" -> "pause" [] OTHER -> "none"

----------------------------------------------------------------------------
(* The status applied to what was shown: the last mention counts. *)
Applied(s, conds) ==
    [c \in DOMAIN s |->
        LET named == {i \in DOMAIN conds : conds[i][1] = c}
        IN  IF named = {} THEN s[c] ELSE conds[Max(named)][2]]

ChecksInit ==
    /\ monitor \in Monitors
    /\ cfg \in Configs(monitor)
    /\ st = Fresh(monitor)
    /\ shown = [c \in Conditions(monitor) |-> "none"]
    /\ run = [a \in Alarms(monitor) |-> 0]
    /\ verdict = [a \in Alarms(monitor) |-> "none"]
    /\ due = {} /\ faults = FALSE

(* sendStatus: a full channel drops the status. *)
SendStatus(delivered, conds) == IF delivered THEN Applied(shown, conds) ELSE shown

(* executeCheck: the monitor checks and sends. *)
ExecuteCheck(o, delivered) ==
    LET r == Check(monitor, cfg, st, o)
        says == [a \in Alarms(monitor) |-> Verdict(monitor, cfg, a, o)]
        atLimit == {a[1] : a \in {b \in Alarms(monitor) : run'[b] >= Limit(monitor, cfg, b[1])}}
        counted(a) == says[a] \in {"bad", "near"}
        limit(a) == Limit(monitor, cfg, a[1])
    IN  /\ ~Wedged(monitor, st)
        /\ \A a \in Alarms(monitor) : counted(a) /\ limit(a) > 1 => run[a] < MaxRun
        /\ st' = r.state
        /\ shown' = SendStatus(delivered, r.conds)
        /\ run' = [a \in Alarms(monitor) |->
                      CASE counted(a) -> IF limit(a) = 1 THEN 1 ELSE run[a] + 1
                        [] says[a] = "none" -> run[a] [] OTHER -> 0]
        /\ verdict' = IF delivered THEN says ELSE [a \in Alarms(monitor) |-> "none"]
        /\ due' = atLimit \cup {c \in due : shown'[c] = "True"}
        /\ faults' = (faults \/ ~delivered)
        /\ UNCHANGED <<monitor, cfg>>

(* The agent restarts; the conditions are where they were written. *)
RestartAgent ==
    /\ st' = Fresh(monitor)
    /\ run' = [a \in Alarms(monitor) |-> 0]
    /\ verdict' = [a \in Alarms(monitor) |-> "none"]
    /\ faults' = TRUE
    /\ UNCHANGED <<monitor, cfg, shown, due>>

ChecksNext ==
    \/ \E o \in Inputs(monitor, cfg), delivered \in BOOLEAN : ExecuteCheck(o, delivered)
    \/ RestartAgent

ChecksSpec == ChecksInit /\ [][ChecksNext]_checkVars

----------------------------------------------------------------------------
AlarmsOf(c) == {a \in Alarms(monitor) : a[1] = c}

(* Conditions reported only at an edge: an edge that is lost stays lost.   *)
RaisedOnce == {"APIServerUnreachable", "PluginUnhealthy"}
ClearedOnce == {"APIServerUnreachable", "PluginUnhealthy"} \cup
               (IF monitor = "connectivity" THEN {"NetworkUnreachable"} ELSE {})
(* Conditions the code withdraws never, or only on one of several paths.   *)
LeftStanding == {"PodCapacityPressure", "PodCapacityUnhealthy"}

(* Once every target of an alarm has been bad for as many checks as the    *)
(* limit says, the condition is reported, also when earlier statuses were  *)
(* lost or the agent restarted: counting and reporting survive faults,     *)
(* except for the condition that is raised only once (the failure tracking *)
(* of each monitor, sendStatus).                                           *)
AlarmRaised ==
    \A c \in Conditions(monitor) :
        (/\ c \in RaisedOnce => ~faults
         /\ \A a \in AlarmsOf(c) : verdict[a] = "bad" /\ run[a] >= Limit(monitor, cfg, c))
        => shown[c] = "True"

(* No false alarm: a condition stands only if some target really was bad   *)
(* for that many checks in a row since it was last withdrawn.              *)
AlarmJustified == \A c \in Conditions(monitor) : shown[c] = "True" => c \in due

(* A check that finds every target good withdraws the condition, also one  *)
(* left over from before a restart or from a status that was lost.         *)
AlarmCleared ==
    \A c \in Conditions(monitor) \ LeftStanding :
        (/\ c \in ClearedOnce => ~faults
         /\ \A a \in AlarmsOf(c) : verdict[a] = "good")
        => shown[c] # "True"

(* A plugin that answers "unknown" is one more failed check, not the last  *)
(* check of all (evaluateResult, trackFailure).                            *)
UnknownCounts == monitor = "plugin" => ~st.wedged
=============================================================================
