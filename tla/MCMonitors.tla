----------------------------- MODULE MCMonitors -----------------------------
(***************************************************************************)
(* The monitors for TLC, from the order they are started in to the events  *)
(* and metrics made of what they find; in each behaviour one part is at    *)
(* work.                                                                   *)
(***************************************************************************)
EXTENDS MonitorOrder, MonitorLifecycle, MonitorChecks, KubeletMonitor, LogPatternMonitor,
        EventDelivery, PrometheusMetrics

CONSTANT Parts     \* of "order", "lifecycle", "checks", "kubelet", "log", "events" and "metrics"

VARIABLE part

AllMonitors == {"apiserver", "runtime", "capacity", "gateway", "connectivity", "forwarding",
                "ipv6sysctl", "ipv6route", "ipv6neighbor", "ipv6firewall", "cpu", "memory",
                "disk", "dns", "cni", "dnspod", "plugin"}

ThreeNames == {"gateway", "dns", "apiserver"}
NoSuchName == "gone"

(* At most two dependencies each; the same one twice, itself, unknown.     *)
ShortLists == BoundedSeq(ThreeNames \cup {NoSuchName}, 2)

(* Every list of some of the monitors, in every order. *)
AllLists == SetToAllKPermutations(ThreeNames)

(* A node with two addresses, and another node. *)
ThreeSeries == {[node |-> "n1", ip |-> 1], [node |-> "n1", ip |-> 2], [node |-> "n2", ip |-> 1]}
PortsAndLabels == [port : {9100, 9101, 70000}, labels : {"a", "b", "reserved"}]

vars == <<part, orderVars, lifecycleVars, checkVars, kubeletVars, logVars, eventVars, metricsVars>>

(* The parts that are not at work are in one of their initial states. *)
Init ==
    /\ part \in Parts
    /\ OrderInit /\ (part # "order" => \A m \in Names : dependsOn[m] = <<>>)
    /\ LifecycleInit
    /\ ChecksInit /\ (part # "checks" => monitor = "ipv6route" /\ cfg.expected)
    /\ KubeletInit /\ (part # "kubelet" => breaker = "off" /\ kubelet = "up")
    /\ LogPatternInit /\ (part # "log" => source = "kmsg")
    /\ EventsInit
    /\ MetricsInit /\ promConfig = [port |-> 9100, labels |-> "a"]

OrderStep == /\ part = "order" /\ OrderNext
             /\ UNCHANGED <<part, lifecycleVars, checkVars, kubeletVars, logVars, eventVars,
                            metricsVars>>
LifecycleStep == /\ part = "lifecycle" /\ LifecycleNext
                 /\ UNCHANGED <<part, orderVars, checkVars, kubeletVars, logVars, eventVars,
                                metricsVars>>
CheckStep == /\ part = "checks" /\ ChecksNext
             /\ UNCHANGED <<part, orderVars, lifecycleVars, kubeletVars, logVars, eventVars,
                            metricsVars>>
KubeletStep == /\ part = "kubelet" /\ KubeletNext
               /\ UNCHANGED <<part, orderVars, lifecycleVars, checkVars, logVars, eventVars,
                              metricsVars>>
LogStep == /\ part = "log" /\ LogPatternNext
           /\ UNCHANGED <<part, orderVars, lifecycleVars, checkVars, kubeletVars, eventVars,
                          metricsVars>>
EventStep == /\ part = "events" /\ EventsNext
             /\ UNCHANGED <<part, orderVars, lifecycleVars, checkVars, kubeletVars, logVars,
                            metricsVars>>
MetricsStep == /\ part = "metrics" /\ MetricsNext
               /\ UNCHANGED <<part, orderVars, lifecycleVars, checkVars, kubeletVars, logVars,
                              eventVars>>

(* Of the kubelet monitor: time passes, the ticker goes on                 *)
(* (BaseMonitor.run), and the fan-in that empties the channel is never so  *)
(* slow that every status of a check that ran is dropped.                  *)
Spec ==
    /\ Init
    /\ [][\/ OrderStep \/ LifecycleStep \/ CheckStep \/ KubeletStep
          \/ LogStep \/ EventStep \/ MetricsStep]_vars
    /\ WF_kubeletVars(part = "kubelet" /\ ClockTick)
    /\ SF_kubeletVars(part = "kubelet" /\ \E o \in Observations : RunCheck(o, TRUE))
=============================================================================
