-------------------------- MODULE PrometheusMetrics --------------------------
(***************************************************************************)
(* The Prometheus exporter (pkg/exporters/prometheus): series written by   *)
(* the detector's one processing goroutine, and the HTTP server that shows *)
(* them, both replaced under way by a reload.                              *)
(*                                                                         *)
(* ExportStatus writes through e.metrics without the exporter's lock, so a *)
(* reload may put new metrics in place between any two writes of it.       *)
(* Reload itself holds the lock, and what it replaces is seen by a write   *)
(* through e.metrics alone; it is one step.  A metrics object is known by  *)
(* the number of the registry it is registered with.  Series are label     *)
(* combinations; their values, the counters and the declarations of the    *)
(* metrics are left out, and so are the series of metrics that have been   *)
(* replaced: nobody can read those.                                        *)
(***************************************************************************)
EXTENDS Integers, FiniteSets

CONSTANTS
    PeerKeys,     \* peerSeriesKey: [node, ip]
    PromConfigs,  \* [port, labels]: labels "reserved" clash with the metrics' own
    MaxMetricsReloads

VARIABLES
    promConfig,      \* e.config
    promStarted,     \* e.started
    promRegistry,    \* e.registry
    metrics,         \* e.metrics
    promServer,      \* the registry that is served, 0 for none
    peerSeries,      \* of e.metrics: PeerLatencySeconds, PeerLatencyAvgSeconds, PeerReachable
    peerHistogram,   \* of e.metrics: PeerLatencyHistogram, by peer node
    scores,          \* of e.metrics: nameservers with health scores
    problemsActive,  \* of e.metrics: problems the gauge counts
    activeProblems,  \* e.activeProblems
    lastPeerSeries,  \* e.lastPeerSeries
    export,          \* the ExportStatus under way
    lastReport,      \* history: the last peers written as a whole to these metrics
    metricsReloads,  \* reloads so far
    reloadFault      \* history: "none", "bind" or "register", the worst that a reload ran into

metricsVars == <<promConfig, promStarted, promRegistry, metrics, promServer, peerSeries,
                 peerHistogram, scores, problemsActive, activeProblems, lastPeerSeries, export,
                 lastReport, metricsReloads, reloadFault>>
series == <<peerSeries, peerHistogram, scores, problemsActive>>
exporterVars == <<promConfig, promStarted, promRegistry, metrics, promServer>>
reloading == <<metricsReloads, reloadFault>>

NoExport == [stage |-> "none", peers |-> {}, left |-> {}, scored |-> {}, whole |-> TRUE]
NodesOf(keys) == {k.node : k \in keys}

(* A status that carries latency metrics: of the CNI monitor, of the DNS   *)
(* monitor, or of another one, which has neither peers nor nameservers.    *)
LatencyStatuses == {[peers |-> p, scored |-> {}] : p \in SUBSET PeerKeys}
                   \cup {[peers |-> {}, scored |-> {"ns"}]}

(* validateConfig, of the parts that may be wrong. *)
ValidateConfig(c) == c.port \in 0 .. 65535

(* newPrometheusExporter and Start; an exporter that cannot bind its port  *)
(* is dropped by main.                                                     *)
MetricsInit ==
    /\ promConfig \in {c \in PromConfigs : ValidateConfig(c) /\ c.labels # "reserved"}
    /\ promStarted = TRUE /\ promRegistry = 1 /\ metrics = 1 /\ promServer = 1
    /\ peerSeries = {} /\ peerHistogram = {} /\ scores = {} /\ problemsActive = {}
    /\ activeProblems = {} /\ lastPeerSeries = {} /\ export = NoExport
    /\ lastReport = {} /\ metricsReloads = 0 /\ reloadFault = "none"

(* ExportStatus up to recordLatencyMetrics. *)
BeginExport(s) ==
    /\ promStarted /\ export.stage = "none"
    /\ export' = [stage |-> "peers", peers |-> s.peers, left |-> s.peers, scored |-> s.scored,
                  whole |-> TRUE]
    /\ UNCHANGED <<exporterVars, series, activeProblems, lastPeerSeries, lastReport, reloading>>

(* One turn of the loop over the peers. *)
WritePeer(k) ==
    /\ export.stage = "peers" /\ k \in export.left
    /\ peerSeries' = peerSeries \cup {k}
    /\ peerHistogram' = peerHistogram \cup {k.node}
    /\ export' = [export EXCEPT !.left = @ \ {k}]
    /\ UNCHANGED <<exporterVars, scores, problemsActive, activeProblems, lastPeerSeries, lastReport,
                   reloading>>

(* reconcilePeerSeries, the locked part; not called without peers. *)
SwapPeerSeries ==
    /\ export.stage = "peers" /\ export.left = {} /\ export.peers # {}
    /\ lastPeerSeries' = export.peers
    /\ export' = [export EXCEPT !.stage = "gone", !.left = lastPeerSeries \ export.peers]
    /\ UNCHANGED <<exporterVars, series, activeProblems, lastReport, reloading>>

MutDropsHistogram(gone, current) == NodesOf(gone)

(* Nodes whose histogram goes: those no current series is of. *)
GoneNodes(gone, current) == NodesOf(gone) \ NodesOf(current)

(* reconcilePeerSeries, the loops that delete: new metrics put in place    *)
(* between two deletions have nothing to delete.                           *)
DeleteGone ==
    /\ export.stage = "gone"
    /\ peerSeries' = peerSeries \ export.left
    /\ peerHistogram' = peerHistogram \ GoneNodes(export.left, export.peers)
    /\ export' = [export EXCEPT !.stage = "rest"]
    /\ UNCHANGED <<exporterVars, scores, problemsActive, activeProblems, lastPeerSeries, lastReport,
                   reloading>>

(* The rest of recordLatencyMetrics: the scores of every nameserver are    *)
(* reset, also by a status that has none.                                  *)
EndExport ==
    /\ export.stage = "rest" \/ (export.stage = "peers" /\ export.peers = {})
    /\ scores' = export.scored
    /\ lastReport' = IF export.peers = {} THEN lastReport
                     ELSE IF export.whole THEN export.peers ELSE {}
    /\ export' = NoExport
    /\ UNCHANGED <<exporterVars, peerSeries, peerHistogram, problemsActive, activeProblems,
                   lastPeerSeries, reloading>>

(* ExportProblem and updateActiveProblemsGauge, under the lock. *)
ExportProblem(p) ==
    /\ promStarted
    /\ activeProblems' = activeProblems \cup {p}
    /\ problemsActive' = activeProblems'
    /\ UNCHANGED <<exporterVars, peerSeries, peerHistogram, scores, lastPeerSeries, export, lastReport,
                   reloading>>

----------------------------------------------------------------------------
NeedsMetricsRecreation(c) == c.labels # promConfig.labels
NeedsServerRestart(c) == c.port # promConfig.port \/ NeedsMetricsRecreation(c)

FreshRegistry == metricsReloads + 2

(* The registry the metrics of configuration c are registered with. *)
RegistryFor(c) == IF NeedsMetricsRecreation(c) THEN FreshRegistry ELSE promRegistry

(* Register fails when a constant label has the name of one of the         *)
(* metrics' own.                                                           *)
Registers(c) == NeedsMetricsRecreation(c) => c.labels # "reserved"

(* startHTTPServer, if the exporter was started. *)
ServeOn(r, binds) == IF promStarted /\ binds THEN r ELSE 0

(* Reload of a configuration that needs no new server. *)
ReloadInPlace(c) ==
    /\ metricsReloads < MaxMetricsReloads
    /\ ValidateConfig(c) /\ ~NeedsServerRestart(c)
    /\ promConfig' = c
    /\ metricsReloads' = metricsReloads + 1
    /\ UNCHANGED <<promStarted, promRegistry, metrics, promServer, series, activeProblems,
                   lastPeerSeries, export, lastReport, reloadFault>>

(* The new metrics cannot be registered: the server is down by then and    *)
(* e.registry replaced, e.metrics and e.config are not.                    *)
ReloadCannotRegister(c) ==
    /\ metricsReloads < MaxMetricsReloads
    /\ ValidateConfig(c) /\ ~Registers(c)
    /\ promServer' = 0
    /\ promRegistry' = RegistryFor(c)
    /\ metricsReloads' = metricsReloads + 1
    /\ reloadFault' = "register"
    /\ UNCHANGED <<promConfig, promStarted, metrics, series, activeProblems, lastPeerSeries,
                   export, lastReport>>

(* Reload with a new server, on new metrics or the old ones.  When the     *)
(* port cannot be bound, e.config stays the old one.                       *)
ReloadRestarts(c, binds) ==
    /\ metricsReloads < MaxMetricsReloads
    /\ ValidateConfig(c) /\ NeedsServerRestart(c) /\ Registers(c)
    /\ promRegistry' = RegistryFor(c)
    /\ metrics' = IF NeedsMetricsRecreation(c) THEN FreshRegistry ELSE metrics
    /\ IF NeedsMetricsRecreation(c)
       THEN /\ peerSeries' = {} /\ peerHistogram' = {} /\ scores' = {} /\ problemsActive' = {}
            /\ activeProblems' = {} /\ lastReport' = {}
            /\ export' = IF export = NoExport THEN export ELSE [export EXCEPT !.whole = FALSE]
       ELSE UNCHANGED <<series, activeProblems, lastReport, export>>
    /\ promServer' = ServeOn(promRegistry', binds)
    /\ promConfig' = IF promStarted /\ ~binds THEN promConfig ELSE c
    /\ metricsReloads' = metricsReloads + 1
    /\ reloadFault' = IF reloadFault = "none" /\ promStarted /\ ~binds THEN "bind" ELSE reloadFault
    /\ UNCHANGED <<promStarted, lastPeerSeries>>

StopExporter ==
    /\ promStarted
    /\ promStarted' = FALSE /\ promServer' = 0
    /\ UNCHANGED <<promConfig, promRegistry, metrics, series, activeProblems, lastPeerSeries,
                   export, lastReport, reloading>>

MetricsNext ==
    \/ \E s \in LatencyStatuses : BeginExport(s)
    \/ \E k \in PeerKeys : WritePeer(k)
    \/ SwapPeerSeries
    \/ DeleteGone
    \/ EndExport
    \/ ExportProblem("disk")
    \/ \E c \in PromConfigs : ReloadInPlace(c) \/ ReloadCannotRegister(c)
    \/ \E c \in PromConfigs, binds \in BOOLEAN : ReloadRestarts(c, binds)
    \/ StopExporter

MetricsSpec == MetricsInit /\ [][MetricsNext]_metricsVars

----------------------------------------------------------------------------
(* What a scrape shows is what was exported.  As long as no reload ran     *)
(* into an error, a started exporter serves the registry its metrics are   *)
(* written to; the peers shown are those of the last report, no peer that  *)
(* has left among them and none without its histogram, whatever a reload   *)
(* put in place half way through an export (ExportStatus,                  *)
(* reconcilePeerSeries, Reload).  After a port could not be bound nothing  *)
(* is served, but never something stale.                                   *)
ScrapeIsCurrent ==
    /\ promStarted /\ reloadFault = "none" => promServer = metrics
    /\ promServer # 0 /\ reloadFault # "register" => promServer = metrics
    /\ export.stage = "none" =>
         /\ peerSeries \subseteq lastPeerSeries
         /\ NodesOf(peerSeries) = peerHistogram
         /\ lastReport # {} => peerSeries = lastReport

(* What makes it so, at every stage of an export: the series are those of  *)
(* the last report or already written by this one, and metrics that a      *)
(* reload has put in place half way hold none but the latter.              *)
ExportTypeOK ==
    /\ export.stage = "none" => export = NoExport
    /\ export \in [stage : {"none", "peers", "gone", "rest"}, peers : SUBSET PeerKeys,
                   left : SUBSET PeerKeys, scored : SUBSET {"ns"}, whole : BOOLEAN]
    /\ promStarted \in BOOLEAN /\ lastPeerSeries \subseteq PeerKeys
Written == export.peers \ export.left
SeriesTracked ==
    /\ NodesOf(peerSeries) = peerHistogram
    /\ export.stage \in {"none", "peers"} => peerSeries \subseteq lastPeerSeries \cup Written
    /\ export.stage = "peers" =>
         /\ export.left \subseteq export.peers
         /\ IF export.whole THEN Written \subseteq peerSeries ELSE peerSeries \subseteq Written
    /\ (export.peers = {} /\ lastReport # {}) => peerSeries = lastReport
    /\ export.stage = "gone" =>
         /\ export.peers # {}
         /\ export.left \cap export.peers = {} /\ lastPeerSeries = export.peers
         /\ peerSeries \subseteq export.left \cup export.peers
         /\ IF export.whole THEN export.peers \subseteq peerSeries
            ELSE peerSeries \subseteq export.peers
    /\ export.stage = "rest" =>
         /\ export.peers # {}
         /\ lastPeerSeries = export.peers /\ peerSeries \subseteq export.peers
         /\ export.whole => peerSeries = export.peers
ServedIsWritten ==
    /\ reloadFault # "register" => promRegistry = metrics
    /\ promStarted /\ reloadFault = "none" => promServer = metrics
    /\ promServer # 0 /\ reloadFault # "register" => promServer = metrics
=============================================================================
