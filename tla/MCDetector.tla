----------------------------- MODULE MCDetector -----------------------------
(***************************************************************************)
(* The detector for TLC: its reloads, the loading of its configuration,    *)
(* its status pipeline, and the gatekeeper of remediations with more than  *)
(* one caller; in each behaviour one of them is at work.                   *)
(***************************************************************************)
EXTENDS ConfigReload, ConfigLoading, StatusPipeline, RemediatorRegistry

CONSTANT Parts     \* of "reload", "load", "pipeline" and "callers"

VARIABLE part

allVars == <<part, reloadVars, loadingVars, pipelineVars, registryVars>>

AllSettings == {"first", "second"}
AllBlocks   == {"absent", "off"} \cup AllSettings

(* The blocks of the Kubernetes and of the HTTP exporter. *)
Conf(ms, k, h, r) ==
    [valid |-> TRUE, monitors |-> ms, remediation |-> r,
     exporters |-> [e \in {"kubernetes", "http"} |-> IF e = "http" THEN h ELSE k]]
Base    == Conf([m \in {"dns"} |-> "first"], "first", "off", "first")
Dormant == [Base EXCEPT !.remediation = "off"]

(* A new setting of the monitor in a file that no longer has an exporter's *)
(* block, a second monitor, another monitor, new settings of everything    *)
(* together with an exporter that was off, and a file that does not pass   *)
(* validation.                                                             *)
Revised == Conf([m \in {"dns"} |-> "second"], "absent", "off", "first")
Wider   == Conf([m \in {"dns", "disk"} |-> "first"], "first", "off", "second")
Swapped == Conf([m \in {"disk"} |-> "first"], "second", "off", "first")
Rewired == Conf([m \in {"dns"} |-> "second"], "second", "first", "second")
Broken  == [Base EXCEPT !.valid = FALSE]

EditedConfigs  == {Base, Dormant, Revised, Wider, Swapped, Rewired, Broken}
StartedConfigs == {Base, Dormant}

(* A file that leaves most to the defaults, and others that each differ    *)
(* from it or from a fuller one in one entry.                              *)
NoRetry == [maxAttempts |-> 0, baseDelay |-> Unset, maxDelay |-> Unset]
NoAuth  == [type |-> "", token |-> "", username |-> "", password |-> ""]
Entry(n, t) == [name |-> n, type |-> t, enabled |-> TRUE, interval |-> Unset, timeout |-> Unset,
                config |-> {}, remediation |-> {}, dependsOn |-> {}]
Kubelet == Entry("kubelet", "kubernetes-kubelet-check")
DiskEntry == Entry("disk", "system-disk")
GatewayDefault == {[Entry("gateway", "network-gateway-check") EXCEPT !.interval = 30 * Sec]}
AllTypes == {"kubernetes-kubelet-check", "kubernetes-capacity-check", "system-disk",
             "custom-logpattern", "custom-plugin", "network-gateway-check"}
Kube == [enabled |-> TRUE, namespace |-> "kubelet", updateInterval |-> Unset,
         resyncInterval |-> Unset, heartbeatInterval |-> Unset, conditionStaleTTL |-> Unset,
         eventTTL |-> Unset, deduplicationWindow |-> Unset, maxEventsPerMinute |-> 0,
         conditions |-> {"Ready"}, annotations |-> {"note"}]
Hook == [name |-> "hook", url |-> "http://a", timeout |-> Unset, retry |-> NoRetry,
         sendStatus |-> FALSE, sendProblems |-> FALSE, auth |-> NoAuth]
HookController == [enabled |-> TRUE, url |-> "http://a", interval |-> Unset, timeout |-> Unset,
                   retry |-> NoRetry, auth |-> NoAuth]
Http == [enabled |-> TRUE, workers |-> 0, queueSize |-> 0, timeout |-> Unset, retry |-> NoRetry,
         webhooks |-> <<Hook>>, controller |-> {HookController}]
Prom == [enabled |-> TRUE, port |-> 0, path |-> "", namespace |-> "", subsystem |-> ""]
Coord == [enabled |-> TRUE, url |-> "http://a", leaseTimeout |-> Unset, requestTimeout |-> Unset,
          maxRetries |-> 0, retryInterval |-> Unset]
NoBreaker == [enabled |-> "", threshold |-> 0, timeout |-> Unset, successThreshold |-> 0]
Plain ==
    [parses |-> TRUE, apiVersion |-> "v1", kind |-> "NodeDoctorConfig", name |-> "kubelet",
     settings |-> [nodeName |-> "a", logLevel |-> "", logFormat |-> "", logOutput |-> "",
                   logFile |-> "", updateInterval |-> Unset, resyncInterval |-> Unset,
                   heartbeatInterval |-> Unset, qps |-> 0, burst |-> 0],
     monitors |-> <<Kubelet, DiskEntry>>, kubernetes |-> {Kube}, http |-> {}, prometheus |-> {},
     remediation |-> [enabled |-> FALSE, dryRun |-> FALSE, perHour |-> 0, perMinute |-> 0,
                      historySize |-> 0, breaker |-> NoBreaker, coordination |-> {}],
     reload |-> [enabled |-> "", debounce |-> Unset], profiling |-> {}]
Full == [Plain EXCEPT !.http = {Http}, !.prometheus = {Prom}, !.remediation.enabled = TRUE,
                      !.remediation.coordination = {Coord}]

Durations == {Bad, -1, 0, 1, 5 * Sec, 60 * Sec}
Counts    == {-1, 1, 1023, 10001, 100001}
TextsOf   == {"", "odd", "http://b"}
Varied(b, fields, values) == {[b EXCEPT ![f] = v] : f \in fields, v \in values}
VariedRetry(r) == Varied(r, {"baseDelay", "maxDelay"}, Durations) \cup {[r EXCEPT !.maxAttempts = -1]}
VariedAuth == {[NoAuth EXCEPT !.type = t, !.token = u, !.username = u, !.password = v] :
                 t \in {"bearer", "basic", "odd"}, u \in {"", "me"}, v \in {"", "me"}}

VariedSettings ==
    LET s == [Plain.settings EXCEPT !.logFile = "f"]
    IN  Varied(s, {"updateInterval", "resyncInterval", "heartbeatInterval"}, Durations)
        \cup Varied(s, {"qps", "burst"}, Counts)
        \cup Varied(s, {"nodeName", "logLevel", "logFormat", "logOutput"}, TextsOf)
        \cup Varied(Plain.settings, {"logOutput"}, {"file"})

(* Config maps of one or two keys, with numbers, quoted ones and paths. *)
Values == [kind : {"number"}, n : {-1, 0, 100, 101}, form : {"relative"}]
          \cup [kind : {"text"}, n : {50, 101, Bad}, form : {"relative"}]
          \cup [kind : {"text"}, n : {Bad}, form : {"empty", "duration", "dotted", "absolute", "shell"}]
          \cup [kind : {"other"}, n : {Bad}, form : {"relative"}]
PatternText == [kind |-> "text", n |-> Bad, form |-> "absolute"]
Configured(t, keys) ==
    {[Entry("own", t) EXCEPT !.config = {[k \in {key, "pattern"} |-> IF k = key THEN v ELSE PatternText]}] :
       key \in keys, v \in Values}
BlockOf(st) == [enabled |-> TRUE, strategy |-> st, service |-> "", script |-> "relative",
                interface |-> "", triggers |-> {}, maxAttempts |-> 0, cooldown |-> Unset,
                preconditions |-> {}]
VariedBlocks ==
    LET r == [BlockOf("systemd-restart") EXCEPT !.service = "kubelet"]
        q == [type |-> "Ready", status |-> "True", maxAge |-> 60 * Sec]
    IN  {BlockOf(st) : st \in RemediationStrategyNames \cup {"", "restart"}}
        \cup {[BlockOf(st) EXCEPT !.enabled = FALSE] : st \in {"", "restart", "node-reboot"}}
        \cup {r, [r EXCEPT !.triggers = {""}], [r EXCEPT !.maxAttempts = -1],
              [BlockOf("custom-script") EXCEPT !.script = "absolute"],
              [BlockOf("restart-interface") EXCEPT !.interface = "eth0"]}
        \cup Varied(r, {"cooldown"}, Durations)
        \cup {[r EXCEPT !.preconditions = {p}] :
                 p \in Varied(q, {"maxAge"}, Durations \cup {Unset}) \cup Varied(q, {"type", "status"}, TextsOf)}
Nested(b, n) == [policy |-> [BlockOf("restart") EXCEPT !.enabled = FALSE], nested |-> [d \in 1 .. n |-> {b}]]
VariedMonitors ==
    LET one == {Entry(n, t) : n \in {"", "own", "Own", "gateway"}, t \in {"", "custom-plugin", "odd"}}
               \cup Varied(Kubelet, {"interval", "timeout"}, Durations)
               \cup Configured("kubernetes-kubelet-check", {"port", "endpoint", "timeout"})
               \cup Configured("kubernetes-capacity-check", {"cpu", "warningThreshold"})
               \cup Configured("system-disk", {"warning", "path"})
               \cup Configured("custom-logpattern", {"logFile", "pattern"})
               \cup Configured("custom-plugin", {"script", "timeout"})
               \cup {[Kubelet EXCEPT !.remediation = {[policy |-> b, nested |-> <<>>]}] : b \in VariedBlocks}
               \cup {[Kubelet EXCEPT !.remediation = {Nested(b, n)}] :
                       b \in {BlockOf("node-reboot"), [BlockOf("") EXCEPT !.cooldown = Bad]}, n \in {1, 10, 11}}
               \cup Varied(Kubelet, {"dependsOn"}, SUBSET {"kubelet", "none"})
    IN  {<<m>> : m \in one} \cup {<<>>, <<Kubelet, Kubelet>>}
        \cup {<<[Kubelet EXCEPT !.dependsOn = {"disk"}], [DiskEntry EXCEPT !.dependsOn = d]>> :
                d \in SUBSET {"kubelet"}}

VariedHttp ==
    Varied(Http, {"workers", "queueSize"}, Counts) \cup Varied(Http, {"timeout"}, Durations)
    \cup Varied(Http, {"retry"}, VariedRetry(NoRetry))
    \cup Varied(Http, {"webhooks"}, {<<w>> : w \in
        Varied(Hook, {"url", "name"}, TextsOf) \cup Varied(Hook, {"timeout"}, Durations)
        \cup Varied(Hook, {"retry"}, VariedRetry(NoRetry)) \cup Varied(Hook, {"auth"}, VariedAuth)
        \cup Varied(Hook, {"sendStatus", "sendProblems"}, {TRUE})} \cup {<<>>, <<Hook, Hook>>})
    \cup Varied(Http, {"controller"}, {{}} \cup {{c} : c \in
        Varied(HookController, {"url"}, TextsOf) \cup Varied(HookController, {"interval", "timeout"}, Durations)
        \cup Varied(HookController, {"retry"}, VariedRetry(NoRetry))
        \cup Varied(HookController, {"auth"}, VariedAuth)})
    \cup {[Http EXCEPT !.webhooks = <<>>, !.controller = {}], [Http EXCEPT !.enabled = FALSE]}
VariedKube ==
    Varied(Kube, {"updateInterval", "resyncInterval", "heartbeatInterval", "conditionStaleTTL",
                  "eventTTL", "deduplicationWindow"}, Durations)
    \cup Varied(Kube, {"conditions", "annotations"}, {{""}, {}})
    \cup Varied(Kube, {"namespace"}, TextsOf)
    \cup {[Kube EXCEPT !.maxEventsPerMinute = -1], [Kube EXCEPT !.enabled = FALSE]}
VariedProm ==
    Varied(Prom, {"port"}, Counts) \cup Varied(Prom, {"path", "namespace", "subsystem"}, TextsOf)
    \cup {[Prom EXCEPT !.enabled = FALSE]}
VariedRemediation ==
    LET r == [Full.remediation EXCEPT !.breaker.enabled = "on"]
        b == [NoBreaker EXCEPT !.enabled = "on"]
    IN  Varied(r, {"perHour", "perMinute", "historySize"}, {-1, 1})
        \cup Varied(r, {"breaker"}, Varied(b, {"timeout"}, Durations) \cup Varied(b, {"threshold", "successThreshold"}, {-1, 1})
                                     \cup {[b EXCEPT !.enabled = "off", !.timeout = Bad]})
        \cup Varied(r, {"coordination"}, {{c} : c \in
             Varied(Coord, {"leaseTimeout", "requestTimeout", "retryInterval"}, Durations)
             \cup Varied(Coord, {"url"}, TextsOf) \cup {[Coord EXCEPT !.maxRetries = -1]}})

WrittenFiles ==
    Varied(Plain, {"settings"}, VariedSettings) \cup Varied(Plain, {"monitors"}, VariedMonitors)
    \cup Varied(Full, {"http"}, {{h} : h \in VariedHttp})
    \cup Varied(Full, {"kubernetes"}, {{k} : k \in VariedKube})
    \cup Varied(Full, {"prometheus"}, {{p} : p \in VariedProm})
    \cup Varied(Full, {"remediation"}, VariedRemediation)
    \cup Varied(Plain, {"apiVersion", "kind", "name"}, TextsOf)
    \cup {[Plain EXCEPT !.parses = FALSE], [Plain EXCEPT !.reload.debounce = Bad]}

(* Files that differ in what the process is bound to. *)
BoundFiles ==
    {Plain, Full, [Plain EXCEPT !.settings.nodeName = "b"], [Plain EXCEPT !.settings.logOutput = "stderr"],
     [Plain EXCEPT !.settings.logOutput = "file", !.settings.logFile = "f"],
     [Plain EXCEPT !.profiling = {6060}], [Full EXCEPT !.remediation.coordination = {}],
     [Full EXCEPT !.remediation.coordination = {[Coord EXCEPT !.url = "http://b"]}],
     [Plain EXCEPT !.http = {Http}], [Plain EXCEPT !.prometheus = {Prom}]}
AllFiles == WrittenFiles \cup BoundFiles

(* Any of the former in the place of the first file, or up to three of     *)
(* these one after the other.                                              *)
Rewrites(f, n) ==
    IF f \notin BoundFiles THEN {}
    ELSE (BoundFiles \ {f}) \cup (IF n = 0 /\ f = Plain THEN WrittenFiles ELSE {})

Shapes ==
    [n \in {"", "kubelet", "disk", "own", "Own", "gateway", "odd", "http://b"} |->
       [len |-> IF n = "" THEN 0 ELSE 7, plain |-> n \notin {"Own", "http://b"}, ends |-> n # ""]]
Web == {"http://a", "http://b"}
CommandLines ==
    {[debug |-> FALSE, logLevel |-> "", logFormat |-> "", dryRun |-> FALSE, profiling |-> 0],
     [debug |-> TRUE, logLevel |-> "warn", logFormat |-> "text", dryRun |-> TRUE, profiling |-> 7070]}

(* A chain of three, where the middle one is blocked by the first. *)
ChainMonitors  == {"gateway", "dns", "apiserver"}
ChainDependsOn == [m \in ChainMonitors |->
                     CASE m = "dns" -> {"gateway"}
                       [] m = "apiserver" -> {"dns"}
                       [] OTHER -> {}]
ChainPolicy ==
    [m \in ChainMonitors |->
        [enabled |-> FALSE, trigger |-> FALSE, maxAttempts |-> 0, cooldown |-> 0,
         requires |-> NoMonitor, status |-> "True", maxAge |-> 0]]

(* One remediation in the window, one failure that opens the breaker. *)
Strict == [dryRun |-> FALSE, perHour |-> 1, perMinute |-> 0, disabled |-> FALSE,
          threshold |-> 1, timeout |-> 1, successThreshold |-> 2]
OneConfig == {Strict}
OneStrategy == <<"systemd-restart">>

(* The parts that are not at work are in one of their initial states. *)
DetectorInit ==
    /\ part \in Parts
    /\ ReloadInit /\ (part # "reload" => ~disturbed /\ config = Base /\ executor = "registry")
    /\ PipelineInit /\ RegistryInit
    /\ LoadingInit /\ (part # "load" => disk = Plain /\ ~flags.debug)

ReloadsStep ==
    part = "reload" /\ ReloadNext /\ UNCHANGED <<part, loadingVars, pipelineVars, registryVars>>
LoadingStep ==
    part = "load" /\ LoadingNext /\ UNCHANGED <<part, reloadVars, pipelineVars, registryVars>>
PipelineStep ==
    part = "pipeline" /\ PipelineNext /\ UNCHANGED <<part, reloadVars, loadingVars, registryVars>>
CallersStep ==
    part = "callers" /\ RegistryNext /\ UNCHANGED <<part, reloadVars, loadingVars, pipelineVars>>

(* The debounce timer fires and the reload goroutine goes on by itself.    *)
(* Monitors run on tickers, fan-in goroutines and the processing goroutine *)
(* are always ready.  Callers keep dispatching and finish what they began, *)
(* and time passes.                                                        *)
DetectorSpec ==
    /\ DetectorInit /\ [][ReloadsStep \/ LoadingStep \/ PipelineStep \/ CallersStep]_allVars
    /\ WF_reloadVars(part = "reload" /\ DebounceFires)
    /\ WF_reloadVars(part = "reload" /\ ReloadStep)
    /\ WF_pipelineVars(part = "pipeline" /\ ProcessStatus)
    /\ \A m \in Monitors : /\ WF_pipelineVars(part = "pipeline" /\ Report(m))
                           /\ WF_pipelineVars(part = "pipeline" /\ Forward(m))
    /\ WF_registryVars(part = "callers" /\ RegistryTick)
    /\ \A c \in Callers : WF_registryVars(part = "callers" /\ Remediate(c))
=============================================================================
