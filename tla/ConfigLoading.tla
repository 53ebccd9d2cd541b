--------------------------- MODULE ConfigLoading ---------------------------
(***************************************************************************)
(* How a configuration file becomes the configuration of the process:      *)
(* LoadConfig (pkg/util/config.go) with ApplyDefaults and Validate of      *)
(* every block (pkg/types/config.go), the normalization that startup and   *)
(* reload share (cmd/node-doctor/main.go), the two gates behind it, that   *)
(* of startup (ValidateWithRegistry) and that of a reload (ConfigValidator *)
(* in pkg/reload/validator.go), and the report of what a reload cannot     *)
(* apply (pkg/reload/reloadability.go).                                    *)
(*                                                                         *)
(* An optional block is a set of at most one record.  As in Go, an absent  *)
(* number is 0 and an absent text is "".  A duration, in milliseconds, is  *)
(* Unset when absent and Bad when ParseDuration refuses it.  An absent     *)
(* retry block is one without any field: the code gives both the same      *)
(* defaults.  Environment variables are substituted before all this.       *)
(***************************************************************************)
EXTENDS Integers, Sequences, FiniteSets, SequencesExt

CONSTANTS
    Unset, Bad,        \* an absent duration; one that does not parse
    NameShape,         \* of every name: its length, its characters, its ends
    WebURLs,           \* the URLs that begin with http:// or https://
    RegisteredTypes,   \* monitor types of the registry
    DefaultMonitors,   \* DefaultConfig of those that have one
    FlagChoices,       \* command lines
    Files,             \* what a configuration file may be
    FirstFiles,        \* what it may be at first
    MaxEdits,          \* bound on its edits
    EditsOf(_, _)      \* what an edit may make of a file, after so many edits

ASSUME LoadingAssumption ==
    /\ Unset # Bad /\ Unset \notin Int
    /\ IsFiniteSet(DefaultMonitors)
    /\ \A m \in DefaultMonitors : m.type \in RegisteredTypes
    /\ \A m, k \in DefaultMonitors : m.type = k.type => m = k

VARIABLES
    disk,      \* the file
    edits,     \* edits so far
    flags,     \* the command line
    booted,    \* the configuration the agent started with, while it runs
    live,      \* the coordinator's currentConfig
    source,    \* the file contents live was made from
    reported   \* what the running process was reported to need a restart for

loadingVars == <<disk, edits, flags, booted, live, source, reported>>

Sec == 1000
Minute == 60 * Sec
Text(x, d)  == IF x = "" THEN d ELSE x
Count(x, d) == IF x = 0 THEN d ELSE x
Time(x, d)  == IF x = Unset THEN d ELSE x
Parse(b, fields)    == \A f \in fields : b[f] # Bad
Positive(b, fields) == \A f \in fields : b[f] > 0

----------------------------------------------------------------------------
(* The fields of every block. *)
Has(b, fields) == fields \subseteq DOMAIN b
IsMonitor(m) ==
    Has(m, {"name", "type", "enabled", "interval", "timeout", "config", "remediation", "dependsOn"})
IsEndpoint(w) ==
    Has(w, {"url", "timeout", "retry", "auth"})
    /\ Has(w.auth, {"type", "token", "username", "password"})
IsHTTP(h) ==
    /\ Has(h, {"enabled", "workers", "queueSize", "timeout", "retry", "webhooks", "controller"})
    /\ h.webhooks \in Seq(ToSet(h.webhooks))
    /\ \A i \in DOMAIN h.webhooks :
         IsEndpoint(h.webhooks[i]) /\ Has(h.webhooks[i], {"name", "sendStatus", "sendProblems"})
    /\ \A c \in h.controller : IsEndpoint(c) /\ Has(c, {"enabled", "interval"})
IsRemediation(r) ==
    /\ Has(r, {"enabled", "dryRun", "perHour", "perMinute", "historySize", "breaker", "coordination"})
    /\ Has(r.breaker, {"enabled", "threshold", "timeout", "successThreshold"})
    /\ \A c \in r.coordination :
         Has(c, {"enabled", "url", "leaseTimeout", "requestTimeout", "maxRetries", "retryInterval"})
IsFile(f) ==
    /\ Has(f, {"parses", "apiVersion", "kind", "name", "settings", "monitors", "kubernetes", "http",
               "prometheus", "remediation", "reload", "profiling"})
    /\ Has(f.settings, {"nodeName", "logLevel", "logFormat", "logOutput", "logFile", "updateInterval",
                        "resyncInterval", "heartbeatInterval", "qps", "burst"})
    /\ f.monitors \in Seq(ToSet(f.monitors)) /\ \A m \in ToSet(f.monitors) : IsMonitor(m)
    /\ \A k \in f.kubernetes :
         Has(k, {"enabled", "namespace", "updateInterval", "resyncInterval", "heartbeatInterval",
                 "conditionStaleTTL", "eventTTL", "deduplicationWindow", "maxEventsPerMinute",
                 "conditions", "annotations"})
    /\ \A h \in f.http : IsHTTP(h)
    /\ \A p \in f.prometheus : Has(p, {"enabled", "port", "path", "namespace", "subsystem"})
    /\ IsRemediation(f.remediation)

----------------------------------------------------------------------------
(* ApplyDefaults, block by block; what does not parse ends it. *)
SettingsDefaults(s) ==
    [s EXCEPT !.logLevel = Text(@, "info"), !.logFormat = Text(@, "json"),
              !.logOutput = Text(@, "stdout"), !.updateInterval = Time(@, 10 * Sec),
              !.resyncInterval = Time(@, 60 * Sec), !.heartbeatInterval = Time(@, 5 * Minute),
              !.qps = Count(@, 50), !.burst = Count(@, 100)]

(* Cooldowns and ages have no default.  nested[d] holds the strategies     *)
(* nested d deep.                                                          *)
MaxRecursionDepth == 10
Blocks(r) == {r.policy} \cup UNION ToSet(r.nested)
RemediationParses(r) ==
    /\ Len(r.nested) <= MaxRecursionDepth
    /\ \A p \in Blocks(r) : Parse(p, {"cooldown"}) /\ \A q \in p.preconditions : Parse(q, {"maxAge"})

MonitorDefaults(m) ==
    [m EXCEPT !.interval = Time(@, 30 * Sec), !.timeout = Time(@, 10 * Sec)]

KubernetesDefaults(k) ==
    [k EXCEPT !.updateInterval = Time(@, 10 * Sec), !.resyncInterval = Time(@, 60 * Sec),
              !.heartbeatInterval = Time(@, 5 * Minute), !.conditionStaleTTL = Time(@, 6 * Minute)]

RetryDefaults(r, d) ==
    [maxAttempts |-> Count(r.maxAttempts, d.maxAttempts),
     baseDelay |-> Time(r.baseDelay, d.baseDelay), maxDelay |-> Time(r.maxDelay, d.maxDelay)]
Retry(n, b, m) == [maxAttempts |-> n, baseDelay |-> b, maxDelay |-> m]

(* A webhook takes what it does not say from the exporter, and sends both  *)
(* kinds when it names neither.                                            *)
WebhookDefaults(w, h) ==
    LET both == ~w.sendStatus /\ ~w.sendProblems
    IN  [w EXCEPT !.timeout = Time(@, h.timeout), !.retry = RetryDefaults(@, h.retry),
                  !.sendStatus = @ \/ both, !.sendProblems = @ \/ both,
                  !.auth.type = Text(@, "none")]

ControllerDefaults(c) ==
    [c EXCEPT !.interval = Time(@, 30 * Sec), !.timeout = Time(@, 10 * Sec),
              !.auth.type = Text(@, "none"),
              !.retry = RetryDefaults(@, Retry(3, 1 * Sec, 10 * Sec))]

HTTPDefaults(h) ==
    LET own == [h EXCEPT !.workers = Count(@, 5), !.queueSize = Count(@, 100),
                         !.timeout = Time(@, 30 * Sec),
                         !.retry = RetryDefaults(@, Retry(3, 1 * Sec, 30 * Sec))]
    IN  [own EXCEPT !.webhooks = [i \in DOMAIN @ |-> WebhookDefaults(@[i], own)],
                    !.controller = {ControllerDefaults(c) : c \in @}]

DefaultPrometheusPort == 9100
PrometheusDefaults(p) ==
    [p EXCEPT !.port = Count(@, DefaultPrometheusPort), !.path = Text(@, "/metrics"),
              !.namespace = Text(@, "node_doctor")]

CoordinationDefaults(c) ==
    [c EXCEPT !.leaseTimeout = Time(@, 5 * Minute), !.requestTimeout = Time(@, 10 * Sec),
              !.maxRetries = Count(@, 3), !.retryInterval = Time(@, 5 * Sec)]

(* CircuitBreakerConfig.isSet: not turned off, and something is said. *)
BreakerIsSet(b) ==
    /\ b.enabled # "off"
    /\ b.enabled = "on" \/ b.threshold # 0 \/ b.timeout # Unset \/ b.successThreshold # 0

BreakerDefaults(b) ==
    IF ~BreakerIsSet(b) THEN b
    ELSE [b EXCEPT !.threshold = Count(@, 5), !.timeout = Time(@, 30 * Minute),
                   !.successThreshold = Count(@, 2)]

RemediationDefaults(r) ==
    [r EXCEPT !.perHour = Count(@, 10), !.perMinute = Count(@, 2), !.historySize = Count(@, 100),
              !.breaker = BreakerDefaults(@),
              !.coordination = {CoordinationDefaults(c) : c \in @}]

ReloadDefaults(r) == [r EXCEPT !.enabled = Text(@, "on"), !.debounce = Time(@, 500)]

ApplyDefaults(c) ==
    [c EXCEPT !.settings = SettingsDefaults(@),
              !.monitors = [i \in DOMAIN @ |-> MonitorDefaults(@[i])],
              !.kubernetes = {KubernetesDefaults(k) : k \in @},
              !.http = {HTTPDefaults(h) : h \in @},
              !.prometheus = {PrometheusDefaults(p) : p \in @},
              !.remediation = RemediationDefaults(@), !.reload = ReloadDefaults(@)]

(* Whether every duration ApplyDefaults parses is one. *)
DefaultsApply(c) ==
    /\ Parse(c.settings, {"updateInterval", "resyncInterval", "heartbeatInterval"})
    /\ \A m \in ToSet(c.monitors) :
         Parse(m, {"interval", "timeout"}) /\ \A r \in m.remediation : RemediationParses(r)
    /\ \A k \in c.kubernetes :
         Parse(k, {"updateInterval", "resyncInterval", "heartbeatInterval", "conditionStaleTTL",
                   "eventTTL", "deduplicationWindow"})
    /\ \A h \in c.http :
         /\ Parse(h, {"timeout"}) /\ Parse(h.retry, {"baseDelay", "maxDelay"})
         /\ \A w \in ToSet(h.webhooks) : Parse(w, {"timeout"}) /\ Parse(w.retry, {"baseDelay", "maxDelay"})
         /\ \A k \in h.controller :
              Parse(k, {"interval", "timeout"}) /\ Parse(k.retry, {"baseDelay", "maxDelay"})
    /\ BreakerIsSet(c.remediation.breaker) => Parse(c.remediation.breaker, {"timeout"})
    /\ \A k \in c.remediation.coordination :
         Parse(k, {"leaseTimeout", "requestTimeout", "retryInterval"})
    /\ Parse(c.reload, {"debounce"})

----------------------------------------------------------------------------
(* Validate, block by block. *)
MaxQPS == 10000
MaxBurst == 100000
MaxPort == 65535
SettingsValid(s) ==
    /\ s.nodeName # ""
    /\ s.logLevel \in {"debug", "info", "warn", "error", "fatal"}
    /\ s.logFormat \in {"json", "text"}
    /\ s.logOutput \in {"stdout", "stderr", "file"}
    /\ s.logOutput = "file" => s.logFile # ""
    /\ Positive(s, {"updateInterval", "resyncInterval"})
    /\ s.heartbeatInterval >= 5 * Sec
    /\ s.qps \in 1 .. MaxQPS /\ s.burst \in 1 .. MaxBurst

(* validateMonitorThresholds: numbers only; a quoted one is not looked at. *)
ThresholdFields ==
    {"warningLoadFactor", "criticalLoadFactor", "warningThreshold", "criticalThreshold",
     "swapWarningThreshold", "swapCriticalThreshold", "inodeWarning", "inodeCritical"}
ThresholdsValid(g) ==
    \A f \in ThresholdFields \cap DOMAIN g : g[f].kind = "number" => g[f].n \in 0 .. 100

(* validatePolicy. *)
PolicyValid(p) ==
    /\ "" \notin p.triggers /\ p.maxAttempts >= 0
    /\ p.cooldown # Unset => p.cooldown >= 0
    /\ \A q \in p.preconditions :
         q.type # "" /\ q.status \in {"True", "False"} /\ q.maxAge # Unset /\ q.maxAge > 0

RemediationStrategyNames ==
    {"systemd-restart", "custom-script", "node-reboot", "pod-delete", "flush-dns",
     "restart-interface", "reset-routing", "flush-ipv6-route"}
BlockValid(p) ==
    p.enabled =>
      /\ p.strategy \in RemediationStrategyNames
      /\ p.strategy = "systemd-restart" => p.service # ""
      /\ p.strategy = "custom-script" => p.script = "absolute"
      /\ p.strategy = "restart-interface" => p.interface # ""
      /\ PolicyValid(p)

(* Nested strategies are looked at when the block they are in is on. *)
RemediationValid(r) ==
    r.policy.enabled => Len(r.nested) <= MaxRecursionDepth /\ \A p \in Blocks(r) : BlockValid(p)

MonitorValid(m) ==
    /\ m.name # "" /\ m.type # ""
    /\ m.interval >= 1 * Sec /\ m.timeout > 0 /\ m.timeout < m.interval
    /\ \A g \in m.config : ThresholdsValid(g)
    /\ \A r \in m.remediation : RemediationValid(r)

KubernetesValid(k) ==
    k.enabled =>
      /\ Positive(k, {"updateInterval", "resyncInterval", "heartbeatInterval", "conditionStaleTTL"})
      /\ "" \notin k.conditions \cup k.annotations
      /\ k.maxEventsPerMinute >= 0
      /\ \A f \in {"eventTTL", "deduplicationWindow"} : k[f] # Unset => k[f] > 0

RetryValid(r) == r.maxAttempts >= 0 /\ r.baseDelay > 0 /\ r.baseDelay <= r.maxDelay

AuthValid(a) ==
    \/ a.type = "none"
    \/ a.type = "bearer" /\ a.token # ""
    \/ a.type = "basic" /\ a.username # "" /\ a.password # ""

WebhookValid(w) ==
    /\ w.url \in WebURLs /\ w.timeout > 0 /\ RetryValid(w.retry) /\ AuthValid(w.auth)
    /\ w.sendStatus \/ w.sendProblems

ControllerValid(c) ==
    c.enabled => /\ c.url \in WebURLs /\ Positive(c, {"interval", "timeout"})
                 /\ AuthValid(c.auth) /\ RetryValid(c.retry)

(* Names of webhooks may be left out, but not used twice. *)
HTTPValid(h) ==
    h.enabled =>
      /\ Positive(h, {"workers", "queueSize", "timeout"}) /\ RetryValid(h.retry)
      /\ h.webhooks # <<>> \/ \E c \in h.controller : c.enabled
      /\ \A i \in DOMAIN h.webhooks :
           /\ WebhookValid(h.webhooks[i])
           /\ \A j \in DOMAIN h.webhooks :
                (i # j /\ h.webhooks[i].name # "") => h.webhooks[i].name # h.webhooks[j].name
      /\ \A c \in h.controller : ControllerValid(c)

(* MetricNames stands for what the namespace pattern matches. *)
PathTexts == {"/metrics", "/"}
MetricNames == {"node_doctor", "agent"}
PrometheusValid(p) ==
    p.enabled => /\ p.port \in 1 .. MaxPort /\ p.path \in PathTexts
                 /\ {p.namespace, p.subsystem} \subseteq MetricNames \cup {""}

CoordinationValid(c) ==
    c.enabled => /\ c.url \in WebURLs /\ c.maxRetries >= 0
                 /\ Positive(c, {"leaseTimeout", "requestTimeout", "retryInterval"})

GlobalRemediationValid(r) ==
    /\ r.perHour >= 0 /\ r.perMinute >= 0 /\ r.historySize > 0
    /\ BreakerIsSet(r.breaker) => Positive(r.breaker, {"threshold", "timeout", "successThreshold"})
    /\ \A c \in r.coordination : CoordinationValid(c)

NamesDiffer(ms) == \A i, j \in DOMAIN ms : i # j => ms[i].name # ms[j].name

Validate(c) ==
    /\ c.apiVersion # "" /\ c.kind = "NodeDoctorConfig" /\ c.name # ""
    /\ SettingsValid(c.settings)
    /\ NamesDiffer(c.monitors) /\ \A m \in ToSet(c.monitors) : MonitorValid(m)
    /\ \A k \in c.kubernetes : KubernetesValid(k)
    /\ \A h \in c.http : HTTPValid(h)
    /\ \A p \in c.prometheus : PrometheusValid(p)
    /\ GlobalRemediationValid(c.remediation)

(* The configuration read from a file, if it parses and passes. *)
LoadConfig(f) ==
    IF f.parses /\ DefaultsApply(f) THEN {c \in {ApplyDefaults(f)} : Validate(c)} ELSE {}

(* The configurations types are registered with are sound, and a file      *)
(* stays one when it is edited.                                            *)
ASSUME FilesAssumption ==
    /\ \A d \in DefaultMonitors : IsMonitor(d) /\ MonitorValid(MonitorDefaults(d))
    /\ FirstFiles \subseteq Files /\ \A f \in Files : IsFile(f)
    /\ MaxEdits \in Nat
    /\ \A f \in Files, n \in 0 .. MaxEdits - 1 : EditsOf(f, n) \subseteq Files

----------------------------------------------------------------------------
(* ApplyDefaultMonitors: a registered type with a default that no monitor  *)
(* of the file has is added.  They come in no particular order.            *)
ApplyDefaultMonitors(c) ==
    LET types == {m.type : m \in ToSet(c.monitors)}
    IN  [c EXCEPT !.monitors = @ \o SetToSeq({d \in DefaultMonitors : d.type \notin types})]

(* The command line wins over the file. *)
ApplyFlags(c) ==
    [c EXCEPT !.settings.logLevel = Text(flags.logLevel, IF flags.debug THEN "debug" ELSE @),
              !.settings.logFormat = Text(flags.logFormat, @),
              !.remediation.dryRun = @ \/ flags.dryRun,
              !.profiling = IF flags.profiling = 0 THEN @ ELSE {flags.profiling}]

Normalize(c) == ApplyDefaults(ApplyFlags(ApplyDefaultMonitors(c)))

(* Every dependency exists and none leads back: in any group of monitors   *)
(* one depends on none of the group.  Both depth-first searches decide it. *)
DependenciesSound(ms) ==
    LET names   == {m.name : m \in ToSet(ms)}
        deps(n) == UNION {m.dependsOn : m \in {k \in ToSet(ms) : k.name = n}}
    IN  /\ \A n \in names : deps(n) \subseteq names
        /\ \A group \in (SUBSET names) \ {{}} : \E n \in group : deps(n) \cap group = {}

ValidateWithRegistry(c) ==
    /\ Validate(c)
    /\ \A m \in ToSet(c.monitors) : m.type \in RegisteredTypes
    /\ DependenciesSound(c.monitors)

(* What startup makes of a file, if it does not end there. *)
Started(f) == {c \in {Normalize(g) : g \in LoadConfig(f)} : ValidateWithRegistry(c)}

----------------------------------------------------------------------------
(* The validator of reloads. *)
MaxMonitors == 100
MaxWebhooksPerExporter == 50
MaxDependenciesPerMonitor == 20
MaxNameLength == 63

IsValidKubernetesName(n) ==
    NameShape[n].len \in 1 .. MaxNameLength /\ NameShape[n].plain /\ NameShape[n].ends

(* A value of a monitor's config map: what kind it is, the number it is or *)
(* reads as (Bad when it is none), and the form of the text it prints as.  *)
(* There is one text of each number and form.                              *)
Holds(g, key, P(_)) == key \in DOMAIN g => P(g[key])
Numeric(v) == v.kind \in {"number", "text"} /\ v.n # Bad
ValidatePort(v) == Numeric(v) /\ v.n \in 1 .. MaxPort
ValidateThresholdValue(v) == Numeric(v) /\ v.n \in 0 .. 100
NonEmptyText(v) == v.kind = "text" /\ v.form # "empty"
DurationText(v) == v.kind = "text" /\ v.form \in {"empty", "duration"}
ValidateFilePath(v) == v.kind = "text" /\ v.form \in {"absolute", "shell"}
ValidateScriptPath(v) == v.kind = "text" /\ v.form = "absolute"

ValidateKubeletConfig(g) ==
    /\ Holds(g, "port", ValidatePort) /\ Holds(g, "endpoint", NonEmptyText)
    /\ Holds(g, "timeout", DurationText)

ValidateCapacityConfig(g) ==
    \A key \in {"cpu", "memory", "disk", "warning", "critical"} :
        Holds(g, key, ValidateThresholdValue)

ValidateDiskCheckConfig(g) ==
    /\ \A key \in {"warning", "critical"} : Holds(g, key, ValidateThresholdValue)
    /\ Holds(g, "path", NonEmptyText)

ValidateLogPatternConfig(g) ==
    /\ {"logFile", "pattern"} \subseteq DOMAIN g
    /\ ValidateFilePath(g["logFile"]) /\ g["pattern"].kind = "text"

ValidateScriptConfig(g) ==
    /\ "script" \in DOMAIN g /\ ValidateScriptPath(g["script"])
    /\ Holds(g, "timeout", DurationText)

(* By type; the last two types must have a config map. *)
ValidateTypeConfig(m) ==
    /\ m.type \in {"custom-logpattern", "custom-plugin"} => m.config # {}
    /\ \A g \in m.config :
         /\ m.type = "kubernetes-kubelet-check"  => ValidateKubeletConfig(g)
         /\ m.type = "kubernetes-capacity-check" => ValidateCapacityConfig(g)
         /\ m.type = "system-disk"               => ValidateDiskCheckConfig(g)
         /\ m.type = "custom-logpattern"         => ValidateLogPatternConfig(g)
         /\ m.type = "custom-plugin"             => ValidateScriptConfig(g)

(* Its strategies are not those of startup, and it asks for one of them    *)
(* also when the block is off.                                             *)
ValidateMonitorRemediation(r) == r.policy.strategy \in {"restart", "recreate", "script", "webhook"}

ValidateMonitor(m) ==
    /\ IsValidKubernetesName(m.name) /\ m.type \in RegisteredTypes
    /\ m.interval >= 5 * Sec
    /\ ValidateTypeConfig(m)
    /\ \A r \in m.remediation : ValidateMonitorRemediation(r)
    /\ Cardinality(m.dependsOn) <= MaxDependenciesPerMonitor

ValidateMonitors(ms) ==
    /\ Len(ms) \in 1 .. MaxMonitors /\ NamesDiffer(ms)
    /\ \A m \in ToSet(ms) : ValidateMonitor(m)

ValidateHTTPExporter(h) ==
    /\ Len(h.webhooks) \in 1 .. MaxWebhooksPerExporter
    /\ \A w \in ToSet(h.webhooks) : w.url # "" /\ w.timeout > 0

ValidatePrometheusExporter(p) == p.port \in 1024 .. MaxPort /\ p.path \in PathTexts

On(blocks) == {b \in blocks : b.enabled}

ValidateExporters(c) ==
    /\ On(c.kubernetes) \cup On(c.http) \cup On(c.prometheus) # {}
    /\ \A k \in On(c.kubernetes) : IsValidKubernetesName(k.namespace)
    /\ \A h \in On(c.http) : ValidateHTTPExporter(h)
    /\ \A p \in On(c.prometheus) : ValidatePrometheusExporter(p)

ValidateConsistency(c) ==
    c.remediation.enabled
    \/ \A m \in ToSet(c.monitors) : \A r \in m.remediation : ~r.policy.enabled

ValidateStructure(c) ==
    c.apiVersion # "" /\ c.kind = "NodeDoctorConfig" /\ IsValidKubernetesName(c.name)

ConfigValidatorAccepts(c) ==
    /\ ValidateStructure(c) /\ ValidateMonitors(c.monitors) /\ ValidateExporters(c)
    /\ ValidateConsistency(c) /\ DependenciesSound(c.monitors)

----------------------------------------------------------------------------
(* What ComputeConfigDiff compares of a monitor, the exporters and the     *)
(* remediation settings.                                                   *)
Compared(c) ==
    [monitors |-> {[name |-> m.name, type |-> m.type, enabled |-> m.enabled,
                    interval |-> m.interval, timeout |-> m.timeout, config |-> UNION {
                      {<<key, g[key].n, g[key].form>> : key \in DOMAIN g} : g \in m.config}] : m \in ToSet(c.monitors)},
     kubernetes |-> {<<k.enabled, k.updateInterval>> : k \in c.kubernetes},
     prometheus |-> {<<p.enabled, p.port, p.path>> : p \in c.prometheus},
     http |-> {[enabled |-> h.enabled, workers |-> h.workers, queueSize |-> h.queueSize,
                timeout |-> h.timeout, webhooks |-> [i \in DOMAIN h.webhooks |->
                  [name |-> h.webhooks[i].name, url |-> h.webhooks[i].url,
                   sendStatus |-> h.webhooks[i].sendStatus,
                   sendProblems |-> h.webhooks[i].sendProblems]]] : h \in c.http},
     remediation |-> <<c.remediation.enabled, c.remediation.dryRun, c.remediation.perHour>>,
     breaker |-> [c.remediation.breaker EXCEPT !.enabled = (@ = "off")]]

HasChanges(old, new) == Compared(old) # Compared(new)

(* What the process is bound to at startup: a change of it, or the first   *)
(* use of a part that was not built, is reported (ClassifyReload).         *)
ControllerURLs(c) == {k.url : k \in On(c.remediation.coordination)}
Identity(c) ==
    [nodeName |-> c.settings.nodeName, logOutput |-> c.settings.logOutput,
     logFile |-> c.settings.logFile, profiling |-> c.profiling, coordination |-> ControllerURLs(c)]
BuiltParts(c) ==
    (IF On(c.kubernetes) # {} THEN {"kubernetes"} ELSE {})
    \cup (IF On(c.http) # {} THEN {"http"} ELSE {})
    \cup (IF On(c.prometheus) # {} THEN {"prometheus"} ELSE {})
    \cup (IF c.remediation.enabled THEN {"remediation"} ELSE {})

MutReportsWithChanges(old, new) ==
    IF HasChanges(old, new)
    THEN {f \in DOMAIN Identity(old) : Identity(old)[f] # Identity(new)[f]}
         \cup (BuiltParts(new) \ BuiltParts(old))
    ELSE {}

ClassifyReload(old, new) ==
    {f \in DOMAIN Identity(old) : Identity(old)[f] # Identity(new)[f]}
    \cup (BuiltParts(new) \ BuiltParts(old))

----------------------------------------------------------------------------
MutBareReload(f) == {c \in LoadConfig(f) : ConfigValidatorAccepts(c)}

(* What a reload makes of a file, if it accepts it: the normalizer is that *)
(* of startup.                                                             *)
Reloaded(f) == {c \in {Normalize(g) : g \in LoadConfig(f)} : ConfigValidatorAccepts(c)}

LoadingInit ==
    /\ disk \in FirstFiles /\ flags \in FlagChoices /\ edits = 0
    /\ booted = {} /\ live = {} /\ source = {} /\ reported = {}

(* main: a file that does not load, or does not pass, is fatal. *)
StartAgent ==
    /\ booted = {} /\ Started(disk) # {}
    /\ booted' = Started(disk) /\ live' = booted' /\ source' = {disk}
    /\ UNCHANGED <<disk, edits, flags, reported>>

StopAgent ==
    /\ booted # {}
    /\ booted' = {} /\ live' = {} /\ source' = {} /\ reported' = {}
    /\ UNCHANGED <<disk, edits, flags>>

EditConfigFile ==
    /\ edits < MaxEdits /\ edits' = edits + 1
    /\ disk' \in EditsOf(disk, edits)
    /\ UNCHANGED <<flags, booted, live, source, reported>>

(* performReload.  The file is read when the reload runs; what needs a     *)
(* restart is reported before the changes are applied, and the callback    *)
(* may fail.  A refused file changes nothing.                              *)
ReloadFromDisk ==
    /\ \E old \in live, new \in Reloaded(disk) :
         /\ reported' = reported \cup ClassifyReload(old, new)
         /\ \/ live' = {new} /\ source' = {disk}
            \/ HasChanges(old, new) /\ UNCHANGED <<live, source>>
    /\ UNCHANGED <<disk, edits, flags, booted>>

LoadingNext == StartAgent \/ StopAgent \/ EditConfigFile \/ ReloadFromDisk

LoadingSpec == LoadingInit /\ [][LoadingNext]_loadingVars

----------------------------------------------------------------------------
(* What the agent has adopted, at startup or by a reload, it starts with   *)
(* again from the same file: the reload's gate lets nothing through that   *)
(* startup would die of, and a start makes of it what the reload made      *)
(* (main's normalizeConfig, ValidateWithRegistry, ConfigValidator).        *)
AdoptedComesBack ==
    \A f \in source, c \in live : \E s \in Started(f) : ~HasChanges(s, c)

(* What the process is bound to, or was not built with.  Over any sequence *)
(* of edits and reloads, failed ones too, it was reported to need a        *)
(* restart as soon as the adopted configuration says otherwise             *)
(* (ClassifyReload against a configuration that moves on with each         *)
(* reload).                                                                *)
StaleIsReported ==
    \A b \in booted, c \in live :
        /\ \A f \in DOMAIN Identity(b) : Identity(b)[f] # Identity(c)[f] => f \in reported
        /\ BuiltParts(c) \ BuiltParts(b) \subseteq reported
=============================================================================
