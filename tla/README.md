# Node Doctor: TLA+ models, checks and proofs

Node Doctor watches the health of Kubernetes nodes, exports what it finds, and repairs some of
it. An agent runs on every node; an optional controller coordinates the repairs of a cluster.
This directory holds TLA+ models of the parts whose correctness depends on interleaving, failure
and order, the TLC runs that check them on small instances, and TLAPS proofs of nearly all the
safety properties those runs check. `PROJECT.json` lists, for every definition, the source lines
it models.

## 1. The system

| Part | State | Operations | Talks to | Modules |
|---|---|---|---|---|
| Monitors (`pkg/monitors`) | counters, thresholds and windows per check, a status channel of 10 | start, stop, one check per interval | the detector's fan-in goroutines | MonitorLifecycle, MonitorChecks, KubernetesChecks, NetworkChecks, PeerChecks, DNSChecks, SystemChecks, CustomChecks, KubeletMonitor, LogPatternMonitor |
| Problem detector (`pkg/detector`) | handles and configuration index, last status per monitor, incidents, shared status channel | fan-in, process a status, block on dependencies, evaluate the remediation policy, start, stop, apply a reload | exporters, remediator registry, reload coordinator | StatusPipeline, ConfigReload, MonitorOrder |
| Remediator registry (`registry.go`, `base.go`) | circuit breaker, hourly window, per-minute bucket, attempt counts, history | remediate, apply settings, reset | remediators, lease client | RemediatorRegistry |
| Remediators (`pkg/remediators`) | a copy of dry run | systemd, network, custom script, pod delete, node reboot | the node, the API server | RemediationStrategies |
| Lease client (`lease_client.go`) | none between calls | request with retries, release | controller | LeaseProtocol |
| Controller (`pkg/controller`) | lease map, SQLite tables, node reports, correlations | grant, deny, release, sweep, rehydrate, ingest reports, correlate, stop | lease clients, HTTP exporters | LeaseController, LeaseService, ClusterView |
| Configuration (`pkg/types/config.go`, `pkg/util`, `pkg/reload`) | the adopted configuration, what the process latched at start, debounce timer, one-token channel | load, default, validate, watch, diff, classify, call back | detector | ConfigLoading, ConfigReload |
| Kubernetes exporter | condition cache, pending updates and removals, refresh times; event cache and limit | update, flush, resync, heartbeat, expire, create event, reload | API server | NodeConditions, EventDelivery |
| HTTP exporter | worker pool with a bounded queue, cached clients; active problems | export, retry, report, reload, stop | webhooks, controller | WebhookPool, ClusterView |
| Prometheus exporter | registry, metrics, peer series, HTTP server | export, reconcile, scrape, reload, stop | scrapers | PrometheusMetrics |
| Health server, statistics | last statuses, counters | liveness, readiness | detector, exporters | not modelled |

What is hard here:

* one goroutine processes all statuses **and** runs remediations, so statuses queue and are dropped
  meanwhile; some monitors send a condition only when it changes, so a dropped status can be the
  only one that says so;
* several locks are released between a check and the action it guards (rate limit, attempt cap,
  duplicate events, lease release before its database write), and some are held where they should
  not be (a plugin's unknown result, the correlator's Stop);
* an agent and the controller talk over HTTP with retries, and both crash;
* a reload is a sequence of steps without rollback, against a running detector, running exports and
  a Stop; it loads its file along another path than the start does;
* the condition cache, the node object and the monitors disagree for a while, and API calls fail
  or succeed with their answer lost;
* a repair is several commands on a node that changes meanwhile;
* many times are compared: lease expiry, cooldowns, windows, staleness, backoff.

What makes each part correct: leases are never over-committed, also across restarts; caps and
cooldowns hold; a breaker trips for a reason and heals; an incident gets its attempts and no more;
a strategy that reports success has done its work; blocking settles; the detector runs its
configuration, reads the last edit and would come up with the same configuration again; a monitor
raises its alarm when the trouble has lasted and not before, takes it back when it is over, and is
silent once stopped; the node shows what monitors say, loses what nobody says, and keeps what
others own; what the exporters accept they deliver once; the controller's correlations follow the
reports. The hazards behind these, each at its line, are in `PROJECT.json`.

## 2. Modules

MC modules (`MC<name>`) give TLC its instances. Definitions named `Mut...` are faulty variants of
the definition that follows them: each property has one that violates it, which shows that the
property can fail in that model. Components that do not interact share a run: the variable `part` picks,
in the initial state, which of them is at work, so that state spaces add up instead of multiplying.

### Leases

**LeaseController**: `s.leases`, the `leases` table and the handlers around them. `GrantLease`
and `DenyLease` are `requestLease` under `s.mu`; `ReleaseLease` ends where the handler unlocks and
`PersistRelease` is the database update after it; `CleanupExpiredLeases` is the 30 second sweep and
`ExpireLeases` the hourly job; `Exit`, `Stop` and `Start` are a crash, the draining shutdown and
rehydration. Every storage call may fail when it is in `Faults`; the code only logs such failures. A
controller without storage is the case in which all fail. `issued` is a history variable: what was
really granted, which memory and database only reflect.

**LeaseService** is the abstract specification: the set of nodes that hold a lease. `ImplementsService` in
LeaseController maps a granted, unreleased, unexpired lease to its node.

**LeaseProtocol** extends LeaseController with agents: POSTs and DELETEs in flight, which may be
served late, or never; retries, the timeout, giving up, the fallback, the deferred release, and
crashes of agents.

### From a status to a repair

**StatusPipeline**: `Report`, `Forward`, `DropStatus` per monitor; `ProcessStatus` on the only
processing goroutine, with `MonitorBlocked`, preconditions on cached statuses, the attempt cap and
cooldown of an incident; a dispatch keeps that goroutine busy until `RemediationEnds`. `episode`,
`dispatches` and `gap` are history variables.

**RemediatorRegistry**: `Remediate` cut where `r.mu` is released (`Dispatch`, `CheckCircuitBreaker`,
`CheckLimits`, `AskLease`, `GetRemediator`, `CanRemediate`/`Strategy`, `Execute`, the recording
steps), with `ApplyConfig` setting by setting in between. Time is kept as ages that stop growing
once no comparison can tell, which keeps the state space finite without a clock.

**RemediationStrategies**: what each built-in strategy does to the node, one step per command or API
call. A command may fail, the context may be cancelled between two commands, pods are scheduled and
go, a reload changes dry run. `done` is a history variable of what really happened to the node.

### Configuration

**ConfigLoading**: a configuration file as a record with optional blocks, and its way into the
process: `LoadConfig`, `ApplyDefaults` field by field, `Validate`, the command line flags, the
default monitors, and for a reload the second validator (`ConfigValidatorAccepts`), the diff and
`ClassifyReload`. `StartAgent`, `StopAgent`, `EditConfigFile` and `ReloadFromDisk` are the actions;
`live` is what the process has latched, `source` the file it came from, `reported` what reloads have said
needs a restart. Texts are members of small sets; `NameShape` tells the validators what they look at.
`Files` is every file there can be; `IsFile` and the definitions beside it say which fields its
blocks have, as the Go types do, and nothing about their values.

**ConfigReload**: the file, debounce timer and channel of the watcher, `performReload`, the
numbered steps of `applyConfigReload` (stop removed, restart modified, start added,
exporters, registry, fail or commit), and `Stop` in its two parts. A monitor's entry is one of two
settings, as is an exporter's block or that of remediation, which may also be absent (exporters) or turned
off (remediation). `exporters` holds the exporters that were built when the agent started, each with the
block it runs with: a reload visits no others, and one whose block is gone fails the reload, now and at every
later edit until the block is back. `executor` says what was wired for remediation at start: nothing,
if it was off, the registry, or an executor that cannot be reconfigured; in the first and last case a
reload that changes remediation is logged, commits and applies nothing. `told` is the history of what
reloads have reported to need a restart (`ClassifyReload`), `disturbed` records that a reload has failed
or that something did not start.

**MonitorOrder**: the depth-first cycle check of validation as steps over an explicit stack, then
Kahn's sort, both compared with what they should compute on the dependency graph.

**Filtering**: the loop that keeps the entries of a slice that pass a test, which the sort (monitors
without open dependencies) and the registry (times within the window) have in common.

### Monitors

**MonitorLifecycle**: one monitor with its run loop, its check (which may take any time), its status
channel, its fan-in goroutine and its handle, stopped by a reload and by the detector at once.

**KubernetesChecks**, **NetworkChecks**, **PeerChecks**, **DNSChecks**, **SystemChecks**,
**CustomChecks**: the checks of seventeen monitors. Each is a function of configuration, state and
readings that yields the next state and the conditions of the status, in the order of the code; early
returns and read errors included. Readings are small sets that lie on both sides of each threshold; file
formats are left out. **MonitorChecks** runs them: `ExecuteCheck`, `SendStatus` (which may lose the
status), `RestartAgent`; per alarm it keeps how long an observer of the readings has seen trouble, and
compares that with what was reported. The DNS monitor looks up two domains of each class, of which one or
both may fail: they count as one failed check. `Verdict` and the tables beside it say, per monitor, what
an observer would call trouble; they belong to the properties.

**KubeletMonitor**: the kubelet check behind its circuit breaker, with the backoff computed in words
of `WordBits` bits; the kubelet comes and goes (`KubeletChanges`), a status may be dropped
(`KubeletSends`), and a new instance of the monitor (`RestartMonitor`) begins with counters of zero
while the node still shows what the last one `reported`.

**LogPatternMonitor**: journal and kernel log, the `--since` window with its one second of overlap, lines
logged while reading, the limit of events per window, clean-up.

### Exporters and the controller's view

**NodeConditions**: the condition manager against the node object. A flush is two steps, since each
of its API calls may fail or lose its answer while `cm.mu` is held; a resync is a read without the
lock and a later replacement of the cache. Other owners write their own conditions. A monitor that
is removed may have one late status.

**EventDelivery**: deduplication by signature, the limit of the minute, creation under a name that
contains the second, lost answers, clean-up, and a manager replaced by a reload under a running call.

**WebhookPool**: `ExportStatus` against `Reload` and `Stop` of the exporter, the queue, the workers with
their retries, and the two timers of the pool's Stop. A send on the closed channel is a state of
its own (`panicked`).

**PrometheusMetrics**: series written one by one, the swap and the deletion of gone peers, scrape server
and registry, and a reload between any two of these steps.

**ClusterView**: active problems of agents, reports that overtake each other, the handler in two steps
(stored, then given to the correlator), the evaluation in two critical sections, the three kinds of
correlation, their rows, Stop, crash and restart.

**LeaseController_proofs**, **LeaseProtocol_proofs**, **Filtering_proofs**, **Remediation_proofs**,
**Detector_proofs**, **Monitors_proofs**, **Reports_proofs**, **NodeConditions_proofs**: the theorems of
section 4. A module of theorems covers a run's worth of components where those share no state.

## 3. Runs

| Run | Instance | Shows |
|---|---|---|
| `lease` | 3 nodes (symmetric), 2 slots, durations 1 and 2, clock to 2, 3 leases, failing status updates | `SlotsRespected` (the limit, and one lease per node), `RecordedCooldownHonoured` and `ImplementsService` across crashes, sweeps and late releases |
| `lease_protocol` | 2 agents, 1 slot, 2 tries, 2 requests each | `RunningOwnsLease`, `CoordinatedBound`; every attempt ends (`AttemptsEnd`) |
| `remediation` | 2 monitors, channel of 1, 3 health changes; 1 caller, 2 strategies, 3 configurations; 2 attempts of any strategy, 5 pods of every kind | `AttemptsPerEpisode`, `DispatchesSpaced`; `TripNeedsRun`, `LoweredCapCountsPast`; `SuccessMeansDone`, `RebootAsksEveryPod` |
| `detector` | 2 monitors, 2 exporters, 3 edits, 1 fault, 1 monitor or exporter that did not start; 478 file variants and up to 3 edits among 10 that differ in latched settings, 2 command lines; a chain of 3; 2 callers | `UndisturbedExact` (what was built and wired runs the configuration, the rest was reported to need a restart), `KillSwitchLands` (with a registry wired), `LastEditRead`; `AdoptedComesBack`, `StaleIsReported`; `BlockingConverges`; `HourlyCapHolds`, `AttemptCapHolds`, `OpenIsTemporary` |
| `node_conditions` | 1 owned type, 1 built-in, heartbeat, 1 flip, 1 fault, 1 restart | `ForeignIntact`, `SteadyShown`, `StaleGoes` |
| `reports` | 1 webhook, 1 worker, queue of 1, 2 tries, 3 requests, 2 pools; 2 agents, 2 problems, 1 report under way, 1 lost write, 2 starts | `AcceptedHandled`, `StopEnds`; `StoreAgrees`, `CorrelationsFollow` |
| `monitors` | all graphs on 3 names; 1 monitor with 4 checks and 2 stoppers; 17 monitors with all readings, lost statuses and restarts; 7 openings of the breaker in words of 6 bits, lost statuses, 2 new instances of the kubelet monitor; 3 log lines in 5 seconds; 2 event managers in 1 minute; 3 peer series, 2 reloads | `CheckExact`, `DependenciesFirst`; `StopSilences`; `AlarmRaised`, `AlarmJustified`, `AlarmCleared`; `BreakerHoldsOff`, `KubeletShown` (no problem stays on the node after the kubelet has come back); `NoLineMissed`, `EventRate`; `CreatedOnce`; `ScrapeIsCurrent` |
| `lease_expiry` | 1 node | **violated**: cooldown after a lease that ran out |
| `reload_revert` | as `detector`, 2 edits | **violated**: a reported success means the configuration runs |
| `exporter_reload` | as `node_conditions` | **violated**: a reloaded exporter goes on exporting |
| `plugin_unknown` | the plugin monitor | **violated**: an unknown result counts as a failure |
| `controller_stop` | as `reports` | **violated**: the controller's Stop ends |

Why the bounds are enough for the question asked. Leases: over-commitment needs one more lease than
slots, and a restart or sweep between grants; three leases over two slots give each. A node's second
lease and its cooldown need a clock of two. Protocol: a late request or DELETE must meet a newer lease of
the same slot, hence three leases and two requests per agent. Registry: thresholds and caps of one and
two reach both sides of every comparison; a manual reset of the breaker begins the run of failures anew,
so a reset that left the counter would be seen (`TripNeedsRun`). The cooldown is exercised by
`remediation` and is 0 in `detector`, where it would keep two callers from meeting within one window of
the hourly cap. Pipeline: a full channel, a drop and a second episode need three health changes.
Strategies: the second attempt meets what the first left behind (an interface that is down, a cordoned
node). Reload: a failure, a repair and one more edit are three writes; the configurations turn an
exporter on, drop its block and switch remediation, so that each case of a reload without anything to
reload occurs; loading: a setting that is changed, seen by another reload, and put back takes three.
Conditions: the fault, the restart and the flip may come in any order between the two halves of a flush
and of a resync; a TTL of 0 makes expiry race everything else. Webhooks: a request in hand, one queued
and one refused are three, and a reload needs a second pool. Cluster: two agents with two problems give
every kind of correlation, and news may arrive between the two halves of an evaluation; one report is
under way at a time, so that reports do not overtake each other in this instance (two of them exceed what
a run may take; `StoreIsCurrent` is proved for any number, `CorrelationsFollow` is not). Checks:
histories are followed to a run of three, one past the thresholds of two, and every monitor meets every
combination of readings at every count. Breaker: the seventh opening is past the word. The clock of the
lease, log and event parts is a bound (`MaxTime`, `MaxHalves`); elsewhere time is an age and unbounded.

`CHECK_DEADLOCK FALSE` is used where the program really stops: after a Stop, at the end of a sort, or when
a bounded supply of edits, requests or checks is used up.

Fairness. `LeaseProtocol`: only an agent's own goroutine (its HTTP client and strategies have timeouts);
nothing is asked of the controller. `MCDetector`: the debounce timer fires and the reload goroutine goes
on, with no fairness for edits or for Stop; tickers fire and the fan-in and processing goroutines run,
where `BlockingConverges` is stated for behaviours whose channel is not full for ever; callers finish
what they began and keep coming, as a monitor with a persisting problem does, and time passes.
`MCReports`: the two timers of the pool's Stop fire and workers are scheduled, a send to a hanging
endpoint being ended by its client's timeout or the cancelled context; agents go on reporting on their
ticker, requests reach a controller that is up, and its goroutines get the lock. `MCMonitors`, only for
the kubelet monitor: time passes and the ticker goes on, and of the checks that run the fan-in, which
empties the channel of 10, loses not all statuses. `NodeConditions`: the three loops and reporting
monitors run; those that wait for `cm.mu` have strong fairness, since a Go mutex is handed to a starving
waiter; API calls fail only finitely often.

### Where the code and its documentation disagree

Five runs show such a disagreement, described in `PROJECT.json` under findings:
`lease_expiry`, `reload_revert`, `exporter_reload`, `plugin_unknown`, `controller_stop`.

Others were met while modelling; the models contain the behaviour and no property depends on it.

Remediation and leases:

* an action may run longer than its lease; the slot is then given away while it runs
  (`registry.go:745`; `controller-deployment.md:3`: "only a few nodes remediate at the same time");
* a history limit of 0 keeps nothing (`registry.go:1017`; comment at `:287` "0 = unlimited");
* an incident does not end when the healthy report was dropped, replaced by MonitorBlocked, or seen while
  remediation was off (`detector.go:735`; `remediation.md:83`);
* strategies copy dry run when they are registered (`builtin.go:86`); an agent started in dry run and
  reloaded without it records successes of strategies that still only log;
* a reboot that fails leaves the node cordoned, and a reset of the routes reports success although its
  flush failed.

Configuration:

* a monitor added by a reload that then failed is added again by the next one (`detector.go:1103`);
* a monitor skipped at start makes every reload that modifies it fail (`detector.go:1054`);
* `enabled: false` does not keep a monitor from being created (`detector.go:1061`; `monitors.md:23`);
* `Stop` during a reload closes the status channel under its events (`detector.go:486`);
* the reload validator knows other remediation strategies (`validator.go:602`: restart, recreate, script,
  webhook) than the start (`config.go:65`), and other keys of the custom monitors than these use, so that
  a file with an enabled remediation block starts but is never reloaded; `configuration.md:437` lists the
  further checks of a reload without these;
* the diff ignores Prometheus labels, namespace and bind address, coordination, and the
  authentication and timeouts of webhooks; a changed webhook also keeps its cached client (`worker.go:308`).

Exporters and controller:

* a removal is undone when a resync reloads the cache before the flush (`condition_manager.go:657`);
  expiry removes the condition later, which is what `StaleGoes` relies on;
* the minute is part of an event's signature, so identical events recur each minute within the
  deduplication window (`kubernetes/types.go:283`; `configuration.md:292`), and two events of one reason in
  one second share a name (`types.go:271`);
* a submission that has passed its check may send on the queue Stop has closed (`worker.go:182`);
* a Prometheus reload that cannot register or listen leaves the exporter without metrics or server
  (`prometheus/exporter.go:764`, `:791`); a status with latency metrics and no scores
  resets the nameserver gauges (`:577`);
* an evaluation with fewer reports than `MinNodes` resolves nothing, and the controller never forgets a
  node; `NewControllerWebhook` is not called by the program (`architecture.md:187`).

Monitors:

* the kubelet breaker's exponential backoff wraps: with the default 30 s the product overflows 64 bits at the
  30th opening in a row and is 0 from the 55th on, and as the cap only compares upwards
  (`circuitbreaker.go:326`) the breaker then lets every check through until the kubelet recovers. The
  comment at `:325` says "Cap at maximum backoff timeout". `BreakerHoldsOff` is stated up to the overflow;
* the kubelet monitor's validation rejects a breaker with the documented defaults;
* PodCapacityPressure is withdrawn only when a normal reading directly follows a critical one, and
  PodCapacityUnhealthy never (`capacity.go:306`);
* mounts share the condition DiskPressure, and the last one checked decides (`disk.go:454`);
* `/dev/kmsg` is opened at its end by every check, so what is logged between checks is not seen
  (`logpattern.go:135`; `monitors.md:530`); the clean-up also forgets when the journal was last read.

## 4. Proofs

All theorems hold for every value of the constants that satisfies the named assumptions of the modules:
any set of nodes, monitors, pods, webhooks or names, every limit, period, buffer and bound. A theorem
without a hypothesis below needs none. Each inductive invariant that is not itself a property of a run was
checked with TLC on the instance of its run before it was proved.

### Leases

`LeaseController_proofs` proves `TypeCorrect` (`Spec => []TypeOK`, under any storage faults) and, assuming
`ReliableStorage` (the row of a new lease is written and active rows can be read at start; status updates
and cooldown queries may fail), `LeaseSafety` (`Spec => []SlotsRespected`) and `ServiceImplemented`
(`Spec => ImplementsService`: the controller implements `LeaseService`).

The two bounds of `SlotsRespected` speak of holders: leases granted, not released and not past their
expiry. They are not inductive, because after a crash the map is empty and a grant looks only at the map.
The inductive invariant `HoldersKnown` adds that, while the controller is up, every holder is in the map
as active with its expiry (`HeldInMemory`), that every holder has an active row (`HeldInDb`), which is
what makes a restart safe, and that a release in progress belongs to a lease that is no longer held
(`ReleasingIsReleased`), so that its late database write disturbs no holder. One lemma handles grants,
where the count matters (`requestLease` counts at least the holders), one shows that steps that add no
holder keep the bounds, and the step lemma treats one action at a time. The refinement reuses it: a grant
maps to `Grant`, any other step only takes holders away and maps to `End` or to a stutter.

The same module proves `CooldownSafety`: assuming the cooldown query does not fail,
`Spec => RecordedCooldownHonoured`. The invariant `EndsRecorded` says that rows and map entries carry the
expiry that was granted and that a row which is no longer active was marked no earlier than its
lease ended. No other storage call need succeed. `lease_expiry` shows what the theorem does not say:
nothing is promised while the end is not yet recorded.

`LeaseProtocol_proofs` carries this over to the agents. `LeaseOwnership` proves `RunningOwnsLease` under any
faults; its invariant `LeasesOwned` follows a lease from the answer to the agent that runs under it and
to its DELETE, and says that a DELETE in flight belongs to no lease anybody runs under. With
`ReliableStorage`, `CoordinatedSafety` proves `CoordinatedBound`: agents that remediate within the time
of their lease are holders, so the controller's bound, which the lemma `HoldersStayKnown` makes available
for every step the controller can take, applies to them. `ProtocolImplementsService` is the refinement for
the composed specification.

### What loops compute (`Filtering_proofs`)

The code filters slices, sums and doubles in loops, which the models write as recursive functions. The
library's induction theorems cannot be used, as they take the induction hypothesis as an operator. The lemma
`SetInduction` states induction for a *set* of numbers instead (one that contains 0 and with each number
its successor contains all), and is proved from the library's theorem that the order of the naturals is
well-founded. `LoopRuns` and `LoopStays` derive from it that a loop's function is what its equations say and
that its values stay in a set that every pass keeps. What `Keep` returns follows: the entries that pass the
test and no others (`KeepElements`), in their order and each as often as it was there (`KeepPlaces`,
`KeepInjective`), and as many of each kind as before (`KeepCounts`). The same lemmas serve the powers of two
of the kubelet's backoff and the lines of one read of a log.

### Remediation (`Remediation_proofs`)

* `SuccessIsDone` and `RebootDrains` prove `SuccessMeansDone` and `RebootAsksEveryPod` of the strategies.
  The invariant `AttemptSound` says which steps belong to the strategy that runs, that what a later step
  relies on has been done by the earlier ones, and how far a drain has come (`DrainUnderWay`).
* `AttemptsBounded` proves `AttemptsPerEpisode`. `DispatchesBounded` orders the three places where a
  status waits (monitor, channel, processing goroutine) by episode (`StreamsInOrder`), so that a late
  status of an old episode is never counted for a new one, and bounds the dispatches of the current one by
  the incident's counter (`DispatchesCounted`). `DispatchesApart` proves the action property
  `DispatchesSpaced` from `AgeOfDispatch`, which ties the age kept by the code to the real gap.
* `TripsAfterFailures` proves the action property `TripNeedsRun`: the failure counter never exceeds the
  run of failures really seen since the last success, reset or switching off (`FailuresWereSeen`), whatever
  settings a reload brings (`Settable`).
* `AttemptsCapped` proves `AttemptCapHolds`: attempts recorded plus callers already let through
  (`LetThrough`) never exceed the cap by more than the callers that can pass the check together.
* `HourlyCapKept` proves `HourlyCapHolds`, for any number of callers and whatever caps reloads set meanwhile.
  The code counts entries, which are made after the success and pruned when somebody asks; the property
  counts successes. `SuccessesCounted` ties them together: for every age, the successes younger than it are
  at most the younger entries plus the callers about to make theirs, and the entries plus the callers who
  still have one to come stay within the bound. Pruning keeps the first by `KeepCounts`, the tick shifts
  every age at once, which is why the invariant has to speak of all ages and not of the window alone.
* `LoweredCapHolds` proves the action property `LoweredCapCountsPast` under two hypotheses: there is one caller,
  as in the program, where only the processing goroutine remediates, and no configuration turns the cap off.
  Both are needed: with two callers a check may pass between another's check and its entry, and while
  the cap is off the registry makes no entries (`recordRateLimitEntry` returns early), so a cap that is set
  afterwards does not count them.

### Detector and configuration (`Detector_proofs`)

* `DetectorRunsConfig` proves `UndisturbedExact`. The invariant is `ConfigsValid` (only validated
  configurations are adopted) and `ReloadOnTrack`: in the middle of a reload a monitor is as in the old
  configuration while its step is pending, and as in the new one afterwards (`AppliedSoFar`), each with
  exactly one handle (`OneHandleEach`); the exporters that were built and a wired registry likewise. Each of
  the numbered steps of `applyConfigReload` moves one monitor from the first case to the second. For what was
  not built or wired the invariant keeps that it was reported as soon as the configuration turned it
  on (`Announced`).
* `KillSwitchApplied` proves the action property `KillSwitchLands` from `KillSwitchPending`: as long as a
  reload has not given changed remediation settings to the registry, the step that does so is still ahead of
  it. Both are stated for a registry that was wired when the agent started; without one nothing lands, which
  `docs/troubleshooting.md` says too.
* `RestartsReported` proves `StaleIsReported` over all edits, restarts and reloads.
* `RestartIsSafe` proves `AdoptedComesBack`. Both paths load the file (defaults, then `Validate`) and
  normalise it (default monitors, flags, defaults again); then a start tests all of it with
  `ValidateWithRegistry`, a reload with a validator of its own that looks at less. The heart is
  `ReloadPassesStartup`: what that gate accepts, a start accepts too. So what `Validate` found valid at
  loading has to be valid still after the flags and a second round of defaults; one lemma per block shows
  that (`SettingsStayValid`, `MonitorStaysValid`, `HTTPStaysValid` and so on), although an inherited
  value meets limits its owner was never tested against. A reload does not test the flags; they fit
  because the process runs, so that a start has accepted them (`FlagsFitAtStart`), which is part of the
  invariant `AdoptedIsStarted`. The assumptions are those of ConfigLoading: files have the fields of the
  Go types, an absent duration is no number, and the default monitors are valid, one per registered type.
  That holds of every `DefaultConfig` a monitor package registers.

### Monitors (`Monitors_proofs`)

* `CycleCheckExact` proves `CheckExact`: the depth-first check of validation, with its stack and colours,
  accepts exactly the acyclic graphs whose dependencies exist. `CheckSound` says that finished names reach
  finished names only and that the stack is a path; a cycle cannot lie within the finished names, and the
  stack gives one when an edge leads back into it.
* `SortIsRight` proves `DependenciesFirst`. `SortSound` says that a monitor's in-degree counts the dependencies
  of the list not sorted yet (`DegreesCount`), that those with none are exactly queue and result
  (`ReadyIsQueued`), without repetition (`SortedOnce`), in order (`SortedInOrder`). That the sort never
  reports a cycle rests on `CycleCheckExact`: with an empty queue, the monitors left over would each depend on
  another of them, which is a cycle validation has excluded.
* `StopIsFinal` proves `StopSilences` (`StopIsOrderly` follows monitor, fan-in and the two stoppers).
* `BreakerWaits` proves the action property `BreakerHoldsOff` for every width of a word. `OpeningsCounted` says
  that an open breaker has counted an opening and for how long it has been open; `TimeoutDoubles` shows that
  as long as the doubled duration fits the word, the shift and the product in words are the numbers
  they stand for.
* `EventsAreLimited` proves `EventRate`. In `EventsSpaced` the events fall into those counted since the window
  last passed and earlier ones, all further away than the window (`Grouped`), and the time of the last
  one is known unless all are that old (`LastIsKnown`), which is what makes the clean-up harmless.
* `JournalReadWhole` proves `NoLineMissed`, assuming `QuickReads`: a read takes no longer than the second
  by which the next one goes back. `UnreadIsRecent` and `ReadGoesOn` bound the age of what a finished or
  running read has not seen. The assumption is needed: with `MaxLag = 2` TLC finds a line that is missed.

### Exporters and controller (`Reports_proofs`, `NodeConditions_proofs`)

* `EventsCreatedOnce` proves `CreatedOnce`, for events that happen again within their minute: what was
  surely created is in the cache of its manager (`SureAreCached`), and a call under way is for something
  that is not (`CallIsNews`).
* `ScrapesAreCurrent` proves `ScrapeIsCurrent`: the exporter's own record of its series agrees with the
  registry (`SeriesTracked`), and the registry served is the one written (`ServedIsWritten`).
* `StoreIsCurrent` proves `StoreAgrees` for a database that works, with the types of the correlations.
* `NothingForgotten` proves `AcceptedHandled`: pools are retired in order (`PoolsInOrder`), a request that is
  queued has a worker that will meet it or a pool that was cancelled (`QueueIsServed`), and none leaves
  the queue but into a worker's hands (`RequestsKept`).
* `ConditionsTyped` and `OthersIntact` prove `ConditionsTypeOK` and `ForeignIntact`. The argument is that the
  two API calls touch only types of ours, whatever the cache and the pending maps hold, which they may
  well share with other owners (custom conditions, the cached built-ins).

### Only model-checked

* Liveness (`AttemptsEnd`, `LastEditRead`, `BlockingConverges`, `OpenIsTemporary`, `SteadyShown`, `StaleGoes`,
  `KubeletShown`, `StopEnds`, `CorrelationsFollow`): fairness and `ENABLED` are outside what the prover handles.
* The alarms of the single monitors (`AlarmRaised`, `AlarmJustified`, `AlarmCleared`). Their seventeen checks
  run over configurations and readings that are fixed, finite sets of the model, all of which TLC
  visits; the only parameters a theorem would add are the lengths to which a history is followed.

Where the proofs changed the models: guards of a CASE that overlap are written as IF, since TLA+
leaves open which arm such a CASE takes (TLC takes the first, as the code does); the two caps of the
registry are properties of their own, as they need different arguments; filters, the matching of a
read's lines and powers of two are recursive functions instead of library operators the prover knows
nothing about; the limits of the configuration have names; and the files are a parameter of their own with
the shape the Go types give them.

## 5. Plan

1. *Done*: the modules of section 2 and their runs; the abstract LeaseService; the proofs of section 4.
2. Proofs: the alarms, monitor by monitor, once their readings are parameters.
3. Compositions: ConfigReload with StatusPipeline (a removed dependency that still blocks);
   MonitorChecks with NodeConditions (a lost status until the condition is shown).
4. Health server: liveness and readiness from detector, exporters and monitor errors.

## 6. Not modelled

Floating-point statistics (trends, prediction, latency percentiles), parsers of `/proc`, sysctl, routes
and command output, regular expressions, YAML syntax and environment substitution, HTTP, JSON and
authentication formatting, metric declarations, counters and condition gauges of Prometheus, the
controller's own Kubernetes events and metrics, logging, and test helpers. The health server and the
wiring of the programs are still to come. `pd.dependents` is written and never read;
`ClearManagedConditions` is never called by the program.
