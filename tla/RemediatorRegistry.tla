------------------------ MODULE RemediatorRegistry ------------------------
(***************************************************************************)
(* The remediation gatekeeper of one agent (pkg/remediators/registry.go)   *)
(* with the per-strategy cooldown and attempt cap of BaseRemediator        *)
(* (pkg/remediators/base.go).                                              *)
(*                                                                         *)
(* Remediate takes r.mu several times: circuit breaker, rate limits, then  *)
(* the lease, the remediator's own checks, the action and the bookkeeping  *)
(* run with the lock free.  Each stretch under the lock is one step, so    *)
(* other callers, a config reload (ApplyConfig, itself four locked         *)
(* stretches) and a manual ResetCircuitBreaker interleave between them.    *)
(*                                                                         *)
(* Time is kept as ages that a RegistryTick advances: how long the breaker has     *)
(* been open, how old each rate limit entry is, how long ago each strategy *)
(* last ran.  An age stops growing once no comparison can tell.            *)
(***************************************************************************)
EXTENDS Filtering, FiniteSetsExt, SequencesExt

CONSTANTS
    Callers,          \* goroutines that call RemediateWithStrategies
    Strategies,       \* a monitor's strategies, in order
    Configs,          \* remediation configurations a reload may apply
    Window,           \* rateLimitWindow, in ticks
    MaxHistory,       \* maxHistory
    Cooldown,         \* the strategies' built-in cooldown, in ticks
    MaxAttempts       \* the strategies' built-in attempt cap

(* One configuration: the fields ApplyConfig uses. *)
Config == [dryRun : BOOLEAN, perHour : Nat, perMinute : Nat, disabled : BOOLEAN,
           threshold : Nat \ {0}, timeout : Nat \ {0}, successThreshold : Nat \ {0}]

ASSUME RegistryAssumption ==
    /\ IsFiniteSet(Callers)
    /\ Configs \subseteq Config /\ Configs # {} /\ IsFiniteSet(Configs)
    /\ Window \in Nat \ {0}
    /\ MaxHistory \in Nat /\ Cooldown \in Nat /\ MaxAttempts \in Nat \ {0}

VARIABLES
    circuitState, consecutiveFailures, consecutiveSuccesses,
    openFor,      \* time since circuitOpenedAt
    cfg,          \* the settings in force
    applying,     \* a reload's ApplyConfig: settings still to be set
    times,        \* remediationTimes, as ages, oldest first
    tokens,       \* tokens of perMinuteBucket (0 when there is none)
    attemptCount, \* BaseRemediator.attemptCount, per strategy
    sinceAttempt, \* time since lastAttemptTime, per strategy
    history,      \* success flags of the recorded attempts
    pc, todo,     \* per caller: position in Remediate, strategies left
    failRun,      \* history: failures since the last success, reset or switching off
    recent        \* history: ages of successful remediations within Window

breaker == <<circuitState, consecutiveFailures, consecutiveSuccesses, openFor, failRun>>
limits  == <<times, tokens, recent>>
base    == <<attemptCount, sinceAttempt>>
callers == <<pc, todo>>
registryVars == <<breaker, cfg, applying, limits, base, history, callers>>

StrategyTypes == ToSet(Strategies)
AtMost(n, limit) == IF n > limit THEN limit ELSE n
MaxThreshold == Max({c.threshold : c \in Configs})
MaxSuccessThreshold == Max({c.successThreshold : c \in Configs})
MaxTimeout == Max({c.timeout : c \in Configs})
MaxPerHour == Max({c.perHour : c \in Configs})

Steps == {"idle", "limits", "lease", "create", "check", "running", "succeeded",
          "count", "failed", "refused", "done"}

RegistryTypeOK ==
    /\ circuitState \in {"Closed", "Open", "HalfOpen"}
    /\ consecutiveFailures \in 0 .. MaxThreshold
    /\ consecutiveSuccesses \in 0 .. MaxSuccessThreshold
    /\ openFor \in 0 .. MaxTimeout
    /\ cfg \in Config
    /\ applying \in Seq({"dryRun", "perHour", "perMinute", "circuit"} \X Configs)
    /\ times \in Seq(0 .. Window)
    /\ tokens \in Nat
    /\ attemptCount \in [StrategyTypes -> Nat]
    /\ sinceAttempt \in [StrategyTypes -> 0 .. Cooldown]
    /\ history \in Seq(BOOLEAN) /\ Len(history) <= MaxHistory
    /\ pc \in [Callers -> Steps]
    /\ todo \in [Callers -> Seq(StrategyTypes)]

RegistryInit ==
    /\ circuitState = "Closed"
    /\ consecutiveFailures = 0 /\ consecutiveSuccesses = 0 /\ openFor = 0 /\ failRun = 0
    /\ cfg \in Configs
    /\ applying = <<>>
    /\ times = <<>> /\ recent = <<>>
    /\ tokens = cfg.perMinute
    /\ attemptCount = [s \in StrategyTypes |-> 0]
    /\ sinceAttempt = [s \in StrategyTypes |-> Cooldown]
    /\ history = <<>>
    /\ pc = [c \in Callers |-> "idle"]
    /\ todo = [c \in Callers |-> <<>>]

Goto(c, step) == pc' = [pc EXCEPT ![c] = step]
Strategy(c) == Head(todo[c])

----------------------------------------------------------------------------
(* RemediateWithStrategies starts on its list. *)
Dispatch(c) ==
    /\ pc[c] = "idle" /\ todo[c] = <<>>
    /\ todo' = [todo EXCEPT ![c] = Strategies]
    /\ UNCHANGED <<breaker, cfg, applying, limits, base, history, pc>>

MutNeverHalfOpen(c) ==
    /\ pc[c] = "idle" /\ todo[c] # <<>>
    /\ Goto(c, IF circuitState = "Open" THEN "refused" ELSE "limits")
    /\ UNCHANGED <<breaker, cfg, applying, limits, base, history, todo>>

(* Phase 1, checkCircuitBreaker: an open breaker refuses until its timeout *)
(* has passed; the first attempt after that makes it half-open.            *)
CheckCircuitBreaker(c) ==
    /\ pc[c] = "idle" /\ todo[c] # <<>>
    /\ IF circuitState = "Open" /\ openFor < cfg.timeout
       THEN Goto(c, "refused") /\ UNCHANGED breaker
       ELSE /\ Goto(c, "limits")
            /\ circuitState' = IF circuitState = "Open" THEN "HalfOpen" ELSE circuitState
            /\ consecutiveSuccesses' = IF circuitState = "Open" THEN 0 ELSE consecutiveSuccesses
            /\ UNCHANGED <<consecutiveFailures, openFor, failRun>>
    /\ UNCHANGED <<cfg, applying, limits, base, history, todo>>

MutKeepWindow(c) ==
    /\ pc[c] = "limits"
    /\ Goto(c, IF cfg.perHour > 0 /\ Len(times) > cfg.perHour THEN "refused" ELSE "lease")
    /\ UNCHANGED <<breaker, cfg, applying, limits, base, history, todo>>

(* Phase 2: checkRateLimit drops what has left the window and refuses at   *)
(* the cap; then checkPerMinuteRate takes a token.                         *)
CheckLimits(c) ==
    /\ pc[c] = "limits"
    /\ LET kept == IF cfg.perHour = 0 THEN times
                   ELSE Keep(times, 0 .. Window - 1)
       IN  /\ times' = kept
           /\ \/ /\ cfg.perHour > 0 /\ Len(kept) >= cfg.perHour
                 /\ Goto(c, "refused") /\ UNCHANGED tokens
              \/ /\ cfg.perHour = 0 \/ Len(kept) < cfg.perHour
                 /\ IF cfg.perMinute = 0 THEN Goto(c, "lease") /\ UNCHANGED tokens
                    ELSE IF tokens = 0 THEN Goto(c, "refused") /\ UNCHANGED tokens
                    ELSE Goto(c, "lease") /\ tokens' = tokens - 1
    /\ UNCHANGED <<breaker, cfg, applying, recent, base, history, todo>>

(* Phase 2.5: the controller's lease (see LeaseProtocol): approved or not  *)
(* needed, denied (not a failure), or an error (a failure).                *)
AskLease(c) ==
    /\ pc[c] = "lease"
    /\ \E next \in {"create", "refused", "failed"} : Goto(c, next)
    /\ UNCHANGED <<breaker, cfg, applying, limits, base, history, todo>>

(* Phase 3, getOrCreateRemediator: the factory may fail or panic. *)
GetRemediator(c) ==
    /\ pc[c] = "create"
    /\ \E next \in {"check", "failed"} : Goto(c, next)
    /\ UNCHANGED <<breaker, cfg, applying, limits, base, history, todo>>

MutCapOffByOne(c) ==
    /\ pc[c] = "check"
    /\ Goto(c, IF sinceAttempt[Strategy(c)] >= Cooldown
                  /\ attemptCount[Strategy(c)] <= MaxAttempts
               THEN "running" ELSE "failed")
    /\ UNCHANGED <<breaker, cfg, applying, limits, base, history, todo>>

(* Phase 4, BaseRemediator.CanRemediate: cooldown, then the attempt cap. *)
CanRemediate(c) ==
    /\ pc[c] = "check"
    /\ Goto(c, IF sinceAttempt[Strategy(c)] >= Cooldown
                  /\ attemptCount[Strategy(c)] < MaxAttempts
               THEN "running" ELSE "failed")
    /\ UNCHANGED <<breaker, cfg, applying, limits, base, history, todo>>

(* Phase 5: a dry run succeeds without acting.  A real run records the     *)
(* attempt first and then succeeds, fails or panics.                       *)
Execute(c) ==
    /\ pc[c] = "running"
    /\ \/ cfg.dryRun /\ Goto(c, "succeeded") /\ UNCHANGED base
       \/ /\ ~cfg.dryRun
          /\ sinceAttempt' = [sinceAttempt EXCEPT ![Strategy(c)] = 0]
          /\ attemptCount' = [attemptCount EXCEPT ![Strategy(c)] = @ + 1]
          /\ \E next \in {"succeeded", "failed"} : Goto(c, next)
    /\ UNCHANGED <<breaker, cfg, applying, limits, history, todo>>

MutFailuresKept(c) ==
    /\ pc[c] = "succeeded"
    /\ failRun' = 0
    /\ consecutiveSuccesses' = AtMost(consecutiveSuccesses + 1, MaxSuccessThreshold)
    /\ Goto(c, "count")
    /\ recent' = Append(recent, 0)
    /\ UNCHANGED <<circuitState, consecutiveFailures, openFor, cfg, applying, times,
                   tokens, base, history, todo>>

(* recordCircuitBreakerSuccess. *)
RecordSuccess(c) ==
    /\ pc[c] = "succeeded"
    /\ consecutiveFailures' = 0 /\ failRun' = 0
    /\ LET successes == AtMost(consecutiveSuccesses + 1, MaxSuccessThreshold)
           closes == circuitState = "HalfOpen" /\ successes >= cfg.successThreshold
       IN  /\ circuitState' = IF closes THEN "Closed" ELSE circuitState
           /\ consecutiveSuccesses' = IF closes THEN 0 ELSE successes
    /\ Goto(c, "count")
    /\ recent' = Append(recent, 0)
    /\ UNCHANGED <<openFor, cfg, applying, times, tokens, base, history, todo>>

(* recordRateLimitEntry: only successes count, and only under a cap. *)
RecordRateLimitEntry(c) ==
    /\ pc[c] = "count"
    /\ times' = IF cfg.perHour = 0 THEN times ELSE Append(times, 0)
    /\ Goto(c, "done")
    /\ UNCHANGED <<breaker, cfg, applying, tokens, recent, base, history, todo>>

(* recordCircuitBreakerFailure. *)
RecordFailure(c) ==
    /\ pc[c] = "failed"
    /\ Goto(c, "refused")
    /\ consecutiveSuccesses' = 0
    /\ failRun' = AtMost(failRun + 1, MaxThreshold)
    /\ LET failures == AtMost(consecutiveFailures + 1, MaxThreshold)
           reopens == ~cfg.disabled /\ circuitState = "HalfOpen"
           trips == ~cfg.disabled /\ circuitState = "Closed" /\ failures >= cfg.threshold
       IN  /\ circuitState' = IF reopens \/ trips THEN "Open" ELSE circuitState
           /\ openFor' = IF reopens \/ trips THEN 0 ELSE openFor
           /\ consecutiveFailures' = IF reopens THEN 1 ELSE failures
    /\ UNCHANGED <<cfg, applying, limits, base, history, todo>>

(* The deferred recordRemediation, and back in RemediateWithStrategies:    *)
(* the first success ends the list, a failure goes on to the next one.     *)
RecordRemediation(c) ==
    /\ pc[c] \in {"refused", "done"}
    /\ history' = IF MaxHistory = 0 THEN history
                  ELSE LET all == Append(history, pc[c] = "done")
                       IN  IF Len(all) > MaxHistory THEN Tail(all) ELSE all
    /\ todo' = [todo EXCEPT ![c] = IF pc[c] = "done" THEN <<>> ELSE Tail(@)]
    /\ Goto(c, "idle")
    /\ UNCHANGED <<breaker, cfg, applying, limits, base>>

----------------------------------------------------------------------------
(* A config reload calls ApplyConfig: four setters, one lock each. *)
ApplyConfig(new) ==
    /\ applying = <<>>
    /\ applying' = <<<<"dryRun", new>>, <<"perHour", new>>, <<"perMinute", new>>,
                     <<"circuit", new>>>>
    /\ UNCHANGED <<breaker, cfg, limits, base, history, callers>>

SetDryRun ==
    /\ applying # <<>> /\ Head(applying)[1] = "dryRun"
    /\ cfg' = [cfg EXCEPT !.dryRun = Head(applying)[2].dryRun]
    /\ applying' = Tail(applying)
    /\ UNCHANGED <<breaker, limits, base, history, callers>>

SetMaxRemediationsPerHour ==
    /\ applying # <<>> /\ Head(applying)[1] = "perHour"
    /\ cfg' = [cfg EXCEPT !.perHour = Head(applying)[2].perHour]
    /\ applying' = Tail(applying)
    /\ UNCHANGED <<breaker, limits, base, history, callers>>

(* A new, full bucket; none for 0. *)
SetMaxRemediationsPerMinute ==
    /\ applying # <<>> /\ Head(applying)[1] = "perMinute"
    /\ cfg' = [cfg EXCEPT !.perMinute = Head(applying)[2].perMinute]
    /\ tokens' = Head(applying)[2].perMinute
    /\ applying' = Tail(applying)
    /\ UNCHANGED <<breaker, times, recent, base, history, callers>>

(* Disabling the breaker closes it. *)
SetCircuitBreakerConfig ==
    /\ applying # <<>> /\ Head(applying)[1] = "circuit"
    /\ LET new == Head(applying)[2]
           closes == new.disabled /\ circuitState # "Closed"
       IN  /\ cfg' = [cfg EXCEPT !.disabled = new.disabled, !.threshold = new.threshold,
                                 !.timeout = new.timeout,
                                 !.successThreshold = new.successThreshold]
           /\ circuitState' = IF closes THEN "Closed" ELSE circuitState
           /\ consecutiveFailures' = IF closes THEN 0 ELSE consecutiveFailures
           /\ consecutiveSuccesses' = IF closes THEN 0 ELSE consecutiveSuccesses
           /\ failRun' = IF closes THEN 0 ELSE failRun
    /\ applying' = Tail(applying)
    /\ UNCHANGED <<openFor, limits, base, history, callers>>

ResetCircuitBreaker ==
    /\ circuitState' = "Closed"
    /\ consecutiveFailures' = 0 /\ consecutiveSuccesses' = 0
    /\ openFor' = MaxTimeout /\ failRun' = 0
    /\ UNCHANGED <<cfg, applying, limits, base, history, callers>>

(* Time passes; a token may drip into the bucket. *)
RegistryTick ==
    /\ openFor' = AtMost(openFor + 1, MaxTimeout)
    /\ times' = [i \in DOMAIN times |-> AtMost(times[i] + 1, Window)]
    /\ recent' = Keep([i \in DOMAIN recent |-> recent[i] + 1], 0 .. Window - 1)
    /\ sinceAttempt' = [s \in StrategyTypes |-> AtMost(sinceAttempt[s] + 1, Cooldown)]
    /\ tokens' \in {tokens, AtMost(tokens + 1, cfg.perMinute)}
    /\ UNCHANGED <<circuitState, consecutiveFailures, consecutiveSuccesses, failRun, cfg,
                   applying, attemptCount, history, callers>>

Remediate(c) ==
    \/ Dispatch(c) \/ CheckCircuitBreaker(c) \/ CheckLimits(c) \/ AskLease(c)
    \/ GetRemediator(c) \/ CanRemediate(c) \/ Execute(c) \/ RecordSuccess(c)
    \/ RecordRateLimitEntry(c) \/ RecordFailure(c) \/ RecordRemediation(c)

Reconfigure ==
    \/ SetDryRun \/ SetMaxRemediationsPerHour \/ SetMaxRemediationsPerMinute
    \/ SetCircuitBreakerConfig

RegistryNext ==
    \/ \E c \in Callers : Remediate(c)
    \/ \E new \in Configs : ApplyConfig(new)
    \/ Reconfigure
    \/ ResetCircuitBreaker
    \/ RegistryTick

RegistrySpec == RegistryInit /\ [][RegistryNext]_registryVars

----------------------------------------------------------------------------
(* No configuration lifts the per-hour cap. *)
AlwaysCapped == \A c \in Configs : c.perHour > 0

(* The per-hour cap: check and entry are far apart, so concurrent callers  *)
(* may overshoot it, but by no more than one each beyond the first; a      *)
(* single caller never exceeds it (checkRateLimit, recordRateLimitEntry).  *)
HourlyCapHolds ==
    AlwaysCapped => Len(recent) <= MaxPerHour + Cardinality(Callers) - 1

(* Why: whoever was let through and did not fail has an entry to come, a   *)
(* success that was recorded has its entry, or its caller is about to make *)
(* it, and the entry is no older than the success.  Younger(s, a) is how   *)
(* many of the ages s are less than a.                                     *)
Younger(s, a) == HowMany(s, 0 .. a - 1)
EntryToCome ==
    {c \in Callers : pc[c] \in {"lease", "create", "check", "running", "succeeded", "count"}}
EntryDue == {c \in Callers : pc[c] = "count"}
SuccessesCounted ==
    /\ pc \in [Callers -> Steps]
    /\ times \in Seq(0 .. Window) /\ recent \in Seq(0 .. Window - 1)
    /\ cfg.perHour \in {c.perHour : c \in Configs}
    /\ \A a \in 0 .. Window :
         Younger(recent, a) <= Younger(times, a) + Cardinality(EntryDue)
    /\ Younger(times, Window) + Cardinality(EntryToCome) <= MaxPerHour + Cardinality(Callers) - 1

(* The same of the attempt cap of a strategy, over its whole life          *)
(* (CanRemediate and Remediate of BaseRemediator).                         *)
AttemptCapHolds ==
    \A s \in StrategyTypes : attemptCount[s] <= MaxAttempts + Cardinality(Callers) - 1

(* Why: every caller that was let through has yet to count its attempt.    *)
LetThrough(s) == {c \in Callers : pc[c] = "running" /\ Strategy(c) = s}
AttemptsCounted ==
    /\ pc \in [Callers -> Steps] /\ todo = [c \in Callers |-> todo[c]]
    /\ attemptCount \in [StrategyTypes -> Nat]
    /\ \A s \in StrategyTypes :
         attemptCount[s] + Cardinality(LetThrough(s)) <= MaxAttempts + Cardinality(Callers) - 1

(* The breaker trips only when the last Threshold outcomes were failures,  *)
(* all of them after it was last reset by hand or switched off, whatever   *)
(* reloads and half-open periods came before                               *)
(* (recordCircuitBreakerFailure).                                          *)
TripNeedsRun ==
    [][(circuitState = "Closed" /\ circuitState' = "Open") => failRun' >= cfg.threshold]_registryVars

(* The settings in force, and those a reload has still to set. *)
Settable ==
    /\ cfg \in Config
    /\ applying \in Seq({"dryRun", "perHour", "perMinute", "circuit"} \X Configs)

(* The counter of the breaker never runs ahead of the failures that ended  *)
(* the outcomes so far: a reload or a reset only lowers it.                *)
FailuresWereSeen ==
    /\ consecutiveFailures \in Nat /\ failRun \in Nat
    /\ consecutiveFailures <= failRun

(* An open breaker does not stay open while attempts keep coming: the      *)
(* timeout passes and one of them is let through (checkCircuitBreaker).    *)
OpenIsTemporary == (circuitState = "Open") ~> (circuitState # "Open")

(* A cap set by a reload counts the remediations that already happened:    *)
(* a remediation runs only while fewer than the cap succeeded within the   *)
(* window (the comment on SetMaxRemediationsPerHour).                      *)
LoweredCapCountsPast ==
    [][\A c \in Callers :
         (pc[c] = "limits" /\ pc'[c] = "lease" /\ cfg.perHour > 0)
             => Len(recent) < cfg.perHour]_registryVars
=============================================================================
