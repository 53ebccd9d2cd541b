--------------------------- MODULE KubeletMonitor ---------------------------
(***************************************************************************)
(* The kubelet monitor (pkg/monitors/kubernetes/kubelet.go) and the        *)
(* circuit breaker in front of it (circuitbreaker.go).                     *)
(*                                                                         *)
(* BaseMonitor runs one check at a time, so a check is one step; ticks of  *)
(* the clock come between checks.  Its status is sent without blocking and *)
(* is lost when the channel is full.  A status replaces only the           *)
(* conditions it names: reported is what the node still shows, which a     *)
(* restart of the agent, or a reload that creates the monitor again, does  *)
(* not change although the counters begin anew.  The kubelet goes down and *)
(* comes back at any time.                                                 *)
(* Durations are in clock ticks and computed in words of WordBits bits, as *)
(* Go computes a time.Duration in 64.                                      *)
(***************************************************************************)
EXTENDS Integers, TLC

CONSTANTS
    FailureThreshold,     \* KubeletMonitorConfig.FailureThreshold
    BreakerThreshold,     \* CircuitBreakerConfig.FailureThreshold
    HalfOpenMaxRequests,
    OpenTimeout,
    MaxBackoffTimeout,
    WordBits,             \* width of a duration
    MaxOpenings,          \* openings in a row are counted up to here
    MaxRestarts           \* bound on new instances of the monitor

(* 2 ^ n, n doublings of one. *)
TwoTo(n) == LET power[k \in 0 .. n] == IF k = 0 THEN 1 ELSE 2 * power[k - 1] IN power[n]

(* A word of WordBits bits holds the numbers from -HalfWord up to, but     *)
(* without, HalfWord.                                                      *)
HalfWord == TwoTo(WordBits - 1)

ASSUME KubeletAssumption ==
    /\ {FailureThreshold, BreakerThreshold, HalfOpenMaxRequests, OpenTimeout}
          \subseteq Nat \ {0}
    /\ MaxBackoffTimeout \in Nat /\ MaxBackoffTimeout >= OpenTimeout
    /\ WordBits \in Nat \ {0} /\ HalfWord > MaxBackoffTimeout
    /\ MaxOpenings \in Nat /\ MaxOpenings > WordBits /\ MaxRestarts \in Nat

VARIABLES
    breaker,      \* configuration: "off", "fixed" or "exponential"
    state,        \* of the breaker: "closed", "open", "halfopen"
    cbFailures,   \* CircuitBreaker.consecutiveFailures
    cbSuccesses,  \* CircuitBreaker.consecutiveSuccesses
    multiplier,   \* metrics.CurrentBackoffMultiplier
    waited,       \* ticks since openedAt, saturating at MaxBackoffTimeout
    failures,     \* KubeletMonitor.consecutiveFailures, counted up to the threshold
    kubelet,      \* the kubelet is "up" or "down"
    reported,     \* what the node shows of each condition
    restarts      \* new instances of the monitor so far

breakerVars == <<state, cbFailures, cbSuccesses, multiplier, waited>>
kubeletVars == <<breaker, breakerVars, failures, kubelet, reported, restarts>>

KubeletConditions == {"KubeletHealthy", "KubeletDown", "KubeletUnhealthy"}
KubeletProblems == {"KubeletDown", "KubeletUnhealthy"}

KubeletTypeOK ==
    /\ breaker \in {"off", "fixed", "exponential"}
    /\ state \in {"closed", "open", "halfopen"}
    /\ cbFailures \in 0 .. BreakerThreshold - 1
    /\ cbSuccesses \in 0 .. HalfOpenMaxRequests - 1
    /\ multiplier \in 0 .. MaxOpenings
    /\ waited \in 0 .. MaxBackoffTimeout
    /\ failures \in 0 .. FailureThreshold
    /\ kubelet \in {"up", "down"}
    /\ reported \in [KubeletConditions -> {"none", "True", "False"}]
    /\ restarts \in 0 .. MaxRestarts

KubeletInit ==
    /\ breaker \in {"off", "fixed", "exponential"}
    /\ state = "closed" /\ cbFailures = 0 /\ cbSuccesses = 0
    /\ multiplier = 0 /\ waited = 0
    /\ failures = 0 /\ kubelet \in {"up", "down"} /\ restarts = 0
    /\ reported = [c \in KubeletConditions |-> "none"]

----------------------------------------------------------------------------
(* Two's complement arithmetic of WordBits bits. *)
Wrap(x) ==
    LET r == x % (2 * HalfWord)
    IN  IF r >= HalfWord THEN r - 2 * HalfWord ELSE r

MutShiftShort ==
    IF breaker # "exponential" \/ multiplier <= 1 THEN OpenTimeout
    ELSE LET timeout == Wrap(OpenTimeout * Wrap(TwoTo(multiplier - 2)))
         IN  IF timeout > MaxBackoffTimeout THEN MaxBackoffTimeout ELSE timeout

(* calculateTimeout: doubled for every opening after the first, capped. *)
CalculateTimeout ==
    IF breaker # "exponential" \/ multiplier = 0 THEN OpenTimeout
    ELSE LET timeout == Wrap(OpenTimeout * Wrap(TwoTo(multiplier - 1)))
         IN  IF timeout > MaxBackoffTimeout THEN MaxBackoffTimeout ELSE timeout

(* CanAttempt: an open breaker that has waited long enough half-opens. *)
Refuses == breaker # "off" /\ state = "open" /\ waited < CalculateTimeout
StateAtAttempt == IF state = "open" THEN "halfopen" ELSE state

(* Counted up to MaxOpenings, from where on the shifted multiplier is 0.   *)
Open ==
    /\ state' = "open" /\ waited' = 0
    /\ cbFailures' = 0 /\ cbSuccesses' = 0
    /\ multiplier' = IF breaker = "exponential" /\ multiplier < MaxOpenings
                     THEN multiplier + 1 ELSE multiplier

(* RecordSuccess, in the state CanAttempt left. *)
RecordSuccess ==
    LET enough == cbSuccesses + 1 >= HalfOpenMaxRequests
    IN  CASE StateAtAttempt = "closed" ->
               cbFailures' = 0 /\ UNCHANGED <<state, cbSuccesses, multiplier, waited>>
          [] StateAtAttempt = "halfopen" ->
               /\ cbFailures' = 0
               /\ state' = IF enough THEN "closed" ELSE "halfopen"
               /\ cbSuccesses' = IF enough THEN 0 ELSE cbSuccesses + 1
               /\ multiplier' = IF enough THEN 0 ELSE multiplier
               /\ UNCHANGED waited

(* RecordFailure: at the threshold, or while half-open, the breaker opens. *)
RecordFailure ==
    IF StateAtAttempt = "halfopen" \/ cbFailures + 1 >= BreakerThreshold
    THEN Open
    ELSE /\ cbFailures' = cbFailures + 1 /\ cbSuccesses' = 0
         /\ UNCHANGED <<state, multiplier, waited>>

----------------------------------------------------------------------------
Observations == [health : BOOLEAN, systemd : {"active", "inactive", "error"}]

(* checkHealth, checkSystemd, checkPLEG: a systemd status that cannot be   *)
(* read does not fail the check, and the relist time never does.           *)
CheckHealth(o) == o.health
CheckSystemd(o) == o.systemd # "inactive"
CheckPLEG(o) == TRUE
AllHealthy(o) == CheckHealth(o) /\ CheckSystemd(o) /\ CheckPLEG(o)

MutClearOnEdge(healthy, o) ==
    IF healthy
    THEN IF failures = 0 THEN [KubeletHealthy |-> "True"]
         ELSE [KubeletHealthy |-> "True", KubeletDown |-> "False", KubeletUnhealthy |-> "False"]
    ELSE (IF o.systemd = "inactive" THEN [KubeletDown |-> "True"] ELSE <<>>)
         @@ (IF failures + 1 >= FailureThreshold THEN [KubeletUnhealthy |-> "True"] ELSE <<>>)

(* The conditions of the status of a check that ran: checkSystemd, then    *)
(* updateFailureTracking.                                                  *)
CheckedConditions(healthy, o) ==
    IF healthy
    THEN [KubeletHealthy |-> "True", KubeletDown |-> "False", KubeletUnhealthy |-> "False"]
    ELSE (IF o.systemd = "inactive" THEN [KubeletDown |-> "True"] ELSE <<>>)
         @@ (IF failures + 1 >= FailureThreshold THEN [KubeletUnhealthy |-> "True"] ELSE <<>>)

(* What the node shows after a status with these conditions. *)
Told(cs) == [c \in KubeletConditions |-> IF c \in DOMAIN cs THEN cs[c] ELSE reported[c]]

(* sendStatus: the status gets through, or is dropped. *)
KubeletSends(cs, sent) == reported' = IF sent THEN Told(cs) ELSE reported

(* checkKubelet with the breaker open: no check, one condition. *)
SkipCheck(sent) ==
    /\ Refuses
    /\ KubeletSends([KubeletUnhealthy |-> "True"], sent)
    /\ UNCHANGED <<breaker, breakerVars, failures, kubelet, restarts>>

(* checkKubelet otherwise: the checks, the breaker, the failure count. *)
RunCheck(o, sent) ==
    LET healthy == AllHealthy(o)
    IN  /\ ~Refuses
        /\ healthy <=> kubelet = "up"
        /\ IF breaker = "off" THEN UNCHANGED breakerVars
           ELSE IF healthy THEN RecordSuccess ELSE RecordFailure
        /\ failures' = CASE healthy -> 0
                         [] ~healthy /\ failures < FailureThreshold -> failures + 1
                         [] OTHER -> failures
        /\ KubeletSends(CheckedConditions(healthy, o), sent)
        /\ UNCHANGED <<breaker, kubelet, restarts>>

(* The clock; only the time since the breaker opened is observed. *)
ClockTick ==
    /\ state = "open" /\ waited < MaxBackoffTimeout
    /\ waited' = waited + 1
    /\ UNCHANGED <<breaker, state, cbFailures, cbSuccesses, multiplier, failures, kubelet,
                   reported, restarts>>

(* A new instance of the monitor: NewKubeletMonitor. *)
RestartMonitor ==
    /\ restarts < MaxRestarts /\ restarts' = restarts + 1
    /\ state' = "closed" /\ cbFailures' = 0 /\ cbSuccesses' = 0
    /\ multiplier' = 0 /\ waited' = 0 /\ failures' = 0
    /\ UNCHANGED <<breaker, kubelet, reported>>

(* The kubelet fails, or recovers. *)
KubeletChanges ==
    /\ kubelet' = IF kubelet = "up" THEN "down" ELSE "up"
    /\ UNCHANGED <<breaker, breakerVars, failures, reported, restarts>>

KubeletNext ==
    \/ \E sent \in BOOLEAN : SkipCheck(sent)
    \/ \E o \in Observations, sent \in BOOLEAN : RunCheck(o, sent)
    \/ ClockTick \/ RestartMonitor \/ KubeletChanges

KubeletSpec == KubeletInit /\ [][KubeletNext]_kubeletVars

----------------------------------------------------------------------------
(* An open breaker keeps the monitor away from the kubelet for OpenTimeout,*)
(* doubled with every further opening in a row up to MaxBackoffTimeout,    *)
(* whether the check that ends the wait succeeds or leaves the breaker     *)
(* open again (CanAttempt, calculateTimeout): as long as the doubled       *)
(* duration fits the word.  Beyond that the product wraps to a negative    *)
(* number or zero, which the cap lets through, and the wait is over at     *)
(* once.                                                                   *)
Doubled == OpenTimeout * TwoTo(multiplier - 1)
BreakerHoldsOff ==
    [][(state = "open" /\ \E o \in Observations, sent \in BOOLEAN : RunCheck(o, sent))
       => IF breaker = "fixed" THEN waited >= OpenTimeout
          ELSE Doubled < HalfWord => waited >= Doubled \/ waited >= MaxBackoffTimeout]_kubeletVars

(* What the node shows follows the kubelet: once it stays up, every        *)
(* problem the monitor has ever reported is withdrawn for good, those of   *)
(* the breaker and of the systemd check too, and once it stays down it is  *)
(* shown as unhealthy; although statuses are lost, the breaker keeps       *)
(* checks away, and a new instance of the monitor knows nothing of what    *)
(* the last one reported (updateFailureTracking, checkKubelet).            *)
KubeletShown ==
    /\ <>[](kubelet = "up") => <>[](\A c \in KubeletProblems : reported[c] # "True")
    /\ <>[](kubelet = "down") => <>[](reported.KubeletUnhealthy = "True")
=============================================================================
