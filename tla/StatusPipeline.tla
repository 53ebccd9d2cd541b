--------------------------- MODULE StatusPipeline ---------------------------
(***************************************************************************)
(* The detector's status pipeline and its remediation dispatch policy      *)
(* (pkg/detector/detector.go): monitors report, one fan-in goroutine per   *)
(* monitor forwards into the shared channel, a single goroutine processes. *)
(*                                                                         *)
(* Processing a status replaces it by MonitorBlocked when a dependency is  *)
(* unhealthy, caches it, and applies the per-incident policy; a dispatch   *)
(* runs to its end on the processing goroutine, so the channel fills up    *)
(* meanwhile and fan-ins drop what they cannot deliver in 5 seconds.       *)
(*                                                                         *)
(* Each monitor reports one condition.  Time is kept as ages advanced by   *)
(* PipelineTick, which stop growing once no comparison can tell.                   *)
(***************************************************************************)
EXTENDS Integers, Sequences, FiniteSets, FiniteSetsExt

CONSTANTS
    Monitors,
    DependsOn,       \* per monitor: dependsOn
    Policy,          \* per monitor: its remediation block
    ChanCap,         \* capacity of statusChan
    MaxFlips         \* bound on changes of the node's real health

(* A remediation block.  trigger: triggerConditions names the condition,   *)
(* so True is its problem state; else the legacy rule, False.  requires:   *)
(* a monitor whose condition must have the given status (preconditions).   *)
NoMonitor == "none"
PolicyRecord ==
    [enabled : BOOLEAN, trigger : BOOLEAN, maxAttempts : Nat, cooldown : Nat,
     requires : Monitors \cup {NoMonitor}, status : {"True", "False"}, maxAge : Nat]

ASSUME PipelineAssumption ==
    /\ IsFiniteSet(Monitors) /\ NoMonitor \notin Monitors
    /\ DependsOn \in [Monitors -> SUBSET Monitors]
    /\ Policy \in [Monitors -> PolicyRecord]
    /\ ChanCap \in Nat \ {0} /\ MaxFlips \in Nat

VARIABLES
    health,      \* per monitor: what a check would find now
    flips,       \* changes of health so far
    pending,     \* per monitor: status its fan-in holds, a sequence of at most one
    statusChan,  \* pd.statusChan
    lastStatus,  \* pd.lastStatus: per monitor, a sequence of at most one
    incidents,   \* pd.incidents: attempts, and time since the last dispatch
    globalOn,    \* remediation.enabled in the current config
    running,     \* the monitor whose dispatch occupies the processing goroutine
    episode,     \* history: per monitor, number of its current problem episode
    dispatches,  \* history: per monitor and episode, dispatches made
    gap          \* history: per monitor, time since its last dispatch

pipelineVars == <<health, flips, pending, statusChan, lastStatus, incidents, globalOn,
          running, episode, dispatches, gap>>

Saturate(n, limit) == IF n > limit THEN limit ELSE n
OldestAge ==
    Max({0} \cup {Policy[m].maxAge + 1 : m \in {k \in Monitors : Policy[k].requires # NoMonitor}})
LongestCooldown == Max({Policy[m].cooldown : m \in Monitors})

Episodes == 0 .. MaxFlips + 1
Status == [source : Monitors, cond : {"True", "False", "MonitorBlocked"},
           age : 0 .. OldestAge, episode : Episodes]

PipelineTypeOK ==
    /\ health \in [Monitors -> {"True", "False"}]
    /\ flips \in 0 .. MaxFlips
    /\ pending \in [Monitors -> {<<>>} \cup {<<s>> : s \in Status}]
    /\ statusChan \in Seq(Status) /\ Len(statusChan) <= ChanCap
    /\ lastStatus \in [Monitors -> {<<>>} \cup {<<s>> : s \in Status}]
    /\ incidents \in [Monitors -> [attempts : Nat, since : 0 .. LongestCooldown]]
    /\ globalOn \in BOOLEAN
    /\ running \in Monitors \cup {NoMonitor}
    /\ episode \in [Monitors -> Episodes]
    /\ dispatches \in [Monitors -> [Episodes -> Nat]]
    /\ gap \in [Monitors -> 0 .. LongestCooldown]

(* isRemediationTrigger: the status that is a problem for this policy. *)
ProblemStatus(m) == IF Policy[m].trigger THEN "True" ELSE "False"
HealthyStatus(m) == IF Policy[m].trigger THEN "False" ELSE "True"

PipelineInit ==
    /\ health = [m \in Monitors |-> HealthyStatus(m)]
    /\ flips = 0
    /\ pending = [m \in Monitors |-> <<>>]
    /\ statusChan = <<>>
    /\ lastStatus = [m \in Monitors |-> <<>>]
    /\ incidents = [m \in Monitors |-> [attempts |-> 0, since |-> LongestCooldown]]
    /\ globalOn = TRUE
    /\ running = NoMonitor
    /\ episode = [m \in Monitors |-> 0]
    /\ dispatches = [m \in Monitors |-> [e \in Episodes |-> 0]]
    /\ gap = [m \in Monitors |-> LongestCooldown]

----------------------------------------------------------------------------
(* The node's health changes. *)
Flip(m) ==
    /\ flips < MaxFlips
    /\ flips' = flips + 1
    /\ health' = [health EXCEPT ![m] = IF @ = "True" THEN "False" ELSE "True"]
    /\ UNCHANGED <<pending, statusChan, lastStatus, incidents, globalOn, running,
                   episode, dispatches, gap>>

(* A monitor's check: its status reaches the fan-in goroutine.  Episodes   *)
(* alternate: even ones are healthy, odd ones are problems.                *)
Report(m) ==
    /\ pending[m] = <<>>
    /\ LET inProblem == episode[m] % 2 = 1
           new == IF inProblem # (health[m] = ProblemStatus(m))
                  THEN episode[m] + 1 ELSE episode[m]
       IN  /\ episode' = [episode EXCEPT ![m] = new]
           /\ pending' = [pending EXCEPT ![m] =
                            <<[source |-> m, cond |-> health[m], age |-> 0, episode |-> new]>>]
    /\ UNCHANGED <<health, flips, statusChan, lastStatus, incidents, globalOn, running,
                   dispatches, gap>>

(* fanInFromMonitor: the channel has room. *)
Forward(m) ==
    /\ pending[m] # <<>>
    /\ Len(statusChan) < ChanCap
    /\ statusChan' = statusChan \o pending[m]
    /\ pending' = [pending EXCEPT ![m] = <<>>]
    /\ UNCHANGED <<health, flips, lastStatus, incidents, globalOn, running, episode,
                   dispatches, gap>>

(* fanInFromMonitor: no room for 5 seconds, the status is dropped. *)
DropStatus(m) ==
    /\ pending[m] # <<>>
    /\ Len(statusChan) = ChanCap
    /\ pending' = [pending EXCEPT ![m] = <<>>]
    /\ UNCHANGED <<health, flips, statusChan, lastStatus, incidents, globalOn, running,
                   episode, dispatches, gap>>

MutDirectBlockOnly(m) ==
    \E d \in DependsOn[m] : lastStatus[d] # <<>> /\ lastStatus[d][1].cond = "False"

(* isMonitorBlocked: a dependency's latest status is False or is itself a  *)
(* MonitorBlocked; one that has not reported does not block.               *)
IsMonitorBlocked(m) ==
    \E d \in DependsOn[m] :
        lastStatus[d] # <<>> /\ lastStatus[d][1].cond \in {"False", "MonitorBlocked"}

(* synthBlockedStatus: a fresh status in place of the reported one. *)
EffectiveStatus(s) ==
    IF IsMonitorBlocked(s.source)
    THEN [s EXCEPT !.cond = "MonitorBlocked", !.age = 0] ELSE s

(* failedPrecondition, against the statuses as cached when it is asked. *)
PreconditionHolds(m, cache) ==
    LET p == Policy[m] IN
    p.requires # NoMonitor =>
        /\ cache[p.requires] # <<>>
        /\ cache[p.requires][1].age <= p.maxAge
        /\ cache[p.requires][1].cond = p.status

(* admitRemediation: per-incident cap, cooldown, preconditions. *)
CapReached(m) ==
    Policy[m].maxAttempts > 0 /\ incidents[m].attempts >= Policy[m].maxAttempts

Admitted(m, cache) ==
    /\ ~CapReached(m)
    /\ incidents[m].since >= Policy[m].cooldown
    /\ PreconditionHolds(m, cache)

MutForgetDispatchTime(m) ==
    [incidents EXCEPT ![m] = [attempts |-> 0, since |-> LongestCooldown]]

(* endIncident: the count restarts, the time of the last dispatch stays. *)
EndIncident(m) == [incidents EXCEPT ![m].attempts = 0]

MutEndOnAnyStatus(s) == s.cond # ProblemStatus(s.source)

(* The condition is relevant and out of its problem state.  A              *)
(* MonitorBlocked status carries another condition type, so it does not    *)
(* end the incident.                                                       *)
EndsIncident(s) == s.cond = HealthyStatus(s.source)

(* evaluateRemediation: the attempt is recorded before it runs. *)
EvaluateRemediation(s, cache) ==
    LET m == s.source IN
    IF ~globalOn \/ ~Policy[m].enabled
    THEN UNCHANGED <<incidents, running, dispatches, gap>>
    ELSE IF EndsIncident(s)
    THEN incidents' = EndIncident(m) /\ UNCHANGED <<running, dispatches, gap>>
    ELSE IF s.cond = ProblemStatus(m) /\ Admitted(m, cache)
    THEN /\ incidents' = [incidents EXCEPT ![m] = [attempts |-> @.attempts + 1, since |-> 0]]
         /\ running' = m
         /\ dispatches' = [dispatches EXCEPT ![m][s.episode] = @ + 1]
         /\ gap' = [gap EXCEPT ![m] = 0]
    ELSE UNCHANGED <<incidents, running, dispatches, gap>>

(* processStatus: replace, cache, export, evaluate. *)
ProcessStatus ==
    /\ running = NoMonitor
    /\ statusChan # <<>>
    /\ statusChan' = Tail(statusChan)
    /\ LET s == EffectiveStatus(Head(statusChan))
       IN  /\ lastStatus' = [lastStatus EXCEPT ![s.source] = <<s>>]
           /\ EvaluateRemediation(s, lastStatus')
    /\ UNCHANGED <<health, flips, pending, globalOn, episode>>

(* The dispatched strategies have run; whatever the outcome, the detector  *)
(* only counts it.                                                         *)
RemediationEnds ==
    /\ running # NoMonitor
    /\ running' = NoMonitor
    /\ UNCHANGED <<health, flips, pending, statusChan, lastStatus, incidents, globalOn,
                   episode, dispatches, gap>>

(* A reload switches remediation on or off; pd.config is swapped. *)
ToggleRemediation ==
    /\ globalOn' = ~globalOn
    /\ UNCHANGED <<health, flips, pending, statusChan, lastStatus, incidents, running,
                   episode, dispatches, gap>>

Older(seq) == [i \in DOMAIN seq |-> [seq[i] EXCEPT !.age = Saturate(@ + 1, OldestAge)]]

PipelineTick ==
    /\ pending' = [m \in Monitors |-> Older(pending[m])]
    /\ statusChan' = Older(statusChan)
    /\ lastStatus' = [m \in Monitors |-> Older(lastStatus[m])]
    /\ incidents' = [m \in Monitors |->
                       [incidents[m] EXCEPT !.since = Saturate(@ + 1, LongestCooldown)]]
    /\ gap' = [m \in Monitors |-> Saturate(gap[m] + 1, LongestCooldown)]
    /\ UNCHANGED <<health, flips, globalOn, running, episode, dispatches>>

PipelineNext ==
    \/ \E m \in Monitors : Flip(m) \/ Report(m) \/ Forward(m) \/ DropStatus(m)
    \/ ProcessStatus
    \/ RemediationEnds
    \/ ToggleRemediation
    \/ PipelineTick

PipelineSpec == PipelineInit /\ [][PipelineNext]_pipelineVars

----------------------------------------------------------------------------
(* In one problem episode of a monitor (from its first problem report to   *)
(* its next healthy report) there are at most maxAttemptsPerIncident       *)
(* dispatches, however long reports queue up behind a running remediation, *)
(* are dropped, or are replaced by MonitorBlocked (admitRemediation).      *)
AttemptsPerEpisode ==
    \A m \in Monitors : Policy[m].maxAttempts > 0 =>
        \A e \in Episodes : dispatches[m][e] <= Policy[m].maxAttempts

(* What a check found, with the episode it belongs to: odd ones are        *)
(* problems.                                                               *)
Finding(s) == s.episode % 2 = 1 <=> s.cond = ProblemStatus(s.source)

(* A new episode begins with a change of health not yet reported. *)
Unreported(m) == ~(episode[m] % 2 = 1 <=> health[m] = ProblemStatus(m))
EpisodesFromFlips ==
    \A m \in Monitors :
        /\ episode[m] <= flips
        /\ Unreported(m) => episode[m] + 1 <= flips

(* The statuses of one monitor are processed in the order it reported      *)
(* them, whatever was dropped: fan-in, channel and cache.                  *)
PendingInOrder ==
    \A m \in Monitors : pending[m] # <<>> =>
        /\ pending[m][1].source = m /\ Finding(pending[m][1])
        /\ pending[m][1].episode <= episode[m]

ChannelInOrder ==
    \A i \in DOMAIN statusChan : LET s == statusChan[i] IN
        /\ Finding(s) /\ s.episode <= episode[s.source]
        /\ pending[s.source] # <<>> => s.episode <= pending[s.source][1].episode
        /\ lastStatus[s.source] # <<>> => lastStatus[s.source][1].episode <= s.episode
        /\ \A j \in DOMAIN statusChan :
             i < j /\ statusChan[j].source = s.source => s.episode <= statusChan[j].episode

CacheInOrder ==
    \A m \in Monitors : lastStatus[m] # <<>> =>
        /\ lastStatus[m][1].source = m
        /\ lastStatus[m][1].episode <= episode[m]
        /\ pending[m] # <<>> => lastStatus[m][1].episode <= pending[m][1].episode

StreamsInOrder == PendingInOrder /\ ChannelInOrder /\ CacheInOrder

(* The incident counts at least the dispatches of the episode that was     *)
(* processed last, and later episodes have none.                           *)
DispatchesCounted ==
    \A m \in Monitors :
        /\ \A e \in Episodes : dispatches[m][e] > 0 =>
              lastStatus[m] # <<>> /\ e <= lastStatus[m][1].episode /\ e % 2 = 1
        /\ lastStatus[m] # <<>> =>
              dispatches[m][lastStatus[m][1].episode] <= incidents[m].attempts
        /\ Policy[m].maxAttempts > 0 => incidents[m].attempts <= Policy[m].maxAttempts

(* The inductive invariant behind AttemptsPerEpisode. *)
DispatchesBounded ==
    /\ PipelineTypeOK
    /\ EpisodesFromFlips
    /\ StreamsInOrder
    /\ DispatchesCounted
    /\ AttemptsPerEpisode

(* Two dispatches for one condition are at least cooldown apart, also when *)
(* the incident ended in between (admitRemediation and endIncident).       *)
DispatchesSpaced ==
    [][\A m \in Monitors :
         (running # m /\ running' = m) => gap[m] >= Policy[m].cooldown]_pipelineVars

(* The invariant behind DispatchesSpaced: the age that admitRemediation    *)
(* compares is the time since the last dispatch, whatever ended in between.*)
AgeOfDispatch ==
    PipelineTypeOK /\ EpisodesFromFlips /\ \A m \in Monitors : incidents[m].since = gap[m]

(* Transitive blocking, by definition: a dependency's check finds False,   *)
(* or the dependency is itself blocked.                                    *)
ShouldBlock[m \in Monitors] ==
    \E d \in DependsOn[m] : health[d] = "False" \/ ShouldBlock[d]

(* Once every monitor has been heard, the node's health stops changing and *)
(* the channel no longer fills up, what the detector holds and exports for *)
(* every monitor settles: MonitorBlocked exactly where some monitor up the *)
(* dependency chain is unhealthy, the monitor's own finding elsewhere      *)
(* (processStatus caches the effective status).                            *)
BlockingConverges ==
    <>[](Len(statusChan) < ChanCap /\ \A m \in Monitors : lastStatus[m] # <<>>) =>
    <>[](\A m \in Monitors :
           /\ lastStatus[m] # <<>>
           /\ lastStatus[m][1].cond = IF ShouldBlock[m] THEN "MonitorBlocked" ELSE health[m])
=============================================================================
