---------------------------- MODULE ClusterView ----------------------------
(***************************************************************************)
(* The controller's view of the cluster: agents report their active        *)
(* problems (report.go and controller_webhook.go in pkg/exporters/http),   *)
(* the controller keeps the latest report of each node                     *)
(* (pkg/controller/server.go, storage.go) and its correlator looks for     *)
(* problems that nodes have in common (correlator.go).                     *)
(*                                                                         *)
(* An agent's start-up report and its periodic ones are sent by two        *)
(* goroutines, and a request that timed out at the agent may still be on   *)
(* its way or in its handler, so reports of a node overtake each other.    *)
(* The correlator evaluates in two critical sections; Stop holds its lock  *)
(* until the evaluation loop has ended.                                    *)
(***************************************************************************)
EXTENDS Integers, FiniteSets

CONSTANTS
    Agents, Problems,
    CommonCauses,    \* the problem sets of the common-cause patterns
    Cascades,        \* the chains of the cascade patterns, as sets
    MinNodes,        \* config.MinNodesForCorrelation
    ThresholdPct,    \* config.ClusterWideThreshold
    MaxUnderway,     \* reports of a node under way at a time
    MaxNews,         \* bound on changes of what agents find
    MaxDbFaults,     \* bound on writes and reads of the database that fail
    MaxStarts        \* bound on starts of the controller

ASSUME ClusterAssumption ==
    /\ CommonCauses \subseteq SUBSET Problems /\ Cascades \subseteq SUBSET Problems
    /\ {MinNodes, ThresholdPct, MaxUnderway, MaxNews, MaxDbFaults, MaxStarts} \subseteq Nat
    /\ MinNodes > 0

NoReport == [known |-> FALSE, problems |-> {}]
Report(ps) == [known |-> TRUE, problems |-> ps]

(* generateCorrelationID: of the kind and the problem type or the pattern. *)
CorrelationIDs ==
    {<<"infrastructure", {p}>> : p \in Problems} \cup {<<"common-cause", c>> : c \in CommonCauses}
        \cup {<<"cascade", c>> : c \in Cascades}

ProblemTypes(id) == id[2]

VARIABLES
    problems,     \* per agent: rb.activeProblems
    wire,         \* per agent: the reports on their way
    handling,     \* per agent: the reports whose handler has not reached the correlator
    savedReports, \* the latest rows of node_reports; s.nodeReports, which only the API
                  \* shows, holds the same unless a write failed
    tracked,      \* c.nodeReports
    active,       \* c.active: per id the affected nodes, none when it is not active
    storedActive, \* the rows of correlations with status active, likewise
    evaluator,    \* "idle", "detecting", "blocked" (waits for c.mu for ever)
    evaluated,    \* the reports the evaluation has copied
    server,       \* "up", "stopping" (Stop of the correlator holds c.mu), "down"
    news, dbFaults, starts

clusterVars == <<problems, wire, handling, savedReports, tracked, active,
                 storedActive, evaluator, evaluated, server, news, dbFaults, starts>>

NoReports == [n \in Agents |-> NoReport]
NoneActive == [id \in CorrelationIDs |-> {}]
Nowhere == [n \in Agents |-> {}]

ClusterInit ==
    /\ \E ps \in SUBSET Problems : problems = [n \in Agents |-> ps]
    /\ wire = Nowhere /\ handling = Nowhere
    /\ savedReports = NoReports /\ tracked = NoReports
    /\ active = NoneActive /\ storedActive = NoneActive
    /\ evaluator = "idle" /\ evaluated = NoReports
    /\ server = "up" /\ news = 0 /\ dbFaults = 0 /\ starts = 1

(* A database operation goes through or fails. *)
DbAnswers(ok) == dbFaults' = IF ok THEN dbFaults ELSE dbFaults + 1
DbOutcomes == IF dbFaults < MaxDbFaults THEN BOOLEAN ELSE {TRUE}

----------------------------------------------------------------------------
(* AddProblem and RemoveProblem of the report builder. *)
ProblemChanges(n, p) ==
    /\ news < MaxNews /\ news' = news + 1
    /\ problems' = [problems EXCEPT ![n] = IF p \in @ THEN @ \ {p} ELSE @ \cup {p}]
    /\ UNCHANGED <<wire, handling, savedReports, tracked, active, storedActive,
                   evaluator, evaluated, server, dbFaults, starts>>

(* sendReport: each attempt builds the report anew. *)
SendReport(n) ==
    /\ Cardinality(wire[n]) + Cardinality(handling[n]) < MaxUnderway
    /\ wire' = [wire EXCEPT ![n] = @ \cup {problems[n]}]
    /\ UNCHANGED <<problems, handling, savedReports, tracked, active, storedActive,
                   evaluator, evaluated, server, news, dbFaults, starts>>

(* A report does not arrive; the agent tries again or waits for its next   *)
(* tick.                                                                   *)
LoseReport(n, ps) ==
    /\ ps \in wire[n] /\ server # "up"
    /\ wire' = [wire EXCEPT ![n] = @ \ {ps}]
    /\ UNCHANGED <<problems, handling, savedReports, tracked, active, storedActive,
                   evaluator, evaluated, server, news, dbFaults, starts>>

(* handleReports: the map of the server, then the database ... *)
HandleReport(n, ps) ==
    /\ ps \in wire[n] /\ server = "up"
    /\ wire' = [wire EXCEPT ![n] = @ \ {ps}]
    /\ handling' = [handling EXCEPT ![n] = @ \cup {ps}]
    /\ \E ok \in DbOutcomes :
         /\ DbAnswers(ok)
         /\ savedReports' = IF ok THEN [savedReports EXCEPT ![n] = Report(ps)] ELSE savedReports
    /\ UNCHANGED <<problems, tracked, active, storedActive, evaluator, evaluated, server, news,
                   starts>>

MutKeepsFirstReport(n, ps) ==
    /\ ps \in handling[n] /\ server = "up"
    /\ handling' = [handling EXCEPT ![n] = @ \ {ps}]
    /\ tracked' = IF tracked[n].known THEN tracked ELSE [tracked EXCEPT ![n] = Report(ps)]
    /\ UNCHANGED <<problems, wire, savedReports, active, storedActive, evaluator,
                   evaluated, server, news, dbFaults, starts>>

(* ... then UpdateNodeReport of the correlator, under c.mu. *)
UpdateNodeReport(n, ps) ==
    /\ ps \in handling[n] /\ server = "up"
    /\ handling' = [handling EXCEPT ![n] = @ \ {ps}]
    /\ tracked' = [tracked EXCEPT ![n] = Report(ps)]
    /\ UNCHANGED <<problems, wire, savedReports, active, storedActive, evaluator,
                   evaluated, server, news, dbFaults, starts>>

----------------------------------------------------------------------------
(* The ticker fires while Stop holds c.mu and waits for the loop: its      *)
(* select may choose the tick, and evaluate then waits for the lock.       *)
TickWhileStopping ==
    /\ evaluator = "idle" /\ server = "stopping"
    /\ evaluator' = "blocked"
    /\ UNCHANGED <<problems, wire, handling, savedReports, tracked, active, storedActive,
                   evaluated, server, news, dbFaults, starts>>

Known(reports) == {n \in Agents : reports[n].known}

(* A tick of evaluationLoop; evaluate, first critical section: with too    *)
(* few reports that is all.                                                *)
CopyReports ==
    /\ evaluator = "idle" /\ server = "up"
    /\ Cardinality(Known(tracked)) >= MinNodes
    /\ evaluator' = "detecting" /\ evaluated' = tracked
    /\ UNCHANGED <<problems, wire, handling, savedReports, tracked, active,
                   storedActive, server, news, dbFaults, starts>>

Having(reports, ps) == {n \in Agents : ps \subseteq reports[n].problems}

(* detectInfrastructureCorrelation: a share of the nodes and a minimum. *)
DetectInfrastructure(reports, p) ==
    LET nodes == Having(reports, {p})
    IN  IF /\ 100 * Cardinality(nodes) >= ThresholdPct * Cardinality(Known(reports))
           /\ Cardinality(nodes) >= MinNodes
        THEN nodes ELSE {}

(* detectCommonCauseCorrelation with findNodesWithAllProblems *)
DetectCommonCause(reports, ps) ==
    IF Cardinality(Having(reports, ps)) >= MinNodes THEN Having(reports, ps) ELSE {}

(* detectCascadeCorrelation with findNodesWithCascade: two of the chain. *)
DetectCascade(reports, ps) ==
    LET nodes == {n \in Agents : Cardinality(ps \cap reports[n].problems) >= 2}
    IN  IF Cardinality(nodes) >= MinNodes THEN nodes ELSE {}

Detect(reports, id) ==
    CASE id[1] = "infrastructure" -> UNION {DetectInfrastructure(reports, p) : p \in id[2]}
      [] id[1] = "common-cause"   -> DetectCommonCause(reports, id[2])
      [] id[1] = "cascade"        -> DetectCascade(reports, id[2])

(* resolveStaleCorrelations: active while one of its nodes reports one of  *)
(* its problems, even when it is no longer detected.                       *)
StillActive(reports, id, nodes) ==
    \E n \in nodes : ProblemTypes(id) \cap reports[n].problems # {}

MutForgetsRow(detected, remaining, ok) ==
    [id \in CorrelationIDs |->
        IF ok /\ detected[id] # {} THEN detected[id] ELSE storedActive[id]]

(* The rows after an evaluation: each detected or resolved correlation is  *)
(* written, an active one that is neither is left alone.                   *)
SaveCorrelations(detected, remaining, ok) ==
    [id \in CorrelationIDs |->
        IF ~ok THEN storedActive[id]
        ELSE IF remaining[id] = {} /\ (detected[id] # {} \/ active[id] # {}) THEN {}
        ELSE IF detected[id] # {} THEN detected[id]
        ELSE storedActive[id]]

(* evaluate, second critical section: detected correlations are entered or *)
(* get their nodes replaced, then stale ones are resolved.  Writes that    *)
(* fail are only logged.                                                   *)
ApplyEvaluation ==
    /\ evaluator = "detecting" /\ server = "up"
    /\ evaluator' = "idle" /\ evaluated' = NoReports
    /\ LET detected == [id \in CorrelationIDs |-> Detect(evaluated, id)]
           entered == [id \in CorrelationIDs |-> IF detected[id] # {} THEN detected[id] ELSE active[id]]
           remaining == [id \in CorrelationIDs |->
                            IF StillActive(evaluated, id, entered[id]) THEN entered[id] ELSE {}]
       IN  \E ok \in DbOutcomes :
             /\ DbAnswers(ok)
             /\ active' = remaining
             /\ storedActive' = SaveCorrelations(detected, remaining, ok)
    /\ UNCHANGED <<problems, wire, handling, savedReports, tracked, server, news, starts>>

----------------------------------------------------------------------------
(* Stop of the server reaches Stop of the correlator, which takes c.mu. *)
StopController ==
    /\ server = "up" /\ server' = "stopping"
    /\ UNCHANGED <<problems, wire, handling, savedReports, tracked, active,
                   storedActive, evaluator, evaluated, news, dbFaults, starts>>

(* What ends with the process. *)
Forgotten ==
    /\ handling' = Nowhere /\ tracked' = NoReports /\ active' = NoneActive
    /\ evaluator' = "idle" /\ evaluated' = NoReports

(* The loop has seen the closed stop channel; the rest of Stop follows. *)
ControllerStopped ==
    /\ server = "stopping" /\ evaluator = "idle" /\ server' = "down"
    /\ Forgotten
    /\ UNCHANGED <<problems, wire, savedReports, storedActive, news, dbFaults, starts>>

(* The controller dies, or is killed because Stop does not return. *)
ControllerCrash ==
    /\ server # "down" /\ server' = "down"
    /\ Forgotten
    /\ UNCHANGED <<problems, wire, savedReports, storedActive, news, dbFaults, starts>>

(* Start: rehydrateFromStorage, then Start of the correlator, which loads  *)
(* the active correlations and is given the reports.                       *)
StartController ==
    /\ server = "down" /\ server' = "up"
    /\ starts < MaxStarts /\ starts' = starts + 1
    /\ \E ok \in DbOutcomes :
         /\ DbAnswers(ok)
         /\ tracked' = IF ok THEN savedReports ELSE NoReports
         /\ active' = IF ok THEN storedActive ELSE NoneActive
    /\ UNCHANGED <<problems, wire, handling, savedReports, storedActive, evaluator, evaluated, news>>

ClusterNext ==
    \/ \E n \in Agents : SendReport(n) \/ \E p \in Problems : ProblemChanges(n, p)
    \/ \E n \in Agents, ps \in SUBSET Problems :
         LoseReport(n, ps) \/ HandleReport(n, ps) \/ UpdateNodeReport(n, ps)
    \/ CopyReports \/ ApplyEvaluation
    \/ TickWhileStopping \/ StopController \/ ControllerStopped \/ ControllerCrash \/ StartController

ClusterSpec == ClusterInit /\ [][ClusterNext]_clusterVars

----------------------------------------------------------------------------
(* With a database that works, its active correlations are the correlator's*)
(* at all times, across crashes and restarts: a correlation that is        *)
(* resolved does not come back with the next start, and an active one is   *)
(* not forgotten (evaluate and resolveStaleCorrelations against Start).    *)
StoreAgrees == (dbFaults = 0 /\ server = "up") => storedActive = active

(* Both are kept per correlation. *)
CorrelationsTyped ==
    /\ active \in [CorrelationIDs -> SUBSET Agents]
    /\ storedActive \in [CorrelationIDs -> SUBSET Agents]
    /\ dbFaults \in Nat

(* The correlations follow what the nodes find: a problem that all nodes   *)
(* keep having becomes a correlation of all of them, and one that nobody   *)
(* has any more is resolved, for good in both cases, whatever reports were *)
(* late or lost and whatever the database failed to write, as long as the  *)
(* controller stays up.                                                    *)
CorrelationsFollow ==
    /\ \A p \in Problems :
         <>[](server = "up" /\ \A n \in Agents : p \in problems[n])
            => <>[](active[<<"infrastructure", {p}>>] = Agents)
    /\ \A id \in CorrelationIDs :
         <>[](server = "up" /\ \A n \in Agents : ProblemTypes(id) \cap problems[n] = {})
            => <>[](active[id] = {})

(* Stop of the controller comes to an end: nobody holds a lock over a wait *)
(* for someone who needs it.                                               *)
ControllerStopEnds == server = "stopping" ~> server # "stopping"
=============================================================================
