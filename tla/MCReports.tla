----------------------------- MODULE MCReports -----------------------------
(***************************************************************************)
(* What leaves the agent over HTTP, for TLC: statuses for webhooks, and    *)
(* reports for the controller; in each behaviour one of them is at work.   *)
(***************************************************************************)
EXTENDS WebhookPool, ClusterView

CONSTANT Parts     \* of "webhooks" and "cluster"

VARIABLE part

(* The problems of the one common cause, and of the one cascade. *)
BothProblems == {{"dns", "net"}}

allVars == <<part, poolVars, clusterVars>>

(* The parts that are not at work are in one of their initial states. *)
ReportsInit ==
    /\ part \in Parts
    /\ PoolInit
    /\ ClusterInit /\ (part # "cluster" => \A n \in Agents : problems[n] = {})

PoolStep == part = "webhooks" /\ PoolNext /\ UNCHANGED <<part, clusterVars>>
ClusterStep == part = "cluster" /\ ClusterNext /\ UNCHANGED <<part, poolVars>>

(* The timers of the pool's Stop fire, and workers are scheduled. *)
PoolFairness ==
    /\ WF_poolVars(part = "webhooks" /\ ~panicked /\ CancelPool)
    /\ WF_poolVars(part = "webhooks" /\ ~panicked /\ StopReturns)
    /\ \A p \in Pools, w \in PoolWorkers :
         WF_poolVars(part = "webhooks" /\ ~panicked /\ WorkerStep(p, w))

(* Agents go on reporting, requests reach a controller that is up, a       *)
(* handler and the loop get the lock.                                      *)
ClusterFairness ==
    /\ \A n \in Agents :
         /\ WF_clusterVars(part = "cluster" /\ SendReport(n))
         /\ WF_clusterVars(part = "cluster" /\ \E ps \in SUBSET Problems : HandleReport(n, ps))
         /\ WF_clusterVars(part = "cluster" /\ \E ps \in SUBSET Problems : UpdateNodeReport(n, ps))
    /\ WF_clusterVars(part = "cluster" /\ CopyReports)
    /\ WF_clusterVars(part = "cluster" /\ ApplyEvaluation)
    /\ WF_clusterVars(part = "cluster" /\ ControllerStopped)

ReportsSpec ==
    /\ ReportsInit /\ [][PoolStep \/ ClusterStep]_allVars
    /\ PoolFairness /\ ClusterFairness
=============================================================================
