---------------------------- MODULE WebhookPool ----------------------------
(***************************************************************************)
(* The HTTP exporter (pkg/exporters/http/exporter.go) and its worker pool  *)
(* (worker.go, client.go): statuses are queued without waiting, workers    *)
(* send each one to every webhook, Stop and a Reload with other pool       *)
(* settings stop the pool, a Reload also starts a new one.                 *)
(*                                                                         *)
(* Two locks matter.  Reload and Stop of the exporter hold e.mu, which     *)
(* ExportStatus takes for a moment at its beginning.  Stop of the pool     *)
(* holds wp.mu until its workers have ended or its timers have fired,      *)
(* while a worker needs wp.mu in getHTTPClient before every send.          *)
(***************************************************************************)
EXTENDS Integers, Sequences, FiniteSets

CONSTANTS
    Webhooks,       \* the endpoints, sent to one after the other
    PoolWorkers,    \* the workers of a pool
    QueueSize,
    MaxTries,       \* endpoint.Retry.MaxAttempts
    MaxRequests,    \* bound on statuses exported
    MaxPools        \* bound on pools: 1 + reloads that replace the pool

ASSUME PoolAssumption ==
    /\ PoolWorkers # {}
    /\ {QueueSize, MaxTries, MaxRequests, MaxPools} \subseteq Nat /\ MaxPools > 0

Requests == 1 .. MaxRequests
Pools == 1 .. MaxPools
Idle == [at |-> "idle"]
Gone == [at |-> "gone"]

VARIABLES
    pool,         \* e.workerPool
    poolState,    \* per pool: "new", "running", "closing" and "cancelled" (in Stop, which
                  \* holds wp.mu), "stopped"
    cancelled,    \* the pools whose context is cancelled
    requestCh,    \* per pool
    worker,       \* per pool and worker: what it is doing
    clients,      \* per pool: the webhooks with a client, wp.clients
    submitter,    \* ExportStatus of the detector's goroutine
    control,      \* who holds e.mu: "none", "reload", "stop"
    running,      \* e.started
    accepted,     \* the requests put into a queue, with the pool
    handled,      \* per request: the webhooks it was sent to, with success or not
    panicked      \* a send on a closed channel

poolVars == <<pool, poolState, cancelled, requestCh, worker, clients, submitter, control,
              running, accepted, handled, panicked>>

PoolInit ==
    /\ pool = 1 /\ poolState = [p \in Pools |-> IF p = 1 THEN "running" ELSE "new"]
    /\ cancelled = {} /\ requestCh = [p \in Pools |-> <<>>]
    /\ worker = [p \in Pools |-> [w \in PoolWorkers |-> IF p = 1 THEN Idle ELSE Gone]]
    /\ clients = [p \in Pools |-> {}]
    /\ submitter = [at |-> "idle", next |-> 1]
    /\ control = "none" /\ running = TRUE
    /\ accepted = {} /\ handled = [r \in Requests |-> {}] /\ panicked = FALSE

StopHoldsLock(p) == poolState[p] \in {"closing", "cancelled"}
Closed(p) == poolState[p] \in {"closing", "cancelled", "stopped"}

----------------------------------------------------------------------------
(* ExportStatus: e.started is read under e.mu ... *)
ExportStatus ==
    /\ submitter.at = "idle" /\ submitter.next <= MaxRequests /\ control = "none"
    /\ submitter' = IF running THEN [submitter EXCEPT !.at = "called"]
                    ELSE [submitter EXCEPT !.next = @ + 1]
    /\ UNCHANGED <<pool, poolState, cancelled, requestCh, worker, clients, control, running,
                   accepted, handled, panicked>>

(* ... then the pool is looked up without the lock ... *)
ReadPool ==
    /\ submitter.at = "called"
    /\ submitter' = [at |-> "submitting", next |-> submitter.next, to |-> pool]
    /\ UNCHANGED <<pool, poolState, cancelled, requestCh, worker, clients, control, running,
                   accepted, handled, panicked>>

Submitted == submitter' = [at |-> "idle", next |-> submitter.next + 1]

(* ... submitRequest reads wp.started under wp.mu ... *)
CheckStarted ==
    /\ submitter.at = "submitting" /\ ~StopHoldsLock(submitter.to)
    /\ IF poolState[submitter.to] = "running"
       THEN submitter' = [submitter EXCEPT !.at = "checked"] ELSE Submitted
    /\ UNCHANGED <<pool, poolState, cancelled, requestCh, worker, clients, control, running,
                   accepted, handled, panicked>>

(* ... and sends without it, dropping the request when the queue is full.  *)
SubmitRequest ==
    /\ submitter.at = "checked"
    /\ LET p == submitter.to
           r == submitter.next
       IN  IF Closed(p)
           THEN panicked' = TRUE /\ UNCHANGED <<requestCh, accepted>>
           ELSE /\ UNCHANGED panicked
                /\ IF Len(requestCh[p]) < QueueSize
                   THEN /\ requestCh' = [requestCh EXCEPT ![p] = Append(@, r)]
                        /\ accepted' = accepted \cup {<<r, p>>}
                   ELSE UNCHANGED <<requestCh, accepted>>
    /\ Submitted
    /\ UNCHANGED <<pool, poolState, cancelled, worker, clients, control, running, handled>>

----------------------------------------------------------------------------
Becomes(p, w, s) == worker' = [worker EXCEPT ![p][w] = s]

(* processRequest: the next webhook of the request, or back to the queue. *)
NextEndpoint(p, w, r, left) ==
    Becomes(p, w, IF left = {} THEN Idle ELSE [at |-> "client", request |-> r, left |-> left])

(* A worker takes a request: also while Stop waits, and although the       *)
(* context is cancelled, the select choosing either.                       *)
TakeRequest(p, w) ==
    /\ worker[p][w] = Idle /\ requestCh[p] # <<>>
    /\ requestCh' = [requestCh EXCEPT ![p] = Tail(@)]
    /\ NextEndpoint(p, w, Head(requestCh[p]), Webhooks)
    /\ UNCHANGED <<pool, poolState, cancelled, clients, submitter, control, running, accepted,
                   handled, panicked>>

MutLeavesQueue(p, w) ==
    /\ worker[p][w] = Idle
    /\ Closed(p) \/ p \in cancelled
    /\ Becomes(p, w, Gone)
    /\ UNCHANGED <<pool, poolState, cancelled, requestCh, clients, submitter, control, running,
                   accepted, handled, panicked>>

(* A worker ends: the channel is closed and empty, or the context done. *)
EndWorker(p, w) ==
    /\ worker[p][w] = Idle
    /\ (Closed(p) /\ requestCh[p] = <<>>) \/ p \in cancelled
    /\ Becomes(p, w, Gone)
    /\ UNCHANGED <<pool, poolState, cancelled, requestCh, clients, submitter, control, running,
                   accepted, handled, panicked>>

(* getHTTPClient waits for wp.mu; an endpoint's client is made once. *)
GetHTTPClient(p, w) ==
    /\ worker[p][w].at = "client" /\ ~StopHoldsLock(p)
    /\ \E h \in worker[p][w].left :
         /\ clients' = [clients EXCEPT ![p] = @ \cup {h}]
         /\ Becomes(p, w, [at |-> "sending", request |-> worker[p][w].request,
                           left |-> worker[p][w].left, to |-> h, tries |-> 0])
    /\ UNCHANGED <<pool, poolState, cancelled, requestCh, submitter, control, running, accepted,
                   handled, panicked>>

(* SendRequest, one attempt: done when the webhook accepts it, when the    *)
(* error is not retryable or the endpoint's time is over, and after the    *)
(* last attempt; the context of the pool plays no part.                    *)
SendRequest(p, w, answer) ==
    /\ worker[p][w].at = "sending"
    /\ LET s == worker[p][w]
       IN  IF answer = "retryable" /\ s.tries + 1 < MaxTries
           THEN Becomes(p, w, [s EXCEPT !.tries = @ + 1]) /\ UNCHANGED handled
           ELSE /\ handled' = [handled EXCEPT ![s.request] = @ \cup {s.to}]
                /\ NextEndpoint(p, w, s.request, s.left \ {s.to})
    /\ UNCHANGED <<pool, poolState, cancelled, requestCh, clients, submitter, control, running,
                   accepted, panicked>>

----------------------------------------------------------------------------
(* Stop of the pool: the channel is closed under wp.mu. *)
ClosePool(p) == poolState' = [poolState EXCEPT ![p] = "closing"]

(* Stop, or Reload with other workers, queue size or timeout. *)
BeginStop(who) ==
    /\ control = "none" /\ running /\ control' = who
    /\ who = "reload" => pool < MaxPools
    /\ ClosePool(pool)
    /\ UNCHANGED <<pool, cancelled, requestCh, worker, clients, submitter, running, accepted,
                   handled, panicked>>

Ended(p) == \A w \in PoolWorkers : worker[p][w] = Gone

MutNoSecondTimer ==
    /\ StopHoldsLock(pool) /\ Ended(pool)
    /\ control' = "none" /\ running' = (control = "reload")
    /\ IF control = "reload"
       THEN /\ pool' = pool + 1
            /\ poolState' = [poolState EXCEPT ![pool] = "stopped", ![pool + 1] = "running"]
            /\ worker' = [worker EXCEPT ![pool + 1] = [w \in PoolWorkers |-> Idle]]
       ELSE /\ poolState' = [poolState EXCEPT ![pool] = "stopped"]
            /\ UNCHANGED <<pool, worker>>
    /\ UNCHANGED <<cancelled, requestCh, clients, submitter, accepted, handled, panicked>>

(* The 30 seconds are over: the context is cancelled. *)
CancelPool ==
    /\ control # "none" /\ poolState[pool] = "closing" /\ ~Ended(pool)
    /\ poolState' = [poolState EXCEPT ![pool] = "cancelled"]
    /\ cancelled' = cancelled \cup {pool}
    /\ UNCHANGED <<pool, requestCh, worker, clients, submitter, control, running, accepted,
                   handled, panicked>>

(* Stop of the pool returns: its workers have ended, or the 5 seconds      *)
(* after the cancellation are over as well; then Stop of the exporter      *)
(* returns and Reload starts the new pool.                                 *)
StopReturns ==
    /\ StopHoldsLock(pool)
    /\ Ended(pool) \/ poolState[pool] = "cancelled"
    /\ control' = "none" /\ running' = (control = "reload")
    /\ IF control = "reload"
       THEN /\ pool' = pool + 1
            /\ poolState' = [poolState EXCEPT ![pool] = "stopped", ![pool + 1] = "running"]
            /\ worker' = [worker EXCEPT ![pool + 1] = [w \in PoolWorkers |-> Idle]]
       ELSE /\ poolState' = [poolState EXCEPT ![pool] = "stopped"]
            /\ UNCHANGED <<pool, worker>>
    /\ UNCHANGED <<cancelled, requestCh, clients, submitter, accepted, handled, panicked>>

WorkerStep(p, w) ==
    \/ TakeRequest(p, w) \/ EndWorker(p, w) \/ GetHTTPClient(p, w)
    \/ \E a \in {"accepted", "retryable", "fatal"} : SendRequest(p, w, a)

PoolNext ==
    /\ ~panicked
    /\ \/ ExportStatus \/ ReadPool \/ CheckStarted \/ SubmitRequest
       \/ \E p \in Pools, w \in PoolWorkers : WorkerStep(p, w)
       \/ \E who \in {"reload", "stop"} : BeginStop(who)
       \/ CancelPool \/ StopReturns

PoolSpec == PoolInit /\ [][PoolNext]_poolVars

----------------------------------------------------------------------------
(* A worker has the request, or is there to take it from the queue. *)
InHand(r) ==
    \E p \in Pools :
        \/ ~Ended(p) /\ \E i \in DOMAIN requestCh[p] : requestCh[p][i] = r
        \/ \E w \in PoolWorkers : /\ worker[p][w] \notin {Idle, Gone}
                                  /\ worker[p][w].request = r

(* A request that was accepted is sent to every webhook, across stops and  *)
(* reloads: it is never forgotten except when the timers of Stop have      *)
(* cancelled its pool's workers.                                           *)
AcceptedHandled ==
    \A r \in Requests, p \in Pools :
        <<r, p>> \in accepted => handled[r] = Webhooks \/ InHand(r) \/ p \in cancelled

(* What makes it so.  A worker has yet to send its request to what is left *)
(* of the webhooks, and to no other; a pool whose queue is not empty has   *)
(* all its workers unless it was cancelled, since none leaves before the   *)
(* channel is closed and empty and nothing enters a closed channel.        *)
Busy == [at : {"client"}, request : Requests, left : (SUBSET Webhooks) \ {{}}]
        \cup [at : {"sending"}, request : Requests, left : (SUBSET Webhooks) \ {{}}, to : Webhooks,
              tries : Nat]
PoolTypeOK ==
    /\ pool \in Pools
    /\ poolState \in [Pools -> {"new", "running", "closing", "cancelled", "stopped"}]
    /\ requestCh \in [Pools -> Seq(Requests)]
    /\ worker \in [Pools -> [PoolWorkers -> {Idle, Gone} \cup Busy]]
    /\ submitter \in [at : {"idle", "called"}, next : Nat \ {0}]
                     \cup [at : {"submitting", "checked"}, next : Nat \ {0}, to : Pools]
    /\ submitter.at # "idle" => submitter.next \in Requests
    /\ handled \in [Requests -> SUBSET Webhooks]
PoolsInOrder ==
    /\ control = "reload" => pool + 1 \in Pools
    /\ \A p \in Pools : p <= pool => poolState[p] # "new"
    /\ \A p \in Pools :
         p > pool => p \notin cancelled /\ \A w \in PoolWorkers : worker[p][w] = Gone
    /\ submitter.at \in {"submitting", "checked"} => submitter.to <= pool
Attended(p) == \A w \in PoolWorkers : worker[p][w] # Gone
QueueIsServed ==
    \A p \in Pools :
        /\ poolState[p] = "running" => p \notin cancelled /\ Attended(p)
        /\ (requestCh[p] # <<>> /\ p \notin cancelled) => Attended(p)
Queued(r, p) == \E i \in DOMAIN requestCh[p] : requestCh[p][i] = r
Carries(p, w, r) == worker[p][w] \in Busy /\ worker[p][w].request = r
RequestsKept ==
    /\ \A p \in Pools, w \in PoolWorkers : worker[p][w] \in Busy =>
         /\ Webhooks \ worker[p][w].left \subseteq handled[worker[p][w].request]
         /\ worker[p][w].at = "sending" => worker[p][w].to \in worker[p][w].left
    /\ \A r \in Requests, p \in Pools : (<<r, p>> \in accepted /\ p \notin cancelled) =>
         handled[r] = Webhooks \/ Queued(r, p) \/ \E w \in PoolWorkers : Carries(p, w, r)

(* Stop and Reload of the exporter come to an end, although a worker may   *)
(* wait for the lock that Stop holds while Stop waits for the worker: the  *)
(* timers break the circle.                                                *)
StopEnds == control # "none" ~> (control = "none" \/ panicked)
=============================================================================
