--------------------------- MODULE LeaseProtocol ---------------------------
(***************************************************************************)
(* Agents that ask the controller for a lease around each remediation      *)
(* attempt: LeaseClient (pkg/remediators/lease_client.go) as the registry  *)
(* uses it (phase 2.5 of RemediatorRegistry.Remediate), composed with      *)
(* LeaseController over HTTP.                                              *)
(*                                                                         *)
(* A request may be served long after its client stopped waiting, or       *)
(* never; an answer counts only while the client waits for that very       *)
(* request.  Agents and the controller crash and restart independently.    *)
(***************************************************************************)
EXTENDS LeaseController

CONSTANTS
    MaxRetries,             \* coordination.maxRetries: total tries
    FallbackOnUnreachable,  \* coordination.fallbackOnUnreachable
    MaxSends                \* bound on lease requests one agent ever sends

ASSUME ProtocolAssumption ==
    /\ MaxRetries \in Nat \ {0}
    /\ FallbackOnUnreachable \in BOOLEAN
    /\ MaxSends \in Nat

VARIABLES
    pc,       \* per agent: "idle", "waiting" for an answer, "running" the
              \* remediation, "releasing" the lease
    attempt,  \* per agent: the loop counter of RequestLease
    sent,     \* per agent: number of POSTs so far; the last is the awaited one
    lease,    \* per agent: leaseID of the registry, NoLease when empty
    posts,    \* POST requests in flight, <<node, number>>
    deletes,  \* DELETE requests in flight, by lease ID
    answer    \* per agent: the response on its way, or NoAnswer

agents == <<pc, attempt, sent, lease, posts, deletes, answer>>
protocolVars == <<vars, agents>>

NoLease  == 0
NoAnswer == [approved |-> FALSE, id |-> -1]

ProtocolTypeOK ==
    /\ TypeOK
    /\ pc \in [Nodes -> {"idle", "waiting", "running", "releasing"}]
    /\ attempt \in [Nodes -> 0 .. MaxRetries]
    /\ sent \in [Nodes -> 0 .. MaxSends]
    /\ lease \in [Nodes -> LeaseIds \cup {NoLease}]
    /\ posts \subseteq Nodes \X (1 .. MaxSends)
    /\ deletes \subseteq LeaseIds
    /\ answer \in [Nodes -> [approved : BOOLEAN, id : Int]]

ProtocolInit ==
    /\ Init
    /\ pc = [n \in Nodes |-> "idle"]
    /\ attempt = [n \in Nodes |-> 0]
    /\ sent = [n \in Nodes |-> 0]
    /\ lease = [n \in Nodes |-> NoLease]
    /\ posts = {}
    /\ deletes = {}
    /\ answer = [n \in Nodes |-> NoAnswer]

----------------------------------------------------------------------------
(* The HTTP client sends one POST and waits for its answer. *)
SendPost(n) ==
    /\ sent' = [sent EXCEPT ![n] = @ + 1]
    /\ posts' = posts \cup {<<n, sent[n] + 1>>}
    /\ answer' = [answer EXCEPT ![n] = NoAnswer]

(* Remediate reaches its lease check and calls RequestLease. *)
RequestLease(n) ==
    /\ pc[n] = "idle"
    /\ sent[n] + MaxRetries <= MaxSends
    /\ pc' = [pc EXCEPT ![n] = "waiting"]
    /\ attempt' = [attempt EXCEPT ![n] = 1]
    /\ SendPost(n)
    /\ UNCHANGED <<vars, lease, deletes>>

MutDeniedProceeds(n) ==
    /\ pc[n] = "waiting"
    /\ answer[n] # NoAnswer
    /\ pc' = [pc EXCEPT ![n] = "running"]
    /\ lease' = [lease EXCEPT ![n] = answer[n].id]
    /\ answer' = [answer EXCEPT ![n] = NoAnswer]
    /\ UNCHANGED <<vars, attempt, sent, posts, deletes>>

MutReleaseAtOnce(n) ==
    /\ pc[n] = "waiting"
    /\ answer[n] # NoAnswer
    /\ pc' = [pc EXCEPT ![n] = IF answer[n].approved THEN "running" ELSE "idle"]
    /\ lease' = [lease EXCEPT ![n] = answer[n].id]
    /\ deletes' = IF answer[n].approved THEN deletes \cup {answer[n].id} ELSE deletes
    /\ answer' = [answer EXCEPT ![n] = NoAnswer]
    /\ UNCHANGED <<vars, attempt, sent, posts>>

(* The answer arrives in time: proceed with the lease, or give up for good *)
(* (429 and 409 are not retried).                                          *)
ReceiveAnswer(n) ==
    /\ pc[n] = "waiting"
    /\ answer[n] # NoAnswer
    /\ pc' = [pc EXCEPT ![n] = IF answer[n].approved THEN "running" ELSE "idle"]
    /\ lease' = [lease EXCEPT ![n] = IF answer[n].approved THEN answer[n].id ELSE NoLease]
    /\ answer' = [answer EXCEPT ![n] = NoAnswer]
    /\ UNCHANGED <<vars, attempt, sent, posts, deletes>>

MutHangsAfterDelete(n) ==
    /\ pc[n] = "releasing"
    /\ lease[n] \notin deletes
    /\ pc' = [pc EXCEPT ![n] = "idle"]
    /\ lease' = [lease EXCEPT ![n] = NoLease]
    /\ UNCHANGED <<vars, attempt, sent, posts, deletes, answer>>

(* The request failed for the client (refused, reset, an error status or   *)
(* requestTimeout) and tries are left: wait retryInterval and send again.  *)
RetryRequest(n) ==
    /\ pc[n] = "waiting"
    /\ attempt[n] < MaxRetries
    /\ attempt' = [attempt EXCEPT ![n] = @ + 1]
    /\ SendPost(n)
    /\ UNCHANGED <<vars, pc, lease, deletes>>

(* No more tries, or the agent's context is cancelled: proceed without a   *)
(* lease or fail, as fallbackOnUnreachable says.  A cancellation during    *)
(* the wait for the next try fails without the fallback.                   *)
GiveUp(n) ==
    /\ pc[n] = "waiting"
    /\ \/ pc' = [pc EXCEPT ![n] = IF FallbackOnUnreachable THEN "running" ELSE "idle"]
       \/ attempt[n] < MaxRetries /\ pc' = [pc EXCEPT ![n] = "idle"]
    /\ lease' = [lease EXCEPT ![n] = NoLease]
    /\ answer' = [answer EXCEPT ![n] = NoAnswer]
    /\ UNCHANGED <<vars, attempt, sent, posts, deletes>>

(* The remediation ends, well or not: the deferred ReleaseLease sends a    *)
(* DELETE when there is a lease to give back.                              *)
FinishRemediation(n) ==
    /\ pc[n] = "running"
    /\ IF lease[n] = NoLease
       THEN /\ pc' = [pc EXCEPT ![n] = "idle"]
            /\ UNCHANGED deletes
       ELSE /\ pc' = [pc EXCEPT ![n] = "releasing"]
            /\ deletes' = deletes \cup {lease[n]}
    /\ UNCHANGED <<vars, attempt, sent, lease, posts, answer>>

(* ReleaseLease returns: answered, timed out or refused, all the same. *)
ReleaseReturns(n) ==
    /\ pc[n] = "releasing"
    /\ pc' = [pc EXCEPT ![n] = "idle"]
    /\ lease' = [lease EXCEPT ![n] = NoLease]
    /\ UNCHANGED <<vars, attempt, sent, posts, deletes, answer>>

(* The agent dies (node-reboot does this on purpose): it forgets its lease.*)
AgentCrash(n) ==
    /\ pc[n] # "idle"
    /\ pc' = [pc EXCEPT ![n] = "idle"]
    /\ lease' = [lease EXCEPT ![n] = NoLease]
    /\ answer' = [answer EXCEPT ![n] = NoAnswer]
    /\ UNCHANGED <<vars, attempt, sent, posts, deletes>>

----------------------------------------------------------------------------
(* The controller serves a POST.  Its answer is of use only if the client  *)
(* still waits for this request.                                           *)
AnswerTo(n, k, a) ==
    answer' = IF pc[n] = "waiting" /\ sent[n] = k
              THEN [answer EXCEPT ![n] = a] ELSE answer

ServePost(n, k) ==
    /\ <<n, k>> \in posts
    /\ posts' = posts \ {<<n, k>>}
    /\ \/ \E d \in LeaseDurations :
            /\ GrantLease(n, d)
            /\ AnswerTo(n, k, [approved |-> TRUE, id |-> Len(issued) + 1])
       \/ /\ DenyLease(n)
          /\ AnswerTo(n, k, [approved |-> FALSE, id |-> NoLease])
    /\ UNCHANGED <<pc, attempt, sent, lease, deletes>>

(* The controller serves a DELETE: 404 for a lease it does not know. *)
ServeDelete(id) ==
    /\ phase = "up"
    /\ id \in deletes
    /\ deletes' = deletes \ {id}
    /\ IF id \in DOMAIN leases THEN ReleaseLease(id) ELSE UNCHANGED vars
    /\ UNCHANGED <<pc, attempt, sent, lease, posts, answer>>

(* Everything the controller does on its own. *)
ControllerStep ==
    /\ \/ Tick \/ CleanupExpiredLeases \/ ExpireLeases \/ Stop \/ Exit \/ Start
       \/ \E id \in LeaseIds : PersistRelease(id)
    /\ UNCHANGED agents

AgentProgress(n) ==
    \/ ReceiveAnswer(n) \/ RetryRequest(n) \/ GiveUp(n)
    \/ FinishRemediation(n) \/ ReleaseReturns(n)

ProtocolNext ==
    \/ ControllerStep
    \/ \E n \in Nodes : RequestLease(n) \/ AgentProgress(n) \/ AgentCrash(n)
    \/ \E p \in posts : ServePost(p[1], p[2])
    \/ \E id \in deletes : ServeDelete(id)

ProtocolSpec == ProtocolInit /\ [][ProtocolNext]_protocolVars

(* Fairness: an agent's own goroutine goes on (its HTTP client times out,  *)
(* its strategies have timeouts).  Nothing is asked of the controller.     *)
FairProtocolSpec ==
    ProtocolSpec /\ \A n \in Nodes : WF_protocolVars(AgentProgress(n))

----------------------------------------------------------------------------
(* An agent that remediates under a lease has the lease to itself: it was  *)
(* granted to this node, and no DELETE, however late, has given it back    *)
(* (the deferred ReleaseLease in Remediate).                               *)
RunningOwnsLease ==
    \A n \in Nodes : (pc[n] = "running" /\ lease[n] # NoLease) =>
        issued[lease[n]].node = n /\ issued[lease[n]].releasedAt = Never

(* Agents that remediate and whose lease has not run out. *)
Coordinated ==
    {n \in Nodes : pc[n] = "running"
                   /\ (lease[n] = NoLease \/ now < issued[lease[n]].expiresAt)}

(* With fallbackOnUnreachable off, at most maxConcurrentRemediations       *)
(* agents remediate within their lease, whatever requests were lost,       *)
(* served late or repeated, and whoever crashed (RequestLease and          *)
(* requestLease together).                                                 *)
CoordinatedBound ==
    ~FallbackOnUnreachable => Cardinality(Coordinated) <= MaxConcurrent

(* Lease id is node n's, not given back, with no DELETE on its way. *)
OwnLease(n, id) ==
    /\ id \in LeaseIds \ deletes
    /\ issued[id].node = n
    /\ issued[id].releasedAt = Never

(* The inductive invariant behind RunningOwnsLease and CoordinatedBound:   *)
(* an approval an agent still waits for is as good as the lease it will    *)
(* remediate under, and only the holder ever sends the DELETE.             *)
LeasesOwned ==
    /\ ProtocolTypeOK
    /\ \A n \in Nodes :
         /\ answer[n] # NoAnswer => pc[n] = "waiting"
         /\ answer[n].approved => OwnLease(n, answer[n].id)
         /\ pc[n] \in {"idle", "waiting"} => lease[n] = NoLease
         /\ pc[n] = "waiting" => sent[n] + MaxRetries <= MaxSends + attempt[n]
         /\ pc[n] = "running" /\ lease[n] # NoLease => OwnLease(n, lease[n])
         /\ pc[n] = "running" /\ lease[n] = NoLease => FallbackOnUnreachable

(* A remediation attempt never hangs on the controller: it comes to an end *)
(* even if nothing is ever answered (the bounded loop of RequestLease and  *)
(* the best-effort ReleaseLease).                                          *)
AttemptsEnd == \A n \in Nodes : (pc[n] # "idle") ~> (pc[n] = "idle")
=============================================================================
