------------------------ MODULE LeaseProtocol_proofs ------------------------
(* Proofs about agents and controller together, for every number of nodes  *)
(* and tries, over lost, late and repeated messages and crashes on both    *)
(* sides.                                                                  *)
EXTENDS LeaseProtocol, LeaseController_proofs

(* Whatever an agent or the network does, the controller takes one of its  *)
(* own steps or none, so what is proved of it alone holds of it here.      *)
LEMMA ProtocolRefinesController ==
    ASSUME ProtocolTypeOK, [ProtocolNext]_protocolVars
    PROVE  [Next]_vars
<1>1. CASE ControllerStep
  BY <1>1 DEF ControllerStep, Next
<1>2. ASSUME NEW n \in Nodes, RequestLease(n) \/ AgentProgress(n) \/ AgentCrash(n)
      PROVE  UNCHANGED vars
  BY <1>2 DEF RequestLease, AgentProgress, ReceiveAnswer, RetryRequest, GiveUp,
              FinishRemediation, ReleaseReturns, AgentCrash, vars
<1>3. ASSUME NEW p \in posts, ServePost(p[1], p[2])
      PROVE  Next
  <2>1. p[1] \in Nodes
    BY <1>3 DEF ProtocolTypeOK
  <2> QED
    BY <1>3, <2>1 DEF ServePost, Next
<1>4. ASSUME NEW id \in deletes, ServeDelete(id)
      PROVE  [Next]_vars
  BY <1>4 DEF ServeDelete, Next, ProtocolTypeOK
<1>5. CASE UNCHANGED protocolVars
  BY <1>5 DEF protocolVars
<1> QED
  BY <1>1, <1>2, <1>3, <1>4, <1>5 DEF ProtocolNext

(* Only a release changes what was issued, and only of its own lease.      *)
LEMMA IssuedKept ==
    ASSUME TypeOK, NEW x,
           \/ issued' = issued
           \/ x \in LeaseIds /\ ReleaseLease(x)
           \/ \E n \in Nodes, d \in LeaseDurations : GrantLease(n, d)
    PROVE  \A id \in LeaseIds : id \in LeaseIds' /\ (id # x => issued'[id] = issued[id])
<1>1. Len(issued) \in Nat /\ now \in Nat /\ \A i \in LeaseIds : issued[i] \in Issued
  BY LenProperties, ElementOfSeq DEF TypeOK, LeaseIds
<1>2. CASE issued' = issued
  BY <1>2 DEF LeaseIds
<1>3. CASE x \in LeaseIds /\ ReleaseLease(x)
  <2> DEFINE e == [issued[x] EXCEPT !.releasedAt = IF @ = Never THEN now ELSE @]
  <2>1. issued' = [issued EXCEPT ![x] = e] /\ e \in Issued
    BY <1>1, <1>3 DEF ReleaseLease, Issued
  <2> HIDE DEF e
  <2> QED
    BY <1>3, <2>1, ExceptSeq DEF TypeOK, LeaseIds
<1>4. ASSUME NEW n \in Nodes, NEW d \in LeaseDurations, GrantLease(n, d)
      PROVE  \A id \in LeaseIds : id \in LeaseIds' /\ issued'[id] = issued[id]
  <2> DEFINE e == [node |-> n, expiresAt |-> now + d, releasedAt |-> Never]
  <2>1. issued' = Append(issued, e) /\ e \in Issued
    BY <1>1, <1>4, LeaseAssumption DEF GrantLease, Issued
  <2> HIDE DEF e
  <2> QED
    BY <1>1, <2>1, AppendProperties DEF TypeOK, LeaseIds
<1> QED
  BY <1>2, <1>3, <1>4

(* While no DELETE is on its way for a lease, no step of the system        *)
(* touches what the history says of it.                                    *)
LEMMA OwnLeasesKept ==
    ASSUME ProtocolTypeOK, ProtocolNext
    PROVE  /\ LeaseIds \subseteq LeaseIds'
           /\ \A id \in LeaseIds \ deletes : issued'[id] = issued[id]
<1> DEFINE Kept == /\ LeaseIds \subseteq LeaseIds'
                   /\ \A id \in LeaseIds \ deletes : issued'[id] = issued[id]
<1> USE DEF ProtocolTypeOK
<1>1. ASSUME issued' = issued
      PROVE  Kept
  BY <1>1, IssuedKept
<1>2. ASSUME NEW x \in deletes, ServeDelete(x)
      PROVE  Kept
  <2>1. CASE ReleaseLease(x)
    BY <2>1, IssuedKept
  <2>2. CASE UNCHANGED vars
    BY <1>1, <2>2 DEF vars
  <2> QED
    BY <1>2, <2>1, <2>2 DEF ServeDelete
<1>3. ASSUME NEW p \in posts, ServePost(p[1], p[2])
      PROVE  Kept
  <2>1. p[1] \in Nodes
    OBVIOUS
  <2>2. CASE DenyLease(p[1])
    BY <1>1, <2>2 DEF DenyLease, vars
  <2>3. ASSUME NEW d \in LeaseDurations, GrantLease(p[1], d)
        PROVE  Kept
    <3>1. \A id \in LeaseIds : id \in LeaseIds' /\ (id # 0 => issued'[id] = issued[id])
      BY <2>1, <2>3, IssuedKept
    <3> QED
      BY <3>1 DEF LeaseIds
  <2> QED
    BY <1>3, <2>2, <2>3 DEF ServePost
<1>4. ASSUME ControllerStep
      PROVE  Kept
  BY <1>1, <1>4 DEF ControllerStep, Tick, CleanupExpiredLeases, ExpireLeases, Stop, Exit,
                    Start, PersistRelease
<1>5. ASSUME NEW n \in Nodes, RequestLease(n) \/ AgentProgress(n) \/ AgentCrash(n)
      PROVE  issued' = issued
  BY <1>5 DEF RequestLease, AgentProgress, ReceiveAnswer, RetryRequest, GiveUp,
              FinishRemediation, ReleaseReturns, AgentCrash, vars
<1> QED
  BY <1>1, <1>2, <1>3, <1>4, <1>5 DEF ProtocolNext

(* Agents lose a lease only by giving it back, dying or going on without.  *)
LEMMA LeasesOwnedStep ==
    ASSUME LeasesOwned, [ProtocolNext]_protocolVars
    PROVE  LeasesOwned'
<1> USE ProtocolAssumption
<1>1. ProtocolTypeOK
  BY DEF LeasesOwned
<1>2. TypeOK'
  BY <1>1, ProtocolRefinesController, TypeStep DEF ProtocolTypeOK
<1>3. NoAnswer.approved = FALSE /\ NoAnswer \in [approved : BOOLEAN, id : Int]
  BY DEF NoAnswer
<1>4. CASE UNCHANGED protocolVars
  BY <1>2, <1>4 DEF protocolVars, agents, vars, LeasesOwned, ProtocolTypeOK, OwnLease,
                    LeaseIds, TypeOK
<1> SUFFICES ASSUME ProtocolNext
             PROVE  LeasesOwned'
  BY <1>4
<1>5. /\ LeaseIds \subseteq LeaseIds'
      /\ \A id \in LeaseIds \ deletes : issued'[id] = issued[id]
  BY <1>1, OwnLeasesKept
<1>6. \A n, id : OwnLease(n, id) /\ id \notin deletes' => OwnLease(n, id)'
  BY <1>5 DEF OwnLease
<1>7. \A id \in LeaseIds : id # NoLease
  BY DEF LeaseIds, NoLease
<1>8. CASE ControllerStep
  <2>1. UNCHANGED agents
    BY <1>8 DEF ControllerStep
  <2>2. \A n, id : OwnLease(n, id) => OwnLease(n, id)'
    BY <1>6, <2>1 DEF agents, OwnLease
  <2> QED
    BY <1>2, <1>5, <2>1, <2>2 DEF agents, LeasesOwned, ProtocolTypeOK
<1>9. ASSUME NEW n \in Nodes, RequestLease(n)
      PROVE  LeasesOwned'
  <2>1. sent[n] + 1 \in 1 .. MaxSends /\ 1 \in 0 .. MaxRetries
    BY <1>1, <1>9 DEF RequestLease, ProtocolTypeOK
  <2>2. ProtocolTypeOK'
    <3>1. posts' \subseteq Nodes \X (1 .. MaxSends)
      BY <1>1, <1>9, <2>1 DEF RequestLease, SendPost, ProtocolTypeOK
    <3>2. sent' \in [Nodes -> 0 .. MaxSends]
      BY <1>1, <1>9, <2>1 DEF RequestLease, SendPost, ProtocolTypeOK
    <3>3. /\ pc' \in [Nodes -> {"idle", "waiting", "running", "releasing"}]
          /\ attempt' \in [Nodes -> 0 .. MaxRetries]
      BY <1>1, <1>9, <2>1 DEF RequestLease, ProtocolTypeOK
    <3>4. answer' \in [Nodes -> [approved : BOOLEAN, id : Int]]
      BY <1>1, <1>3, <1>9 DEF RequestLease, SendPost, ProtocolTypeOK
    <3>5. UNCHANGED <<lease, deletes>>
      BY <1>9 DEF RequestLease
    <3> QED
      BY <1>1, <1>2, <1>5, <3>1, <3>2, <3>3, <3>4, <3>5 DEF ProtocolTypeOK
  <2> QED
    BY <1>3, <1>6, <1>9, <2>2
       DEF RequestLease, SendPost, LeasesOwned, ProtocolTypeOK, OwnLease
<1>10. ASSUME NEW n \in Nodes, ReceiveAnswer(n)
       PROVE  LeasesOwned'
  BY <1>2, <1>3, <1>5, <1>6, <1>7, <1>10
     DEF ReceiveAnswer, LeasesOwned, ProtocolTypeOK, OwnLease
<1>11. ASSUME NEW n \in Nodes, RetryRequest(n)
       PROVE  LeasesOwned'
  <2>1. /\ sent[n] + 1 \in 1 .. MaxSends /\ attempt[n] + 1 \in 0 .. MaxRetries
        /\ sent[n] + 1 + MaxRetries <= MaxSends + (attempt[n] + 1)
    BY <1>1, <1>11 DEF RetryRequest, LeasesOwned, ProtocolTypeOK
  <2>2. /\ pc[n] = "waiting"
        /\ answer' = [answer EXCEPT ![n] = NoAnswer]
        /\ sent' = [sent EXCEPT ![n] = sent[n] + 1]
        /\ attempt' = [attempt EXCEPT ![n] = attempt[n] + 1]
        /\ posts' = posts \cup {<<n, sent[n] + 1>>}
        /\ UNCHANGED <<pc, lease, deletes>>
    BY <1>11 DEF RetryRequest, SendPost
  <2>3. ProtocolTypeOK'
    <3>1. posts' \subseteq Nodes \X (1 .. MaxSends)
      BY <1>1, <2>1, <2>2 DEF ProtocolTypeOK
    <3>2. /\ sent' \in [Nodes -> 0 .. MaxSends]
          /\ attempt' \in [Nodes -> 0 .. MaxRetries]
      BY <1>1, <2>1, <2>2 DEF ProtocolTypeOK
    <3>3. answer' \in [Nodes -> [approved : BOOLEAN, id : Int]]
      BY <1>1, <1>3, <2>2 DEF ProtocolTypeOK
    <3> QED
      BY <1>1, <1>2, <1>5, <2>2, <3>1, <3>2, <3>3 DEF ProtocolTypeOK
  <2> QED
    <3>1. /\ answer'[n] = NoAnswer /\ pc'[n] = "waiting" /\ lease'[n] = NoLease
          /\ sent'[n] + MaxRetries <= MaxSends + attempt'[n]
      BY <1>1, <2>1, <2>2 DEF LeasesOwned, ProtocolTypeOK
    <3>2. \A m \in Nodes \ {n} : /\ answer'[m] = answer[m] /\ pc'[m] = pc[m]
                               /\ lease'[m] = lease[m]
                               /\ sent'[m] = sent[m] /\ attempt'[m] = attempt[m]
      BY <1>1, <2>2 DEF ProtocolTypeOK
    <3>3. \A m, id : OwnLease(m, id) => OwnLease(m, id)'
      BY <1>6, <2>2 DEF OwnLease
    <3> QED
      BY <1>3, <2>3, <3>1, <3>2, <3>3 DEF LeasesOwned
<1>12. ASSUME NEW n \in Nodes, GiveUp(n)
       PROVE  LeasesOwned'
  <2>1. ProtocolTypeOK'
    BY <1>1, <1>2, <1>3, <1>5, <1>12 DEF GiveUp, ProtocolTypeOK
  <2>2. /\ answer'[n] = NoAnswer /\ lease'[n] = NoLease
        /\ pc'[n] = "idle" \/ (pc'[n] = "running" /\ FallbackOnUnreachable)
    BY <1>1, <1>12 DEF GiveUp, ProtocolTypeOK
  <2>3. /\ \A m \in Nodes \ {n} : answer'[m] = answer[m] /\ pc'[m] = pc[m]
                                 /\ lease'[m] = lease[m]
        /\ UNCHANGED <<sent, attempt, deletes>>
    BY <1>1, <1>12 DEF GiveUp, ProtocolTypeOK
  <2>4. \A m, id : OwnLease(m, id) => OwnLease(m, id)'
    BY <1>6, <2>3 DEF OwnLease
  <2> QED
    BY <1>3, <2>1, <2>2, <2>3, <2>4 DEF LeasesOwned
<1>13. ASSUME NEW n \in Nodes, FinishRemediation(n)
       PROVE  LeasesOwned'
  <2>1. \A m, id : m # n /\ OwnLease(m, id) => OwnLease(m, id)'
    BY <1>6, <1>13 DEF FinishRemediation, OwnLease, LeasesOwned
  <2> QED
    BY <1>2, <1>3, <1>5, <1>13, <2>1
       DEF FinishRemediation, LeasesOwned, ProtocolTypeOK, OwnLease
<1>14. ASSUME NEW n \in Nodes, ReleaseReturns(n)
       PROVE  LeasesOwned'
  BY <1>2, <1>5, <1>6, <1>14 DEF ReleaseReturns, LeasesOwned, ProtocolTypeOK, OwnLease
<1>15. ASSUME NEW n \in Nodes, AgentCrash(n)
       PROVE  LeasesOwned'
  BY <1>2, <1>3, <1>5, <1>6, <1>15 DEF AgentCrash, LeasesOwned, ProtocolTypeOK, OwnLease
<1>16. ASSUME NEW p \in posts, ServePost(p[1], p[2])
       PROVE  LeasesOwned'
  <2>1. p[1] \in Nodes /\ UNCHANGED <<pc, attempt, sent, lease, deletes>> /\ posts' \subseteq posts
    BY <1>1, <1>16 DEF ServePost, ProtocolTypeOK
  <2>2. ASSUME NEW a \in [approved : BOOLEAN, id : Int], AnswerTo(p[1], p[2], a),
               a.approved => OwnLease(p[1], a.id)'
        PROVE  LeasesOwned'
    <3>1. ProtocolTypeOK'
      BY <1>1, <1>2, <1>5, <2>1, <2>2 DEF AnswerTo, ProtocolTypeOK
    <3>2. \A n \in Nodes : \/ answer'[n] = answer[n]
                           \/ n = p[1] /\ answer'[n] = a /\ pc[n] = "waiting"
      BY <1>1, <2>2 DEF AnswerTo, ProtocolTypeOK
    <3> QED
      BY <1>6, <2>1, <2>2, <3>1, <3>2 DEF LeasesOwned, OwnLease
  <2>3. CASE DenyLease(p[1]) /\ AnswerTo(p[1], p[2], [approved |-> FALSE, id |-> NoLease])
    <3>1. [approved |-> FALSE, id |-> NoLease] \in [approved : BOOLEAN, id : Int]
      BY DEF NoLease
    <3> QED
      BY <2>2, <2>3, <3>1
  <2>4. ASSUME NEW d \in LeaseDurations, GrantLease(p[1], d),
               AnswerTo(p[1], p[2], [approved |-> TRUE, id |-> Len(issued) + 1])
        PROVE  LeasesOwned'
    <3> DEFINE e == [node |-> p[1], expiresAt |-> now + d, releasedAt |-> Never]
    <3>1. Len(issued) \in Nat /\ now \in Nat /\ issued \in Seq(Issued)
      BY <1>1, LenProperties DEF ProtocolTypeOK, TypeOK
    <3>2. issued' = Append(issued, e) /\ e \in Issued
      BY <2>1, <2>4, <3>1, LeaseAssumption DEF GrantLease, Issued, Never
    <3>3. e.node = p[1] /\ e.releasedAt = Never
      OBVIOUS
    <3>4. Len(issued') = Len(issued) + 1 /\ issued'[Len(issued) + 1] = e
      <4> HIDE DEF e
      <4> QED BY <3>1, <3>2, AppendProperties
    <3>5. PICK a : a = [approved |-> TRUE, id |-> Len(issued) + 1]
      OBVIOUS
    <3>6. a \in [approved : BOOLEAN, id : Int] /\ a.id = Len(issued) + 1
      BY <3>1, <3>5
    <3>7. OwnLease(p[1], a.id)'
      <4> HIDE DEF e
      <4> QED BY <1>1, <2>1, <3>1, <3>3, <3>4, <3>6 DEF OwnLease, LeaseIds, ProtocolTypeOK
    <3> QED
      BY <2>2, <2>4, <3>5, <3>6, <3>7
  <2> QED
    BY <1>16, <2>3, <2>4 DEF ServePost
<1>17. ASSUME NEW id \in deletes, ServeDelete(id)
       PROVE  LeasesOwned'
  <2>1. \A m, i : OwnLease(m, i) => OwnLease(m, i)'
    BY <1>6, <1>17 DEF ServeDelete, OwnLease
  <2> QED
    BY <1>2, <1>5, <1>17, <2>1 DEF ServeDelete, LeasesOwned, ProtocolTypeOK
<1> QED
  BY <1>8, <1>9, <1>10, <1>11, <1>12, <1>13, <1>14, <1>15, <1>16, <1>17
     DEF ProtocolNext, AgentProgress

(* Nobody has asked for a lease at first. *)
LEMMA NobodyAsksAtFirst ==
    ASSUME ProtocolInit
    PROVE  LeasesOwned
<1>1. TypeOK
  BY NobodyHoldsAtFirst DEF ProtocolInit, HoldersKnown
<1> QED
  BY <1>1, ProtocolAssumption
     DEF ProtocolInit, LeasesOwned, ProtocolTypeOK, NoLease, NoAnswer

(* An agent that remediates under a lease has it to itself, whatever       *)
(* requests and answers were lost, late or repeated and whoever crashed;   *)
(* nothing is asked of the storage (RequestLease, the deferred             *)
(* ReleaseLease in Remediate, requestLease and releaseLease).              *)
THEOREM LeaseOwnership == ProtocolSpec => []RunningOwnsLease
<1>1. ProtocolInit => LeasesOwned
  BY NobodyAsksAtFirst
<1>2. LeasesOwned /\ [ProtocolNext]_protocolVars => LeasesOwned'
  BY LeasesOwnedStep
<1>3. LeasesOwned => RunningOwnsLease
  BY DEF LeasesOwned, OwnLease, RunningOwnsLease
<1> QED
  BY <1>1, <1>2, <1>3, PTL DEF ProtocolSpec

----------------------------------------------------------------------------
(* Agents that remediate within their lease have a held lease each.        *)
LEMMA CoordinatedHold ==
    ASSUME LeasesOwned, HoldersKnown
    PROVE  CoordinatedBound
<1> SUFFICES ASSUME ~FallbackOnUnreachable
             PROVE  Cardinality(Coordinated) <= MaxConcurrent
  BY DEF CoordinatedBound
<1> DEFINE f == [n \in Coordinated |-> lease[n]]
<1>1. \A n \in Coordinated : OwnLease(n, lease[n]) /\ now < issued[lease[n]].expiresAt
  BY DEF Coordinated, LeasesOwned
<1>2. f \in Injection(Coordinated, Holders)
  BY <1>1 DEF Injection, IsInjective, OwnLease, Holders, Held
<1>3. IsFiniteSet(Coordinated) /\ IsFiniteSet(Holders)
  BY LeaseAssumption, FS_Subset, FiniteLeaseSets DEF Coordinated, HoldersKnown
<1>4. Cardinality(Coordinated) <= Cardinality(Holders)
  <2> HIDE DEF f
  <2> QED BY <1>2, <1>3, FS_Injection
<1> QED
  BY <1>3, <1>4, FS_CardinalityType, LeaseAssumption DEF HoldersKnown, ConcurrencyBound

(* With fallbackOnUnreachable off and reliable storage, at most            *)
(* maxConcurrentRemediations agents remediate within their lease, over     *)
(* lost, late and repeated messages and crashes of agents and controller   *)
(* (RequestLease and requestLease together).                               *)
THEOREM CoordinatedSafety ==
    ASSUME ReliableStorage
    PROVE  ProtocolSpec => []CoordinatedBound
<1>1. ProtocolInit => LeasesOwned /\ HoldersKnown
  BY NobodyAsksAtFirst, NobodyHoldsAtFirst DEF ProtocolInit
<1>2. LeasesOwned /\ HoldersKnown /\ [ProtocolNext]_protocolVars
        => LeasesOwned' /\ HoldersKnown'
  <2> SUFFICES ASSUME LeasesOwned, HoldersKnown, [ProtocolNext]_protocolVars
               PROVE  LeasesOwned' /\ HoldersKnown'
    OBVIOUS
  <2>1. [Next]_vars /\ TypeOK
    BY ProtocolRefinesController DEF LeasesOwned, ProtocolTypeOK
  <2> QED
    BY <2>1, LeasesOwnedStep, HoldersKnownStep, TypeStep
<1>3. LeasesOwned /\ HoldersKnown => CoordinatedBound
  BY CoordinatedHold
<1> QED
  BY <1>1, <1>2, <1>3, PTL DEF ProtocolSpec

(* The whole system is a lease service: what the agents and the network do *)
(* never makes the controller grant otherwise than it does alone           *)
(* (requestLease and releaseLease behind handleLeases).                    *)
THEOREM ProtocolImplementsService ==
    ASSUME ReliableStorage
    PROVE  ProtocolSpec => ImplementsService
<1>1. ProtocolInit => LeasesOwned /\ Init
  BY NobodyAsksAtFirst DEF ProtocolInit
<1>2. LeasesOwned /\ [ProtocolNext]_protocolVars => LeasesOwned' /\ [Next]_vars
  BY LeasesOwnedStep, ProtocolRefinesController DEF LeasesOwned
<1>3. ProtocolSpec => Spec
  BY <1>1, <1>2, PTL DEF ProtocolSpec, Spec
<1> QED
  BY <1>3, ServiceImplemented
=============================================================================
