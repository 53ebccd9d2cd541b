------------------------- MODULE Remediation_proofs -------------------------
(* Proofs about the way from a status to a command on the node: the        *)
(* strategies, the gatekeeper that runs them and the dispatch policy that  *)
(* calls it, for every set of pods, strategies, callers, monitors,         *)
(* configurations and policies.                                            *)
EXTENDS StatusPipeline, RemediationStrategies, RemediatorRegistry, Filtering_proofs

----------------------------------------------------------------------------
(* The strategies. *)

(* The first step of an attempt: it fails, succeeds in dry run (or because *)
(* the pod is gone) or goes on with the strategy's own first command.      *)
LEMMA StartSound ==
    ASSUME AttemptSound, step = "start", Start
    PROVE  AttemptSound'
<1> USE DEF AttemptSound, StepsBelong, SuccessMeansDone, DrainUnderWay, SameNode, nodeVars
<1>1. ASSUME Finish("failure"), SameNode
      PROVE  AttemptSound'
  BY <1>1 DEF Finish
<1>2. ASSUME Finish("success"), SameNode, copiedDry \/ job.strategy = "pod-delete"
      PROVE  AttemptSound'
  <2>1. CASE copiedDry
    BY <1>2, <2>1 DEF Finish
  <2>2. CASE job.strategy = "pod-delete"
    <3>1. job' = job /\ job'.strategy = "pod-delete"
      BY <1>2, <2>2 DEF Finish
    <3>2. SuccessMeansDone'
      BY <3>1 DEF SuccessMeansDone
    <3> QED
      BY <1>2, <2>2, <3>2 DEF Finish
  <2> QED
    BY <1>2, <2>1, <2>2
<1>3. CASE job.strategy = "systemd-restart"
  BY <1>1, <1>2, <1>3 DEF Start, StartSystemd, Continue
<1>4. CASE job.strategy = "custom-script"
  BY <1>1, <1>2, <1>4 DEF Start, StartScript, Continue
<1>5. CASE job.strategy = "flush-dns"
  BY <1>1, <1>2, <1>5 DEF Start, StartNetwork, Continue
<1>6. CASE job.strategy = "restart-interface"
  BY <1>1, <1>2, <1>6 DEF Start, StartNetwork, Continue
<1>7. CASE job.strategy \in {"reset-routing", "flush-ipv6-route"}
  BY <1>1, <1>2, <1>7 DEF Start, StartNetwork, Continue
<1>8. CASE job.strategy = "node-reboot"
  BY <1>1, <1>2, <1>8 DEF Start, StartReboot, Continue
<1>9. CASE job.strategy = "pod-delete"
  BY <1>1, <1>2, <1>9 DEF Start, StartPodDelete, Continue
<1> QED
  BY <1>3, <1>4, <1>5, <1>6, <1>7, <1>8, <1>9 DEF StrategyNames

(* Whatever a command does and however it ends, and whatever happens to    *)
(* the node and the configuration between two commands.                    *)
LEMMA AttemptSoundStep ==
    ASSUME AttemptSound, [StrategiesNext]_strategyVars
    PROVE  AttemptSound'
<1> USE DEF AttemptSound, StepsBelong, SuccessMeansDone, DrainUnderWay, nodeVars
<1>1. ASSUME NEW s \in StrategyNames, NEW e \in BOOLEAN, NEW t \in Targets(s),
             Attempt(s, t, e)
      PROVE  AttemptSound'
  BY <1>1 DEF Attempt
<1>2. CASE step = "start" /\ ~cancelled /\ Start
  BY <1>2, StartSound
<1>3. CASE EndEarly
  BY <1>3 DEF EndEarly, Finish, SameNode
<1>4. CASE RestartService
  BY <1>4 DEF RestartService, Finish
<1>5. CASE RunScript
  BY <1>5 DEF RunScript, Finish
<1>6. CASE FlushDNS
  BY <1>6 DEF FlushDNS, Finish, Continue
<1>7. CASE FlushRoutes
  BY <1>7 DEF FlushRoutes, Finish
<1>8. CASE RestartInterface
  BY <1>8 DEF RestartInterface, Finish, Continue
<1>9. CASE Cordon
  BY <1>9 DEF Cordon, Finish, Continue
<1>10. CASE ListNodePods
  BY <1>10 DEF ListNodePods, Continue
<1>11. CASE Reboot
  BY <1>11 DEF Reboot, Finish
<1>12. CASE DeletePod
  BY <1>12 DEF DeletePod, Finish
<1>13. ASSUME NEW p \in Pods, EvictPod(p)
       PROVE  AttemptSound'
  BY <1>13 DEF EvictPod, Continue
<1>14. CASE Cancel
  BY <1>14 DEF Cancel
<1>15. CASE ReloadDryRun
  BY <1>15 DEF ReloadDryRun
<1>16. ASSUME NEW p \in Pods, SchedulePod(p)
       PROVE  AttemptSound'
  BY <1>16 DEF SchedulePod, ShouldSkipPod
<1>17. CASE UNCHANGED strategyVars
  BY <1>17 DEF strategyVars
<1> QED
  BY <1>1, <1>2, <1>3, <1>4, <1>5, <1>6, <1>7, <1>8, <1>9, <1>10, <1>11, <1>12, <1>13,
     <1>14, <1>15, <1>16, <1>17 DEF StrategiesNext, Commands

(* No attempt is under way at first. *)
LEMMA NoAttemptAtFirst ==
    ASSUME StrategiesInit
    PROVE  AttemptSound
  BY DEF StrategiesInit, AttemptSound, StepsBelong, SuccessMeansDone, DrainUnderWay, NoJob

(* A success that was no dry run means that the action took place, for     *)
(* every set of pods and every order of failing commands, cancellations,   *)
(* reloads and arriving pods (the remediate functions of the strategies).  *)
THEOREM SuccessIsDone == StrategiesSpec => []SuccessMeansDone
<1>1. AttemptSound => SuccessMeansDone
  BY DEF AttemptSound
<1> QED
  BY <1>1, NoAttemptAtFirst, AttemptSoundStep, PTL DEF StrategiesSpec

(* When the node is told to reboot, every pod on it that is to be drained  *)
(* has been asked to leave, if the pods could be listed at all             *)
(* (NodeRebootRemediator: cordon, drain, reboot).                          *)
THEOREM RebootDrains == StrategiesSpec => []RebootAsksEveryPod
<1>1. AttemptSound => RebootAsksEveryPod
  <2> SUFFICES ASSUME AttemptSound, {"rebooted", "listed"} \subseteq done, step = "idle",
                      NEW p \in pods
               PROVE  ShouldSkipPod(p) \/ p \in done
    BY DEF RebootAsksEveryPod
  <2>1. "rebooted" \in done /\ "listed" \in done /\ toEvict = {}
    BY DEF AttemptSound, DrainUnderWay
  <2>2. job.strategy = "node-reboot"
    BY <2>1 DEF AttemptSound, DrainUnderWay
  <2> QED
    BY <2>1, <2>2 DEF AttemptSound, DrainUnderWay
<1> QED
  BY <1>1, NoAttemptAtFirst, AttemptSoundStep, PTL DEF StrategiesSpec

----------------------------------------------------------------------------
(* Finite sets of numbers and sequences, as the policy uses them.          *)

(* A finite set of natural numbers that is not empty has a largest member. *)
LEMMA FiniteSetHasMax ==
    ASSUME NEW S \in SUBSET Nat, IsFiniteSet(S), S # {}
    PROVE  Max(S) \in S /\ \A x \in S : Max(S) >= x
<1> DEFINE HasMax(U) == \E m \in U : \A x \in U : m >= x
           T == {U \in FiniteSubsetsOf(S) : U # {} /\ ~HasMax(U)}
<1>1. SUFFICES HasMax(S)
  BY DEF Max
<1>2. SUFFICES ASSUME ~HasMax(S)
               PROVE  FALSE
  OBVIOUS
<1>3. S \in T
  BY <1>2 DEF FiniteSubsetsOf
<1>4. PICK U \in T : \A V \in T : ~(<<V, U>> \in StrictSubsetOrdering(S))
  <2> HIDE DEF T
  <2>1. T \subseteq FiniteSubsetsOf(S) /\ T # {}
    BY <1>3 DEF T
  <2> QED
    BY <2>1, FS_StrictSubsetOrderingWellFounded, WFMin
<1>5. PICK u \in U : TRUE
  OBVIOUS
<1>6. U \subseteq Nat /\ IsFiniteSet(U) /\ U \subseteq S
  BY DEF FiniteSubsetsOf
<1> DEFINE V == U \ {u}
<1>7. <<V, U>> \in StrictSubsetOrdering(S)
  BY <1>5, <1>6 DEF StrictSubsetOrdering
<1>8. V \in FiniteSubsetsOf(S)
  BY <1>6, FS_RemoveElement DEF FiniteSubsetsOf
<1>9. V = {} \/ HasMax(V)
  BY <1>4, <1>7, <1>8
<1>10. CASE V = {}
  <2>1. U = {u}
    BY <1>5, <1>10
  <2> QED
    BY <1>5, <1>6, <2>1
<1>11. CASE HasMax(V)
  <2>1. PICK m \in V : \A x \in V : m >= x
    BY <1>11
  <2>2. \A x \in U : x = u \/ x \in V
    OBVIOUS
  <2>3. HasMax(U)
    BY <1>5, <1>6, <2>1, <2>2
  <2> QED
    BY <2>3
<1> QED
  BY <1>9, <1>10, <1>11

(* A sequence of at most one element. *)
LEMMA ShortSeq ==
    ASSUME NEW S
    PROVE  /\ \A q \in Seq(S) : Len(q) <= 1 => q \in {<<>>} \cup {<<s>> : s \in S}
           /\ \A s \in S : <<s>> \in Seq(S) /\ Len(<<s>>) = 1 /\ <<s>>[1] = s /\ <<s>> # <<>>
<1>1. \A s \in S : <<s>> \in Seq(S) /\ Len(<<s>>) = 1 /\ <<s>>[1] = s /\ <<s>> # <<>>
  OBVIOUS
<1>2. ASSUME NEW q \in Seq(S), Len(q) <= 1, q # <<>>
      PROVE  q \in {<<s>> : s \in S}
  <2>1. Len(q) = 1 /\ q[1] \in S
    <3>1. Len(q) \in Nat \ {0}
      BY <1>2, EmptySeq
    <3>2. Len(q) = 1
      BY <1>2, <3>1
    <3> QED
      BY <3>2, ElementOfSeq
  <2>2. q = <<q[1]>>
    BY <1>1, <2>1, SeqEqual
  <2> QED
    BY <2>1, <2>2
<1> QED
  BY <1>1, <1>2

(* A function on an initial segment of the numbers is a sequence. *)
LEMMA FunctionIsSeq ==
    ASSUME NEW S, NEW n \in Nat, NEW f \in [1 .. n -> S]
    PROVE  f \in Seq(S) /\ Len(f) = n
  BY SeqDef

(* The limits at which ages stop growing are numbers. *)
LEMMA AgeLimits ==
    /\ OldestAge \in Nat
    /\ Monitors # {} => LongestCooldown \in Nat
<1> USE PipelineAssumption DEF PolicyRecord
<1>1. \A T \in SUBSET Monitors : \A f \in [T -> Nat] :
         LET S == {f[m] : m \in T} IN S \in SUBSET Nat /\ IsFiniteSet(S)
  <2> SUFFICES ASSUME NEW T \in SUBSET Monitors, NEW f \in [T -> Nat]
               PROVE  {f[m] : m \in T} \in SUBSET Nat /\ IsFiniteSet({f[m] : m \in T})
    OBVIOUS
  <2>1. f \in Surjection(T, {f[m] : m \in T})
    BY DEF Surjection
  <2> QED
    BY <2>1, FS_Subset, FS_Surjection
<1>2. OldestAge \in Nat
  <2> DEFINE T == {k \in Monitors : Policy[k].requires # NoMonitor}
             f == [m \in T |-> Policy[m].maxAge + 1]
             S == {f[m] : m \in T}
  <2>1. f \in [T -> Nat] /\ T \in SUBSET Monitors
    OBVIOUS
  <2>2. S \in SUBSET Nat /\ IsFiniteSet(S)
    <3> HIDE DEF T, f
    <3> QED BY <1>1, <2>1
  <2>3. {Policy[m].maxAge + 1 : m \in T} = S
    OBVIOUS
  <2>4. {0} \cup S \in SUBSET Nat /\ IsFiniteSet({0} \cup S) /\ {0} \cup S # {}
    <3> HIDE DEF S
    <3>1. {0} \cup S = S \cup {0}
      OBVIOUS
    <3> QED BY <2>2, <3>1, FS_AddElement
  <2>5. OldestAge = Max({0} \cup S)
    BY <2>3 DEF OldestAge
  <2> HIDE DEF S
  <2> QED
    BY <2>4, <2>5, FiniteSetHasMax
<1>3. ASSUME Monitors # {}
      PROVE  LongestCooldown \in Nat
  <2> DEFINE f == [m \in Monitors |-> Policy[m].cooldown]
             S == {f[m] : m \in Monitors}
  <2>1. f \in [Monitors -> Nat]
    OBVIOUS
  <2>2. S \in SUBSET Nat /\ IsFiniteSet(S) /\ S # {}
    <3> HIDE DEF f
    <3> QED BY <1>1, <1>3, <2>1
  <2>3. LongestCooldown = Max(S)
    BY ZenonT(30) DEF LongestCooldown
  <2> HIDE DEF S
  <2> QED
    BY <2>2, <2>3, FiniteSetHasMax
<1> QED
  BY <1>2, <1>3

(* What growing older leaves as it is. *)
LEMMA OlderKeeps ==
    ASSUME NEW q \in Seq(Status)
    PROVE  /\ Older(q) \in Seq(Status) /\ Len(Older(q)) = Len(q)
           /\ \A i \in 1 .. Len(q) : /\ Older(q)[i].source = q[i].source
                                   /\ Older(q)[i].cond = q[i].cond
                                   /\ Older(q)[i].episode = q[i].episode
<1>1. /\ Len(q) \in Nat /\ DOMAIN q = 1 .. Len(q)
      /\ \A i \in 1 .. Len(q) : q[i] \in Status
  BY LenProperties, ElementOfSeq
<1>2. ASSUME NEW s \in Status
      PROVE  [s EXCEPT !.age = Saturate(@ + 1, OldestAge)] \in Status
  BY AgeLimits DEF Status, Saturate
<1>3. Older(q) \in [1 .. Len(q) -> Status]
  BY <1>1, <1>2 DEF Older
<1>4. Older(q) \in Seq(Status) /\ Len(Older(q)) = Len(q)
  BY <1>1, <1>3, FunctionIsSeq
<1>5. \A i \in 1 .. Len(q) : /\ Older(q)[i].source = q[i].source
                            /\ Older(q)[i].cond = q[i].cond
                            /\ Older(q)[i].episode = q[i].episode
  BY <1>1 DEF Older, Status
<1> QED
  BY <1>4, <1>5

----------------------------------------------------------------------------
(* The dispatch policy. *)

(* What a fan-in holds and what is cached are sequences of at most one     *)
(* status.                                                                 *)
LEMMA OlderShort ==
    ASSUME NEW q \in {<<>>} \cup {<<s>> : s \in Status}
    PROVE  /\ Older(q) \in {<<>>} \cup {<<s>> : s \in Status}
           /\ Older(q) # <<>> <=> q # <<>>
           /\ q # <<>> => /\ q[1] \in Status
                         /\ Older(q)[1].source = q[1].source
                         /\ Older(q)[1].cond = q[1].cond
                         /\ Older(q)[1].episode = q[1].episode
<1>1. q \in Seq(Status) /\ Len(q) <= 1 /\ (q # <<>> => Len(q) = 1)
  <2>1. q = <<>> => q \in Seq(Status) /\ Len(q) = 0
    BY EmptySeq
  <2>2. \A s \in Status : q = <<s>> => q \in Seq(Status) /\ Len(q) = 1
    BY ShortSeq
  <2>3. q = <<>> \/ \E s \in Status : q = <<s>>
    OBVIOUS
  <2> HIDE DEF Status
  <2>4. q \in Seq(Status) /\ (Len(q) = 0 \/ Len(q) = 1) /\ (q # <<>> => Len(q) = 1)
    BY <2>1, <2>2, <2>3, Zenon
  <2>5. 0 <= 1 /\ 1 <= 1
    OBVIOUS
  <2> QED
    BY <2>4, <2>5, Zenon
<1>2. /\ Older(q) \in Seq(Status) /\ Len(Older(q)) = Len(q)
      /\ \A i \in 1 .. Len(q) : /\ Older(q)[i].source = q[i].source
                              /\ Older(q)[i].cond = q[i].cond
                              /\ Older(q)[i].episode = q[i].episode
  BY <1>1, OlderKeeps
<1>3. Older(q) \in {<<>>} \cup {<<s>> : s \in Status}
  BY <1>1, <1>2, ShortSeq
<1>4. Older(q) # <<>> <=> q # <<>>
  BY <1>1, <1>2, EmptySeq
<1>5. q # <<>> => q[1] \in Status
  BY <1>1, ElementOfSeq
<1> QED
  BY <1>1, <1>2, <1>3, <1>4, <1>5

(* A blocked monitor's status replaces the one it reported: only the       *)
(* condition and the age are new.                                          *)
LEMMA EffectiveStatusType ==
    ASSUME NEW h \in Status
    PROVE  /\ EffectiveStatus(h) \in Status
           /\ EffectiveStatus(h).source = h.source
           /\ EffectiveStatus(h).episode = h.episode
           /\ EffectiveStatus(h).cond \in {h.cond, "MonitorBlocked"}
<1>1. CASE IsMonitorBlocked(h.source)
  <2>1. EffectiveStatus(h) = [h EXCEPT !.cond = "MonitorBlocked", !.age = 0]
    BY <1>1 DEF EffectiveStatus
  <2>2. "MonitorBlocked" \in {"True", "False", "MonitorBlocked"} /\ 0 \in 0 .. OldestAge
    BY AgeLimits
  <2>3. [h EXCEPT !.cond = "MonitorBlocked", !.age = 0] \in Status
    BY <2>2 DEF Status
  <2>4. /\ [h EXCEPT !.cond = "MonitorBlocked", !.age = 0].source = h.source
        /\ [h EXCEPT !.cond = "MonitorBlocked", !.age = 0].episode = h.episode
        /\ [h EXCEPT !.cond = "MonitorBlocked", !.age = 0].cond = "MonitorBlocked"
    BY DEF Status
  <2> QED
    BY <2>1, <2>3, <2>4
<1>2. CASE ~IsMonitorBlocked(h.source)
  BY <1>2 DEF EffectiveStatus
<1> QED
  BY <1>1, <1>2

(* The types are preserved by every step, and an episode begins only with  *)
(* a change of health.                                                     *)
LEMMA PipelineTypeStep ==
    ASSUME PipelineTypeOK, EpisodesFromFlips, [PipelineNext]_pipelineVars
    PROVE  PipelineTypeOK' /\ EpisodesFromFlips'
<1>0. /\ MaxFlips \in Nat /\ ChanCap \in Nat \ {0}
      /\ \A m \in Monitors : Policy[m] \in PolicyRecord /\ ProblemStatus(m) \in {"True", "False"}
  BY PipelineAssumption DEF ProblemStatus
<1>00. /\ flips \in Nat /\ flips <= MaxFlips
       /\ health \in [Monitors -> {"True", "False"}]
       /\ episode \in [Monitors -> Episodes]
       /\ \A k \in Monitors : episode[k] \in Nat
  BY <1>0 DEF PipelineTypeOK, Episodes
<1>1. ASSUME NEW m \in Monitors, Flip(m)
      PROVE  PipelineTypeOK' /\ EpisodesFromFlips'
  <2>1. flips' = flips + 1 /\ flips + 1 \in 0 .. MaxFlips /\ episode' = episode
    BY <1>0, <1>00, <1>1 DEF Flip
  <2>2. health' \in [Monitors -> {"True", "False"}]
    BY <1>00, <1>1 DEF Flip
  <2>3. PipelineTypeOK'
    BY <1>1, <2>1, <2>2 DEF Flip, PipelineTypeOK
  <2>4. \A k \in Monitors : episode[k] <= flips /\ episode[k] + 1 <= flips + 1
    BY <1>00 DEF EpisodesFromFlips
  <2>5. EpisodesFromFlips'
    BY <1>00, <2>1, <2>4 DEF EpisodesFromFlips
  <2> QED
    BY <2>3, <2>5
<1>2. ASSUME NEW m \in Monitors, Report(m)
      PROVE  PipelineTypeOK' /\ EpisodesFromFlips'
  <2> DEFINE new == IF Unreported(m) THEN episode[m] + 1 ELSE episode[m]
             s == [source |-> m, cond |-> health[m], age |-> 0, episode |-> new]
  <2>1. new \in Nat /\ new <= flips /\ new \in Episodes
    BY <1>0, <1>00 DEF EpisodesFromFlips, Episodes
  <2>2. new % 2 = 1 <=> health[m] = ProblemStatus(m)
    BY <1>00 DEF Unreported
  <2>3. s \in Status
    BY <1>00, <2>1, AgeLimits DEF Status
  <2>4. /\ episode' = [episode EXCEPT ![m] = new]
        /\ pending' = [pending EXCEPT ![m] = <<s>>]
        /\ UNCHANGED <<health, flips, statusChan, lastStatus, incidents, globalOn, running,
                       dispatches, gap>>
    BY <1>2 DEF Report, Unreported
  <2> HIDE DEF new, s
  <2>5. PipelineTypeOK'
    BY <2>1, <2>3, <2>4 DEF PipelineTypeOK
  <2>6. EpisodesFromFlips'
    BY <1>00, <2>1, <2>2, <2>4 DEF EpisodesFromFlips, Unreported
  <2> QED
    BY <2>5, <2>6
<1>3. ASSUME NEW m \in Monitors, Forward(m)
      PROVE  PipelineTypeOK' /\ EpisodesFromFlips'
  <2>1. PICK s \in Status : pending[m] = <<s>>
    BY <1>3 DEF Forward, PipelineTypeOK
  <2>2. statusChan' = statusChan \o <<s>> /\ Len(statusChan) < ChanCap
    BY <1>3, <2>1 DEF Forward
  <2>3. statusChan' \in Seq(Status) /\ Len(statusChan') = Len(statusChan) + 1
    BY <2>2, ConcatProperties, ShortSeq DEF PipelineTypeOK
  <2>4. Len(statusChan') <= ChanCap
    BY <1>0, <2>2, <2>3, LenProperties DEF PipelineTypeOK
  <2>5. PipelineTypeOK'
    BY <1>3, <2>3, <2>4 DEF Forward, PipelineTypeOK
  <2> QED
    BY <1>3, <2>5 DEF Forward, EpisodesFromFlips, Unreported
<1>4. ASSUME NEW m \in Monitors, DropStatus(m)
      PROVE  PipelineTypeOK' /\ EpisodesFromFlips'
  BY <1>4 DEF DropStatus, PipelineTypeOK, EpisodesFromFlips, Unreported
<1>5. CASE ProcessStatus
  <2> DEFINE h == Head(statusChan)
             s == EffectiveStatus(h)
  <2>1. /\ h \in Status /\ statusChan' \in Seq(Status) /\ Len(statusChan') = Len(statusChan) - 1
        /\ lastStatus' = [lastStatus EXCEPT ![s.source] = <<s>>]
        /\ EvaluateRemediation(s, lastStatus')
        /\ UNCHANGED <<health, flips, pending, globalOn, episode>>
    BY <1>5, HeadTailProperties DEF ProcessStatus, PipelineTypeOK
  <2>2. Len(statusChan') <= ChanCap
    BY <1>0, <2>1, LenProperties DEF PipelineTypeOK
  <2>3. s \in Status
    BY <2>1, EffectiveStatusType
  <2>4. PICK x \in Status : x = s
    BY <2>3
  <2> HIDE DEF s, h
  <2>5. x.source \in Monitors
    BY DEF Status
  <2>6. lastStatus' \in [Monitors -> {<<>>} \cup {<<y>> : y \in Status}]
    BY <2>1, <2>4, <2>5 DEF PipelineTypeOK
  <2>7. 0 \in 0 .. LongestCooldown
    BY <2>5, AgeLimits
  <2>8. ASSUME UNCHANGED <<incidents, running, dispatches, gap>>
        PROVE  PipelineTypeOK'
    BY <2>1, <2>2, <2>6, <2>8 DEF PipelineTypeOK
  <2>9. ASSUME incidents' = EndIncident(x.source) /\ UNCHANGED <<running, dispatches, gap>>
        PROVE  PipelineTypeOK'
    <3>1. incidents' \in [Monitors -> [attempts : Nat, since : 0 .. LongestCooldown]]
      BY <2>5, <2>9 DEF EndIncident, PipelineTypeOK
    <3> QED
      BY <2>1, <2>2, <2>6, <2>9, <3>1 DEF PipelineTypeOK
  <2>10. ASSUME /\ incidents' = [incidents EXCEPT ![x.source] =
                                   [attempts |-> @.attempts + 1, since |-> 0]]
                /\ running' = x.source
                /\ dispatches' = [dispatches EXCEPT ![x.source][x.episode] = @ + 1]
                /\ gap' = [gap EXCEPT ![x.source] = 0]
         PROVE  PipelineTypeOK'
    <3>1. incidents' \in [Monitors -> [attempts : Nat, since : 0 .. LongestCooldown]]
      BY <2>5, <2>7, <2>10 DEF PipelineTypeOK
    <3>2. dispatches' \in [Monitors -> [Episodes -> Nat]]
      <4>1. dispatches \in [Monitors -> [Episodes -> Nat]] /\ x.episode \in Episodes
        BY DEF PipelineTypeOK, Status
      <4>2. \A g \in [Episodes -> Nat], e \in Episodes : [g EXCEPT ![e] = @ + 1] \in [Episodes -> Nat]
        OBVIOUS
      <4> HIDE DEF Episodes
      <4> QED
        BY <2>5, <2>10, <4>1, <4>2
    <3>3. gap' \in [Monitors -> 0 .. LongestCooldown] /\ running' \in Monitors
      BY <2>5, <2>7, <2>10 DEF PipelineTypeOK
    <3> QED
      BY <2>1, <2>2, <2>6, <3>1, <3>2, <3>3 DEF PipelineTypeOK
  <2>11. PipelineTypeOK'
    BY <2>1, <2>4, <2>8, <2>9, <2>10 DEF EvaluateRemediation
  <2> QED
    BY <2>1, <2>11 DEF EpisodesFromFlips, Unreported
<1>6. CASE RemediationEnds
  BY <1>6 DEF RemediationEnds, PipelineTypeOK, EpisodesFromFlips, Unreported
<1>7. CASE ToggleRemediation
  BY <1>7 DEF ToggleRemediation, PipelineTypeOK, EpisodesFromFlips, Unreported
<1>8. CASE PipelineTick
  <2>1. pending' \in [Monitors -> {<<>>} \cup {<<s>> : s \in Status}]
    BY <1>8, OlderShort DEF PipelineTick, PipelineTypeOK
  <2>2. lastStatus' \in [Monitors -> {<<>>} \cup {<<s>> : s \in Status}]
    BY <1>8, OlderShort DEF PipelineTick, PipelineTypeOK
  <2>3. statusChan' \in Seq(Status) /\ Len(statusChan') <= ChanCap
    BY <1>8, OlderKeeps DEF PipelineTick, PipelineTypeOK
  <2>4. ASSUME NEW m \in Monitors, NEW n \in 0 .. LongestCooldown
        PROVE  Saturate(n + 1, LongestCooldown) \in 0 .. LongestCooldown
    BY AgeLimits DEF Saturate
  <2>5. incidents' \in [Monitors -> [attempts : Nat, since : 0 .. LongestCooldown]]
    BY <1>8, <2>4 DEF PipelineTick, PipelineTypeOK
  <2>6. gap' \in [Monitors -> 0 .. LongestCooldown]
    BY <1>8, <2>4 DEF PipelineTick, PipelineTypeOK
  <2>7. PipelineTypeOK'
    BY <1>8, <2>1, <2>2, <2>3, <2>5, <2>6 DEF PipelineTick, PipelineTypeOK
  <2> QED
    BY <1>8, <2>7 DEF PipelineTick, EpisodesFromFlips, Unreported
<1>9. CASE UNCHANGED pipelineVars
  BY <1>9 DEF pipelineVars, PipelineTypeOK, EpisodesFromFlips, Unreported
<1> QED
  BY <1>1, <1>2, <1>3, <1>4, <1>5, <1>6, <1>7, <1>8, <1>9 DEF PipelineNext

(* The statuses of one monitor stay in order through fan-in, channel and   *)
(* cache.                                                                  *)
LEMMA StreamsStep ==
    ASSUME PipelineTypeOK, StreamsInOrder, [PipelineNext]_pipelineVars
    PROVE  StreamsInOrder'
<1>1. /\ statusChan \in Seq(Status) /\ Len(statusChan) \in Nat
      /\ DOMAIN statusChan = 1 .. Len(statusChan)
      /\ \A i \in 1 .. Len(statusChan) : statusChan[i] \in Status
  BY LenProperties, ElementOfSeq DEF PipelineTypeOK
<1>2. \A s \in Status : s.source \in Monitors /\ s.episode \in Nat
  BY PipelineAssumption DEF Status, Episodes
<1>2a. /\ \A m \in Monitors : pending[m] # <<>> => pending[m][1] \in Status
       /\ \A m \in Monitors : lastStatus[m] # <<>> =>
            lastStatus[m][1] \in Status /\ lastStatus[m][1].episode \in Nat
  <2> QED
    BY <1>2, OlderShort DEF PipelineTypeOK
<1>3. \A m \in Monitors : episode[m] \in Nat
  BY PipelineAssumption DEF PipelineTypeOK, Episodes
<1>4. ASSUME UNCHANGED <<pending, statusChan, lastStatus, episode>>
      PROVE  StreamsInOrder'
  BY <1>4 DEF StreamsInOrder, PendingInOrder, ChannelInOrder, CacheInOrder
<1>5. ASSUME NEW m \in Monitors, Report(m)
      PROVE  StreamsInOrder'
  <2> DEFINE new == IF Unreported(m) THEN episode[m] + 1 ELSE episode[m]
             s == [source |-> m, cond |-> health[m], age |-> 0, episode |-> new]
  <2>1. new \in Nat /\ episode[m] <= new
    BY <1>3
  <2>2. /\ episode' = [episode EXCEPT ![m] = new]
        /\ pending' = [pending EXCEPT ![m] = <<s>>]
        /\ UNCHANGED <<statusChan, lastStatus>>
    BY <1>5 DEF Report, Unreported
  <2>3. s.source = m /\ s.episode = new /\ Finding(s)
    BY <1>3 DEF Finding, Unreported
  <2>4. <<s>>[1] = s
    OBVIOUS
  <2> HIDE DEF new, s
  <2>5. /\ pending'[m] = <<s>> /\ episode'[m] = new
        /\ \A k \in Monitors \ {m} : pending'[k] = pending[k] /\ episode'[k] = episode[k]
    BY <2>2 DEF PipelineTypeOK
  <2>6. PendingInOrder'
    BY <2>1, <2>3, <2>4, <2>5 DEF StreamsInOrder, PendingInOrder, Finding
  <2>7. ASSUME NEW k \in Monitors, NEW e \in Nat, e <= episode[k],
               pending[k] # <<>> => e <= pending[k][1].episode
        PROVE  /\ e <= episode'[k]
               /\ pending'[k] # <<>> => e <= pending'[k][1].episode
    BY <1>3, <2>1, <2>3, <2>4, <2>5, <2>7
  <2>8. ChannelInOrder'
    BY <1>1, <1>2, <2>2, <2>7 DEF StreamsInOrder, ChannelInOrder, Finding
  <2>9. CacheInOrder'
    BY <1>2a, <2>2, <2>7 DEF StreamsInOrder, CacheInOrder
  <2> QED
    BY <2>6, <2>8, <2>9 DEF StreamsInOrder
<1>6. ASSUME NEW m \in Monitors, Forward(m)
      PROVE  StreamsInOrder'
  <2>1. PICK s \in Status : pending[m] = <<s>>
    BY <1>6 DEF Forward, PipelineTypeOK
  <2>2. /\ statusChan' = statusChan \o <<s>>
        /\ \A k \in Monitors : pending'[k] = IF k = m THEN <<>> ELSE pending[k]
        /\ UNCHANGED <<lastStatus, episode>>
    BY <1>6, <2>1 DEF Forward, PipelineTypeOK
  <2>3. statusChan' = Append(statusChan, s)
    BY <1>1, <2>2, AppendIsConcat
  <2>4. /\ DOMAIN statusChan' = 1 .. Len(statusChan) + 1
        /\ \A i \in 1 .. Len(statusChan) : statusChan'[i] = statusChan[i]
        /\ statusChan'[Len(statusChan) + 1] = s
    BY <1>1, <2>3, AppendProperties, LenProperties
  <2>5. s = pending[m][1] /\ pending[m] # <<>> /\ s.episode \in Nat
    BY <1>2, <2>1
  <2>6. s.source = m /\ Finding(s) /\ s.episode <= episode[m]
    BY <2>5 DEF StreamsInOrder, PendingInOrder
  <2>7. PendingInOrder' /\ CacheInOrder'
    BY <2>2 DEF StreamsInOrder, PendingInOrder, CacheInOrder, Finding
  <2>8. ASSUME NEW i \in 1 .. Len(statusChan)
        PROVE  statusChan[i].source = m => statusChan[i].episode <= s.episode
    BY <1>1, <2>5, <2>8 DEF StreamsInOrder, ChannelInOrder
  <2>9. ASSUME NEW i \in 1 .. Len(statusChan)
        PROVE  LET x == statusChan'[i] IN
               /\ Finding(x) /\ x.episode <= episode'[x.source]
               /\ pending'[x.source] # <<>> => x.episode <= pending'[x.source][1].episode
               /\ lastStatus'[x.source] # <<>> => lastStatus'[x.source][1].episode <= x.episode
               /\ \A j \in DOMAIN statusChan' :
                    i < j /\ statusChan'[j].source = x.source => x.episode <= statusChan'[j].episode
    <3>1. /\ statusChan'[i] = statusChan[i] /\ statusChan[i].source \in Monitors
          /\ \A j \in DOMAIN statusChan' : j \in 1 .. Len(statusChan) \/ j = Len(statusChan) + 1
      BY <1>1, <1>2, <2>4
    <3> QED
      BY <1>1, <2>2, <2>4, <2>6, <2>8, <3>1 DEF StreamsInOrder, ChannelInOrder
  <2>10. LET i == Len(statusChan) + 1
             x == statusChan'[i] IN
         /\ Finding(x) /\ x.episode <= episode'[x.source]
         /\ pending'[x.source] # <<>> => x.episode <= pending'[x.source][1].episode
         /\ lastStatus'[x.source] # <<>> => lastStatus'[x.source][1].episode <= x.episode
         /\ \A j \in DOMAIN statusChan' :
              i < j /\ statusChan'[j].source = x.source => x.episode <= statusChan'[j].episode
    BY SMTT(30), <1>1, <2>2, <2>4, <2>5, <2>6 DEF StreamsInOrder, CacheInOrder
  <2>11. ChannelInOrder'
    <3>1. \A i \in DOMAIN statusChan' : i \in 1 .. Len(statusChan) \/ i = Len(statusChan) + 1
      BY <1>1, <2>4
    <3> QED
      BY <2>9, <2>10, <3>1 DEF ChannelInOrder, Finding
  <2> QED
    BY <2>7, <2>11 DEF StreamsInOrder
<1>7. ASSUME NEW m \in Monitors, DropStatus(m)
      PROVE  StreamsInOrder'
  <2>1. /\ \A k \in Monitors : pending'[k] # <<>> => pending'[k] = pending[k]
        /\ UNCHANGED <<statusChan, lastStatus, episode>>
    BY <1>7 DEF DropStatus, PipelineTypeOK
  <2> QED
    BY SMTT(30), <1>1, <1>2, <2>1 DEF StreamsInOrder, PendingInOrder, ChannelInOrder, CacheInOrder, Finding
<1>8. CASE ProcessStatus
  <2> DEFINE h == Head(statusChan)
             s == EffectiveStatus(h)
  <2>1. /\ h \in Status /\ h = statusChan[1] /\ 1 \in 1 .. Len(statusChan)
        /\ Len(statusChan') = Len(statusChan) - 1
        /\ DOMAIN statusChan' = 1 .. Len(statusChan')
        /\ \A i \in 1 .. Len(statusChan') : statusChan'[i] = statusChan[i + 1]
    BY <1>1, <1>8, HeadTailProperties, EmptySeq, LenProperties DEF ProcessStatus
  <2>2. /\ lastStatus' = [lastStatus EXCEPT ![s.source] = <<s>>]
        /\ UNCHANGED <<pending, episode>>
    BY <1>8 DEF ProcessStatus
  <2>3. s.source = h.source /\ s.episode = h.episode /\ h.source \in Monitors /\ h.episode \in Nat
    BY <1>2, <2>1, EffectiveStatusType
  <2>4. <<s>>[1] = s /\ <<s>> # <<>>
    OBVIOUS
  <2> HIDE DEF h, s
  <2>5. \A k \in Monitors : lastStatus'[k] = IF k = h.source THEN <<s>> ELSE lastStatus[k]
    BY <2>2, <2>3 DEF PipelineTypeOK
  <2>6. PendingInOrder'
    BY <2>2 DEF StreamsInOrder, PendingInOrder
  <2>7. CacheInOrder'
    BY <1>1, <2>1, <2>2, <2>3, <2>4, <2>5 DEF StreamsInOrder, CacheInOrder, ChannelInOrder
  <2>8. ASSUME NEW i \in DOMAIN statusChan'
        PROVE  LET x == statusChan'[i] IN
               /\ Finding(x) /\ x.episode <= episode'[x.source]
               /\ pending'[x.source] # <<>> => x.episode <= pending'[x.source][1].episode
               /\ lastStatus'[x.source] # <<>> => lastStatus'[x.source][1].episode <= x.episode
               /\ \A j \in DOMAIN statusChan' :
                    i < j /\ statusChan'[j].source = x.source => x.episode <= statusChan'[j].episode
    <3>1. /\ i \in Nat /\ i + 1 \in DOMAIN statusChan /\ 1 < i + 1
          /\ statusChan'[i] = statusChan[i + 1] /\ statusChan[i + 1].source \in Monitors
      BY <1>1, <1>2, <2>1
    <3>2. \A j \in DOMAIN statusChan' : /\ j \in Nat /\ j + 1 \in DOMAIN statusChan
                                       /\ statusChan'[j] = statusChan[j + 1]
      BY <1>1, <2>1
    <3>3. \A j \in DOMAIN statusChan' :
             i < j /\ statusChan'[j].source = statusChan'[i].source
               => statusChan'[i].episode <= statusChan'[j].episode
      BY <3>1, <3>2 DEF StreamsInOrder, ChannelInOrder
    <3>4. statusChan[i + 1].source = h.source => h.episode <= statusChan[i + 1].episode
      BY <1>1, <2>1, <3>1 DEF StreamsInOrder, ChannelInOrder
    <3> QED
      BY <2>2, <2>3, <2>4, <2>5, <3>1, <3>3, <3>4 DEF StreamsInOrder, ChannelInOrder
  <2>9. ChannelInOrder'
    BY <2>8 DEF ChannelInOrder, Finding
  <2> QED
    BY <2>6, <2>7, <2>9 DEF StreamsInOrder
<1>9. CASE PipelineTick
  <2>1. /\ DOMAIN statusChan' = DOMAIN statusChan
        /\ \A i \in DOMAIN statusChan : /\ statusChan'[i].source = statusChan[i].source
                                      /\ statusChan'[i].cond = statusChan[i].cond
                                      /\ statusChan'[i].episode = statusChan[i].episode
    BY <1>1, <1>9, OlderKeeps, LenProperties DEF PipelineTick
  <2>2. \A m \in Monitors :
          /\ pending'[m] # <<>> <=> pending[m] # <<>>
          /\ pending[m] # <<>> => /\ pending'[m][1].source = pending[m][1].source
                                 /\ pending'[m][1].cond = pending[m][1].cond
                                 /\ pending'[m][1].episode = pending[m][1].episode
    BY <1>9, OlderShort DEF PipelineTick, PipelineTypeOK
  <2>3. \A m \in Monitors :
          /\ lastStatus'[m] # <<>> <=> lastStatus[m] # <<>>
          /\ lastStatus[m] # <<>> => /\ lastStatus'[m][1].source = lastStatus[m][1].source
                                    /\ lastStatus'[m][1].episode = lastStatus[m][1].episode
    BY <1>9, OlderShort DEF PipelineTick, PipelineTypeOK
  <2>4. episode' = episode
    BY <1>9 DEF PipelineTick
  <2>5. PendingInOrder'
    BY <2>2, <2>4 DEF StreamsInOrder, PendingInOrder, Finding
  <2>6. CacheInOrder'
    BY <2>2, <2>3, <2>4 DEF StreamsInOrder, CacheInOrder
  <2>7. ChannelInOrder'
    <3> SUFFICES ASSUME NEW i \in DOMAIN statusChan
                 PROVE  LET x == statusChan'[i] IN
                   /\ Finding(x) /\ x.episode <= episode'[x.source]
                   /\ pending'[x.source] # <<>> => x.episode <= pending'[x.source][1].episode
                   /\ lastStatus'[x.source] # <<>> =>
                        lastStatus'[x.source][1].episode <= x.episode
                   /\ \A j \in DOMAIN statusChan :
                        i < j /\ statusChan'[j].source = x.source
                          => x.episode <= statusChan'[j].episode
      BY <2>1 DEF ChannelInOrder, Finding
    <3>1. Finding(statusChan[i]) => Finding(statusChan'[i])
      BY <2>1 DEF Finding
    <3>2. statusChan[i].source \in Monitors
      BY <1>1, <1>2
    <3> QED
      BY <2>1, <2>2, <2>3, <2>4, <3>1, <3>2 DEF StreamsInOrder, ChannelInOrder
  <2> QED
    BY <2>5, <2>6, <2>7 DEF StreamsInOrder
<1> QED
  BY <1>4, <1>5, <1>6, <1>7, <1>8, <1>9
     DEF PipelineNext, Flip, RemediationEnds, ToggleRemediation, pipelineVars

(* The incident counts at least the dispatches of the current episode:     *)
(* only a healthy report ends it, and that one begins another episode.     *)
LEMMA CountedStep ==
    ASSUME DispatchesBounded, PipelineTypeOK', StreamsInOrder', [PipelineNext]_pipelineVars
    PROVE  DispatchesCounted' /\ AttemptsPerEpisode'
<1> USE PipelineAssumption
<1>1. ASSUME UNCHANGED <<lastStatus, dispatches>>,
             \A m \in Monitors : incidents'[m].attempts = incidents[m].attempts
      PROVE  DispatchesCounted' /\ AttemptsPerEpisode'
  BY <1>1 DEF DispatchesBounded, DispatchesCounted, AttemptsPerEpisode
<1>2. CASE PipelineTick
  <2>1. UNCHANGED dispatches
    BY <1>2 DEF PipelineTick
  <2>2. \A m \in Monitors : incidents'[m].attempts = incidents[m].attempts
    BY <1>2 DEF PipelineTick, DispatchesBounded, PipelineTypeOK
  <2>3. \A m \in Monitors :
          /\ lastStatus'[m] # <<>> <=> lastStatus[m] # <<>>
          /\ lastStatus[m] # <<>> => lastStatus'[m][1].episode = lastStatus[m][1].episode
    BY <1>2, OlderShort DEF PipelineTick, DispatchesBounded, PipelineTypeOK
  <2> QED
    BY <2>1, <2>2, <2>3 DEF DispatchesBounded, DispatchesCounted, AttemptsPerEpisode
<1>3. CASE ProcessStatus
  <2> DEFINE h == Head(statusChan)
             s == EffectiveStatus(h)
  <2>1. statusChan \in Seq(Status) /\ statusChan # <<>>
    BY <1>3 DEF ProcessStatus, DispatchesBounded, PipelineTypeOK
  <2>2. h \in Status /\ h = statusChan[1] /\ 1 \in DOMAIN statusChan
    BY <2>1, HeadTailProperties, EmptySeq, LenProperties
  <2>3. /\ lastStatus' = [lastStatus EXCEPT ![s.source] = <<s>>]
        /\ EvaluateRemediation(s, lastStatus')
    BY <1>3 DEF ProcessStatus
  <2>4. s.source = h.source /\ s.episode = h.episode /\ s.cond \in {h.cond, "MonitorBlocked"}
    BY <2>2, EffectiveStatusType
  <2>5. PICK m \in Monitors, e \in Episodes, c \in {h.cond, "MonitorBlocked"} :
            m = h.source /\ e = h.episode /\ c = s.cond
    BY <2>2, <2>4 DEF Status
  <2>6. <<s>>[1].episode = e /\ <<s>> # <<>>
    BY <2>4, <2>5
  <2>7. e % 2 = 1 <=> h.cond = ProblemStatus(m)
    BY <2>2, <2>5 DEF DispatchesBounded, StreamsInOrder, ChannelInOrder, Finding
  <2>8. lastStatus[m] # <<>> => lastStatus[m][1].episode <= e
    BY <2>2, <2>5 DEF DispatchesBounded, StreamsInOrder, ChannelInOrder
  <2> HIDE DEF h, s
  <2>9. \A k \in Monitors : lastStatus'[k] = IF k = m THEN <<s>> ELSE lastStatus[k]
    BY <2>3, <2>4, <2>5 DEF DispatchesBounded, PipelineTypeOK
  <2>10. /\ \A k \in Monitors, i \in Episodes : dispatches[k][i] \in Nat
         /\ \A k \in Monitors : incidents[k].attempts \in Nat /\ Policy[k].maxAttempts \in Nat
         /\ \A i \in Episodes : i \in Nat
         /\ \A k \in Monitors : lastStatus[k] # <<>> => lastStatus[k][1].episode \in Episodes
    <3>1. \A k \in Monitors : lastStatus[k] # <<>> => lastStatus[k][1].episode \in Episodes
      BY OlderShort DEF DispatchesBounded, PipelineTypeOK, Status
    <3>2. dispatches \in [Monitors -> [Episodes -> Nat]]
      BY DEF DispatchesBounded, PipelineTypeOK
    <3>3. \A k \in Monitors : incidents[k].attempts \in Nat /\ Policy[k].maxAttempts \in Nat
      BY DEF DispatchesBounded, PipelineTypeOK, PolicyRecord
    <3>4. \A i \in Episodes : i \in Nat
      BY DEF Episodes
    <3>5. \A k \in Monitors, i \in Episodes : dispatches[k][i] \in Nat
      BY <3>2
    <3> QED
      BY <3>1, <3>3, <3>4, <3>5
  <2>11. /\ \A i \in Episodes : dispatches[m][i] > 0 => i <= e /\ i % 2 = 1
         /\ dispatches[m][e] <= incidents[m].attempts
    BY <2>8, <2>10 DEF DispatchesBounded, DispatchesCounted
  <2>12. ASSUME UNCHANGED <<incidents, dispatches>>
         PROVE  DispatchesCounted' /\ AttemptsPerEpisode'
    BY <2>6, <2>9, <2>11, <2>12 DEF DispatchesBounded, DispatchesCounted, AttemptsPerEpisode
  <2>13. ASSUME EndsIncident(s), incidents' = EndIncident(m), UNCHANGED dispatches
         PROVE  DispatchesCounted' /\ AttemptsPerEpisode'
    <3>1. dispatches[m][e] = 0
      BY <2>4, <2>5, <2>7, <2>10, <2>11, <2>13
         DEF EndsIncident, HealthyStatus, ProblemStatus
    <3>2. /\ incidents'[m].attempts = 0
          /\ \A k \in Monitors \ {m} : incidents'[k] = incidents[k]
      BY <2>13 DEF EndIncident, DispatchesBounded, PipelineTypeOK
    <3> QED
      BY <2>6, <2>9, <2>10, <2>11, <2>13, <3>1, <3>2
         DEF DispatchesBounded, DispatchesCounted, AttemptsPerEpisode
  <2>14. ASSUME c = ProblemStatus(m), ~CapReached(m),
                incidents' = [incidents EXCEPT ![m] = [attempts |-> @.attempts + 1, since |-> 0]],
                dispatches' = [dispatches EXCEPT ![m][e] = @ + 1]
         PROVE  DispatchesCounted' /\ AttemptsPerEpisode'
    <3>1. e % 2 = 1
      BY <2>5, <2>7, <2>14 DEF ProblemStatus
    <3>2. /\ incidents'[m].attempts = incidents[m].attempts + 1
          /\ \A k \in Monitors \ {m} : incidents'[k] = incidents[k]
      BY <2>14 DEF DispatchesBounded, PipelineTypeOK
    <3>3. /\ dispatches'[m][e] = dispatches[m][e] + 1
          /\ \A i \in Episodes \ {e} : dispatches'[m][i] = dispatches[m][i]
          /\ \A k \in Monitors \ {m} : dispatches'[k] = dispatches[k]
      BY <2>14 DEF DispatchesBounded, PipelineTypeOK
    <3>4. Policy[m].maxAttempts > 0 => incidents[m].attempts + 1 <= Policy[m].maxAttempts
      BY <2>10, <2>14 DEF CapReached
    <3>5. dispatches[m][e] + 1 <= incidents[m].attempts + 1
      BY <2>10, <2>11
    <3>6. /\ \A i \in Episodes : dispatches'[m][i] > 0 => i <= e /\ i % 2 = 1
          /\ dispatches'[m][e] <= incidents'[m].attempts
          /\ Policy[m].maxAttempts > 0 =>
               /\ incidents'[m].attempts <= Policy[m].maxAttempts
               /\ \A i \in Episodes : dispatches'[m][i] <= Policy[m].maxAttempts
      <4>1. \A i \in Episodes : dispatches'[m][i] > 0 => i <= e /\ i % 2 = 1
        BY <2>10, <2>11, <3>1, <3>3
      <4>2. ASSUME Policy[m].maxAttempts > 0, NEW i \in Episodes
            PROVE  dispatches'[m][i] <= Policy[m].maxAttempts
        <5>1. dispatches[m][i] <= Policy[m].maxAttempts
          BY <4>2 DEF DispatchesBounded, AttemptsPerEpisode
        <5> QED
          BY <2>10, <3>3, <3>4, <3>5, <4>2, <5>1
      <4> QED
        BY <3>2, <3>3, <3>4, <3>5, <4>1, <4>2
    <3>7. DispatchesCounted'
      BY <2>6, <2>9, <3>2, <3>3, <3>6 DEF DispatchesBounded, DispatchesCounted
    <3>8. AttemptsPerEpisode'
      BY <3>3, <3>6 DEF DispatchesBounded, AttemptsPerEpisode
    <3> QED
      BY <3>7, <3>8
  <2> QED
    BY <2>3, <2>4, <2>5, <2>12, <2>13, <2>14 DEF EvaluateRemediation, Admitted
<1> QED
  BY <1>1, <1>2, <1>3
     DEF PipelineNext, Flip, Report, Forward, DropStatus, RemediationEnds, ToggleRemediation,
         pipelineVars

(* Nothing has been reported at first. *)
LEMMA NothingReportedAtFirst ==
    ASSUME PipelineInit
    PROVE  DispatchesBounded
<1> USE PipelineAssumption DEF PipelineInit
<1>1. ASSUME NEW m \in Monitors
      PROVE  LongestCooldown \in 0 .. LongestCooldown
  BY AgeLimits
<1>2. PipelineTypeOK
  <2>1. /\ health \in [Monitors -> {"True", "False"}]
        /\ statusChan \in Seq(Status) /\ Len(statusChan) <= ChanCap
    BY EmptySeq DEF HealthyStatus
  <2>2. incidents \in [Monitors -> [attempts : Nat, since : 0 .. LongestCooldown]]
    BY <1>1
  <2>3. gap \in [Monitors -> 0 .. LongestCooldown]
    BY <1>1
  <2>4. episode \in [Monitors -> Episodes] /\ dispatches \in [Monitors -> [Episodes -> Nat]]
    BY DEF Episodes
  <2> QED
    BY <2>1, <2>2, <2>3, <2>4 DEF PipelineTypeOK
<1>3. EpisodesFromFlips
  BY DEF EpisodesFromFlips, Unreported, HealthyStatus, ProblemStatus
<1>4. StreamsInOrder
  BY EmptySeq DEF StreamsInOrder, PendingInOrder, ChannelInOrder, CacheInOrder
<1>5. DispatchesCounted /\ AttemptsPerEpisode
  BY DEF DispatchesCounted, AttemptsPerEpisode, PolicyRecord
<1> QED
  BY <1>2, <1>3, <1>4, <1>5 DEF DispatchesBounded

(* In one problem episode of a monitor there are at most                   *)
(* maxAttemptsPerIncident dispatches, for every set of monitors,           *)
(* dependencies and policies, however many reports queue up, are dropped   *)
(* or replaced (fanInFromMonitor, processStatus, admitRemediation).        *)
THEOREM AttemptsBounded == PipelineSpec => []AttemptsPerEpisode
<1>1. DispatchesBounded /\ [PipelineNext]_pipelineVars => DispatchesBounded'
  <2> SUFFICES ASSUME DispatchesBounded, [PipelineNext]_pipelineVars
               PROVE  DispatchesBounded'
    OBVIOUS
  <2>1. PipelineTypeOK' /\ EpisodesFromFlips'
    BY PipelineTypeStep DEF DispatchesBounded
  <2>2. StreamsInOrder'
    BY StreamsStep DEF DispatchesBounded
  <2>3. DispatchesCounted' /\ AttemptsPerEpisode'
    BY <2>1, <2>2, CountedStep
  <2> QED
    BY <2>1, <2>2, <2>3 DEF DispatchesBounded
<1>2. DispatchesBounded => AttemptsPerEpisode
  BY DEF DispatchesBounded
<1> QED
  BY <1>1, <1>2, NothingReportedAtFirst, PTL DEF PipelineSpec

(* Two dispatches for one condition are at least cooldown apart, also when *)
(* the incident ended in between: endIncident keeps the time of the last   *)
(* dispatch, so it is the age admitRemediation compares.                   *)
THEOREM DispatchesApart == PipelineSpec => DispatchesSpaced
<1> DEFINE Spaced == \A m \in Monitors :
                       (running # m /\ running' = m) => gap[m] >= Policy[m].cooldown
<1>1. PipelineInit => AgeOfDispatch
  BY NothingReportedAtFirst DEF PipelineInit, AgeOfDispatch, DispatchesBounded
<1>2. ASSUME AgeOfDispatch, [PipelineNext]_pipelineVars
      PROVE  AgeOfDispatch' /\ (Spaced \/ UNCHANGED pipelineVars)
  <2>1. PipelineTypeOK' /\ EpisodesFromFlips'
    BY <1>2, PipelineTypeStep DEF AgeOfDispatch
  <2>2. incidents \in [Monitors -> [attempts : Nat, since : 0 .. LongestCooldown]]
        /\ gap \in [Monitors -> 0 .. LongestCooldown]
    BY <1>2 DEF AgeOfDispatch, PipelineTypeOK
  <2>3. NoMonitor \notin Monitors
    BY PipelineAssumption
  <2>4. ASSUME \A m \in Monitors : incidents'[m].since = incidents[m].since,
               gap' = gap, running' \in {running, NoMonitor}
        PROVE  AgeOfDispatch' /\ Spaced
    BY <1>2, <2>1, <2>3, <2>4 DEF AgeOfDispatch
  <2>5. CASE PipelineTick
    BY <1>2, <2>1, <2>2, <2>5 DEF PipelineTick, AgeOfDispatch
  <2>6. CASE ProcessStatus
    <3> DEFINE s == EffectiveStatus(Head(statusChan))
    <3>1. /\ EvaluateRemediation(s, lastStatus') /\ running = NoMonitor
          /\ s.source \in Monitors
      <4>1. Head(statusChan) \in Status
        BY <1>2, <2>6, HeadTailProperties DEF ProcessStatus, AgeOfDispatch, PipelineTypeOK
      <4>2. s \in Status
        BY <4>1, EffectiveStatusType
      <4> QED
        BY <2>6, <4>2 DEF ProcessStatus, Status
    <3> HIDE DEF s
    <3>2. CASE incidents' = EndIncident(s.source) /\ UNCHANGED <<running, gap>>
      BY <2>2, <2>4, <3>1, <3>2 DEF EndIncident
    <3>3. CASE /\ Admitted(s.source, lastStatus')
               /\ incidents' = [incidents EXCEPT ![s.source] =
                                   [attempts |-> @.attempts + 1, since |-> 0]]
               /\ running' = s.source
               /\ gap' = [gap EXCEPT ![s.source] = 0]
      BY <1>2, <2>1, <2>2, <3>1, <3>3 DEF Admitted, AgeOfDispatch
    <3> QED
      BY <2>4, <3>1, <3>2, <3>3 DEF EvaluateRemediation
  <2> QED
    BY <1>2, <2>4, <2>5, <2>6
       DEF PipelineNext, Flip, Report, Forward, DropStatus, RemediationEnds,
           ToggleRemediation, pipelineVars
<1> QED
  BY <1>1, <1>2, PTL DEF PipelineSpec, DispatchesSpaced
----------------------------------------------------------------------------
(* The circuit breaker of the gatekeeper.                                  *)

(* The largest threshold a reload may set is a number above 0. *)
LEMMA ThresholdLimit == MaxThreshold \in Nat \ {0}
<1> DEFINE f == [c \in Configs |-> c.threshold]
           S == {c.threshold : c \in Configs}
<1>1. f \in Surjection(Configs, S)
  BY DEF Surjection
<1>2. S \in SUBSET (Nat \ {0}) /\ S # {}
  BY RegistryAssumption DEF Config
<1>3. IsFiniteSet(S)
  <2> HIDE DEF f, S
  <2> QED BY <1>1, RegistryAssumption, FS_Surjection
<1>4. Max(S) \in S
  <2> HIDE DEF S
  <2> QED BY <1>2, <1>3, FiniteSetHasMax
<1> QED
  BY <1>2, <1>4 DEF MaxThreshold

(* A reload, one setter after the other, leaves complete settings. *)
LEMMA SettableStep ==
    ASSUME Settable, [RegistryNext]_registryVars
    PROVE  Settable'
<1> DEFINE Setters == {"dryRun", "perHour", "perMinute", "circuit"}
<1>1. ASSUME applying # <<>>
      PROVE  Head(applying) \in Setters \X Configs /\ Tail(applying) \in Seq(Setters \X Configs)
  BY <1>1, HeadTailProperties DEF Settable
<1>2. ASSUME applying # <<>>
      PROVE  Head(applying)[2] \in Config
  BY <1>1, <1>2, RegistryAssumption
<1>3. ASSUME NEW c \in Configs, ApplyConfig(c)
      PROVE  Settable'
  <2>1. \A x \in Setters : <<x, c>> \in Setters \X Configs
    OBVIOUS
  <2>2. <<<<"dryRun", c>>, <<"perHour", c>>, <<"perMinute", c>>, <<"circuit", c>>>>
           \in Seq(Setters \X Configs)
    BY <2>1
  <2> QED
    BY <1>3, <2>2 DEF ApplyConfig, Settable
<1>4. CASE SetDryRun
  BY <1>1, <1>2, <1>4 DEF SetDryRun, Settable, Config
<1>5. CASE SetMaxRemediationsPerHour
  BY <1>1, <1>2, <1>5 DEF SetMaxRemediationsPerHour, Settable, Config
<1>6. CASE SetMaxRemediationsPerMinute
  BY <1>1, <1>2, <1>6 DEF SetMaxRemediationsPerMinute, Settable, Config
<1>7. CASE SetCircuitBreakerConfig
  BY <1>1, <1>2, <1>7 DEF SetCircuitBreakerConfig, Settable, Config
<1>8. CASE UNCHANGED <<cfg, applying>>
  BY <1>8 DEF Settable
<1> QED
  BY <1>3, <1>4, <1>5, <1>6, <1>7, <1>8
  DEF RegistryNext, Remediate, Reconfigure, registryVars, Dispatch, CheckCircuitBreaker,
      CheckLimits, AskLease, GetRemediator, CanRemediate, Execute, RecordSuccess,
      RecordRateLimitEntry, RecordFailure, RecordRemediation, ResetCircuitBreaker, RegistryTick

(* Every step keeps the counter of failures behind the failures themselves *)
(* (recordCircuitBreakerFailure, recordCircuitBreakerSuccess,              *)
(* SetCircuitBreakerConfig and ResetCircuitBreaker are those that change   *)
(* either).                                                                *)
LEMMA FailuresWereSeenStep ==
    ASSUME FailuresWereSeen, [RegistryNext]_registryVars
    PROVE  FailuresWereSeen'
<1> USE DEF FailuresWereSeen, breaker
<1>1. ASSUME NEW c \in Callers, Remediate(c)
      PROVE  FailuresWereSeen'
  <2>1. CASE RecordFailure(c)
    BY <2>1, ThresholdLimit DEF RecordFailure, AtMost
  <2>2. CASE RecordSuccess(c)
    BY <2>2 DEF RecordSuccess
  <2>3. CASE CheckCircuitBreaker(c)
    BY <2>3 DEF CheckCircuitBreaker
  <2>4. CASE UNCHANGED breaker
    BY <2>4
  <2> QED
    BY <1>1, <2>1, <2>2, <2>3, <2>4
    DEF Remediate, Dispatch, CheckLimits, AskLease, GetRemediator, CanRemediate, Execute,
        RecordRateLimitEntry, RecordRemediation
<1>2. CASE Reconfigure
  BY <1>2 DEF Reconfigure, SetDryRun, SetMaxRemediationsPerHour,
              SetMaxRemediationsPerMinute, SetCircuitBreakerConfig
<1>3. CASE ResetCircuitBreaker
  BY <1>3 DEF ResetCircuitBreaker
<1>4. CASE RegistryTick
  BY <1>4 DEF RegistryTick
<1>5. ASSUME NEW c \in Configs, ApplyConfig(c)
      PROVE  FailuresWereSeen'
  BY <1>5 DEF ApplyConfig
<1>6. CASE UNCHANGED registryVars
  BY <1>6 DEF registryVars
<1> QED
  BY <1>1, <1>2, <1>3, <1>4, <1>5, <1>6 DEF RegistryNext

(* The breaker trips only when as many failures as its threshold have just *)
(* been seen, whatever callers, configurations, reloads, resets and        *)
(* half-open periods there were (recordCircuitBreakerFailure).             *)
THEOREM TripsAfterFailures == RegistrySpec => TripNeedsRun
<1>1. ASSUME FailuresWereSeen, Settable, [RegistryNext]_registryVars,
             circuitState = "Closed", circuitState' = "Open"
      PROVE  failRun' >= cfg.threshold
  <2>1. PICK c \in Callers : RecordFailure(c)
    BY <1>1
    DEF RegistryNext, Remediate, Reconfigure, registryVars, breaker, Dispatch,
        CheckCircuitBreaker, CheckLimits, AskLease, GetRemediator, CanRemediate, Execute,
        RecordSuccess, RecordRateLimitEntry, RecordRemediation, ApplyConfig, SetDryRun,
        SetMaxRemediationsPerHour, SetMaxRemediationsPerMinute, SetCircuitBreakerConfig,
        ResetCircuitBreaker, RegistryTick
  <2>2. AtMost(consecutiveFailures + 1, MaxThreshold) >= cfg.threshold
    BY <1>1, <2>1 DEF RecordFailure
  <2>3. failRun' = AtMost(failRun + 1, MaxThreshold)
    BY <2>1 DEF RecordFailure
  <2> QED
    BY <1>1, <2>2, <2>3, ThresholdLimit DEF FailuresWereSeen, AtMost, Settable, Config
<1>2. RegistryInit => FailuresWereSeen /\ Settable
  BY RegistryAssumption DEF RegistryInit, FailuresWereSeen, Settable
<1> QED
  BY <1>1, <1>2, FailuresWereSeenStep, SettableStep, PTL DEF RegistrySpec, TripNeedsRun
----------------------------------------------------------------------------
(* The attempt cap of a strategy.                                          *)

(* A caller moves on: who has been let through for strategy s changes by   *)
(* that caller only.                                                       *)
LEMMA LetThroughFinite ==
    ASSUME NEW s
    PROVE  /\ IsFiniteSet(LetThrough(s)) /\ Cardinality(LetThrough(s)) \in Nat
           /\ Cardinality(LetThrough(s)) <= Cardinality(Callers)
           /\ Cardinality(Callers) \in Nat
<1>1. LetThrough(s) \subseteq Callers
  BY DEF LetThrough
<1> QED
  BY <1>1, RegistryAssumption, FS_Subset, FS_CardinalityType

(* Nobody new is let through, so no more are. *)
LEMMA FewerLetThrough ==
    ASSUME AttemptsCounted, pc' \in [Callers -> Steps], todo' = [c \in Callers |-> todo'[c]],
           UNCHANGED attemptCount,
           \A s \in StrategyTypes : LetThrough(s)' \subseteq LetThrough(s)
    PROVE  AttemptsCounted'
<1> SUFFICES ASSUME NEW s \in StrategyTypes
             PROVE  attemptCount[s] + Cardinality(LetThrough(s)')
                       <= MaxAttempts + Cardinality(Callers) - 1
  BY DEF AttemptsCounted
<1>1. IsFiniteSet(LetThrough(s)) /\ Cardinality(LetThrough(s)) \in Nat /\ Cardinality(Callers) \in Nat
  BY LetThroughFinite
<1>2. Cardinality(LetThrough(s)') \in Nat /\ Cardinality(LetThrough(s)') <= Cardinality(LetThrough(s))
  BY <1>1, FS_Subset, FS_CardinalityType
<1>3. attemptCount[s] \in Nat /\ MaxAttempts \in Nat
  BY RegistryAssumption DEF AttemptsCounted
<1> QED
  BY <1>1, <1>2, <1>3 DEF AttemptsCounted

(* CanRemediate lets a caller through only below the cap, and an attempt   *)
(* counts one caller off (Execute); no other step lets one through.        *)
LEMMA AttemptsCountedStep ==
    ASSUME AttemptsCounted, [RegistryNext]_registryVars
    PROVE  AttemptsCounted'
<1>0. /\ pc \in [Callers -> Steps] /\ todo = [c \in Callers |-> todo[c]]
      /\ attemptCount \in [StrategyTypes -> Nat]
  BY DEF AttemptsCounted
<1>1. ASSUME NEW c \in Callers, NEW next \in Steps, Goto(c, next), next # "running",
             UNCHANGED <<todo, attemptCount>>
      PROVE  AttemptsCounted'
  <2>1. pc' \in [Callers -> Steps] /\ todo' = [k \in Callers |-> todo'[k]]
    BY <1>0, <1>1 DEF Goto
  <2>2. \A s \in StrategyTypes : LetThrough(s)' \subseteq LetThrough(s)
    BY <1>0, <1>1 DEF Goto, LetThrough, Strategy
  <2> QED
    BY <1>0, <1>1, <2>1, <2>2, FewerLetThrough
<1>2. ASSUME NEW c \in Callers, CanRemediate(c)
      PROVE  AttemptsCounted'
  <2>1. CASE /\ attemptCount[Strategy(c)] < MaxAttempts
             /\ Goto(c, "running")
    <3>1. pc' \in [Callers -> Steps] /\ todo' = [k \in Callers |-> todo'[k]]
      BY <1>0, <1>2, <2>1 DEF Goto, CanRemediate, Steps
    <3>2. ASSUME NEW s \in StrategyTypes
          PROVE  attemptCount[s] + Cardinality(LetThrough(s)')
                    <= MaxAttempts + Cardinality(Callers) - 1
      <4>0. attemptCount[s] \in Nat /\ MaxAttempts \in Nat
        BY <1>0, RegistryAssumption
      <4>1. CASE s = Strategy(c)
        <5>1. LetThrough(s)' \subseteq Callers
          BY DEF LetThrough
        <5>2. /\ Cardinality(LetThrough(s)') \in Nat /\ Cardinality(Callers) \in Nat
              /\ Cardinality(LetThrough(s)') <= Cardinality(Callers)
          BY <5>1, RegistryAssumption, FS_Subset, FS_CardinalityType
        <5> QED
          BY <2>1, <4>0, <4>1, <5>2
      <4>2. CASE s # Strategy(c)
        <5>1. LetThrough(s)' = LetThrough(s)
          BY <1>0, <1>2, <2>1, <4>2 DEF LetThrough, Strategy, Goto, CanRemediate
        <5> QED
          BY <5>1 DEF AttemptsCounted
      <4> QED
        BY <4>1, <4>2
    <3> QED
      BY <1>0, <1>2, <3>1, <3>2 DEF AttemptsCounted, CanRemediate, base
  <2>2. CASE Goto(c, "failed")
    BY <1>1, <1>2, <2>2 DEF CanRemediate, base, Steps
  <2> QED
    BY <1>2, <2>1, <2>2 DEF CanRemediate
<1>3. ASSUME NEW c \in Callers, Execute(c)
      PROVE  AttemptsCounted'
  <2>1. CASE cfg.dryRun /\ Goto(c, "succeeded") /\ UNCHANGED base
    BY <1>1, <1>3, <2>1 DEF Execute, base, Steps
  <2>2. ASSUME NEW next \in {"succeeded", "failed"}, Goto(c, next),
               attemptCount' = [attemptCount EXCEPT ![Strategy(c)] = @ + 1]
        PROVE  AttemptsCounted'
    <3>1. /\ pc' \in [Callers -> Steps] /\ todo' = [k \in Callers |-> todo'[k]]
          /\ attemptCount' \in [StrategyTypes -> Nat]
      <4>1. next \in Steps
        BY DEF Steps
      <4>2. pc' \in [Callers -> Steps] /\ todo' = [k \in Callers |-> todo'[k]]
        BY <1>0, <1>3, <2>2, <4>1 DEF Execute, Goto
      <4>3. attemptCount' \in [StrategyTypes -> Nat]
        <5>1. attemptCount' = [s \in StrategyTypes |-> attemptCount'[s]]
          BY <1>0, <2>2
        <5>2. ASSUME NEW s \in StrategyTypes
              PROVE  attemptCount'[s] \in Nat
          <6>1. attemptCount'[s] = IF s = Strategy(c) THEN attemptCount[s] + 1 ELSE attemptCount[s]
            BY <1>0, <2>2
          <6>2. attemptCount[s] \in Nat
            BY <1>0
          <6> QED
            BY <6>1, <6>2
        <5> QED
          BY <5>1, <5>2
      <4> QED
        BY <4>2, <4>3
    <3>2. ASSUME NEW s \in StrategyTypes
          PROVE  attemptCount'[s] + Cardinality(LetThrough(s)')
                    <= MaxAttempts + Cardinality(Callers) - 1
      <4>0. /\ attemptCount[s] \in Nat /\ MaxAttempts \in Nat /\ Cardinality(Callers) \in Nat
            /\ IsFiniteSet(LetThrough(s)) /\ Cardinality(LetThrough(s)) \in Nat
        BY <1>0, RegistryAssumption, LetThroughFinite
      <4>1. LetThrough(s)' = LetThrough(s) \ {c}
        BY <1>0, <1>3, <2>2 DEF Execute, Goto, LetThrough, Strategy
      <4>2. CASE s = Strategy(c)
        <5>1. c \in LetThrough(s)
          BY <1>3, <4>2 DEF Execute, LetThrough
        <5>2. Cardinality(LetThrough(s)') = Cardinality(LetThrough(s)) - 1
          BY <4>0, <4>1, <5>1, FS_RemoveElement
        <5>3. attemptCount'[s] = attemptCount[s] + 1
          BY <1>0, <2>2, <4>2
        <5> QED
          BY <4>0, <5>2, <5>3 DEF AttemptsCounted
      <4>3. CASE s # Strategy(c)
        <5>1. LetThrough(s)' = LetThrough(s)
          BY <4>1, <4>3 DEF LetThrough
        <5>2. attemptCount'[s] = attemptCount[s]
          BY <1>0, <2>2, <4>3
        <5> QED
          BY <5>1, <5>2 DEF AttemptsCounted
      <4> QED
        BY <4>2, <4>3
    <3> QED
      BY <3>1, <3>2 DEF AttemptsCounted
  <2> QED
    BY <1>3, <2>1, <2>2 DEF Execute
<1>4. ASSUME NEW c \in Callers, Remediate(c), ~CanRemediate(c), ~Execute(c)
      PROVE  AttemptsCounted'
  <2>1. CASE Dispatch(c)
    <3>1. pc' \in [Callers -> Steps] /\ todo' = [k \in Callers |-> todo'[k]]
      BY <1>0, <2>1 DEF Dispatch
    <3>2. \A s \in StrategyTypes : LetThrough(s)' \subseteq LetThrough(s)
      BY <1>0, <2>1 DEF Dispatch, LetThrough, Strategy
    <3> QED
      BY <1>0, <2>1, <3>1, <3>2, FewerLetThrough DEF Dispatch, base
  <2>2. CASE RecordRemediation(c)
    <3>1. pc' \in [Callers -> Steps] /\ todo' = [k \in Callers |-> todo'[k]]
      BY <1>0, <2>2 DEF RecordRemediation, Goto, Steps
    <3>2. \A s \in StrategyTypes : LetThrough(s)' \subseteq LetThrough(s)
      BY <1>0, <2>2 DEF RecordRemediation, LetThrough, Strategy, Goto
    <3> QED
      BY <1>0, <2>2, <3>1, <3>2, FewerLetThrough DEF RecordRemediation, base
  <2>3. CASE CheckCircuitBreaker(c)
    BY <1>1, <2>3 DEF CheckCircuitBreaker, base, Steps
  <2>4. CASE CheckLimits(c)
    BY <1>1, <2>4 DEF CheckLimits, base, Steps
  <2>5. CASE AskLease(c)
    BY <1>1, <2>5 DEF AskLease, base, Steps
  <2>6. CASE GetRemediator(c)
    BY <1>1, <2>6 DEF GetRemediator, base, Steps
  <2>7. CASE RecordSuccess(c)
    BY <1>1, <2>7 DEF RecordSuccess, base, Steps
  <2>8. CASE RecordRateLimitEntry(c)
    BY <1>1, <2>8 DEF RecordRateLimitEntry, base, Steps
  <2>9. CASE RecordFailure(c)
    BY <1>1, <2>9 DEF RecordFailure, base, Steps
  <2> QED
    BY <1>4, <2>1, <2>2, <2>3, <2>4, <2>5, <2>6, <2>7, <2>8, <2>9 DEF Remediate
<1>5. CASE UNCHANGED <<pc, todo, attemptCount>>
  BY <1>5 DEF AttemptsCounted, LetThrough, Strategy
<1> QED
  BY <1>2, <1>3, <1>4, <1>5
  DEF RegistryNext, Reconfigure, registryVars, base, callers, ApplyConfig, SetDryRun,
      SetMaxRemediationsPerHour, SetMaxRemediationsPerMinute, SetCircuitBreakerConfig,
      ResetCircuitBreaker, RegistryTick

(* However many callers, strategies and reloads there are, a strategy is   *)
(* never tried more often than its cap, plus one for each caller beyond    *)
(* the first (CanRemediate and Remediate of BaseRemediator).               *)
THEOREM AttemptsCapped == RegistrySpec => []AttemptCapHolds
<1>1. RegistryInit => AttemptsCounted
  <2> SUFFICES ASSUME RegistryInit
               PROVE  AttemptsCounted
    OBVIOUS
  <2>1. \A s \in StrategyTypes : LetThrough(s) = {}
    BY DEF RegistryInit, LetThrough
  <2>2. Cardinality({}) = 0
    BY FS_EmptySet
  <2>3. Cardinality(Callers) \in Nat /\ MaxAttempts \in Nat \ {0}
    BY RegistryAssumption, FS_CardinalityType
  <2>4. \A s \in StrategyTypes :
          attemptCount[s] + Cardinality(LetThrough(s)) <= MaxAttempts + Cardinality(Callers) - 1
    <3> SUFFICES ASSUME NEW s \in StrategyTypes
                 PROVE  attemptCount[s] + Cardinality(LetThrough(s))
                           <= MaxAttempts + Cardinality(Callers) - 1
      OBVIOUS
    <3>1. attemptCount[s] = 0
      BY DEF RegistryInit
    <3>2. Cardinality(LetThrough(s)) = 0
      BY <2>1, <2>2
    <3> QED
      BY <2>3, <3>1, <3>2
  <2> QED
    BY <2>4 DEF AttemptsCounted, RegistryInit, Steps
<1>2. AttemptsCounted => AttemptCapHolds
  <2> SUFFICES ASSUME AttemptsCounted, NEW s \in StrategyTypes
               PROVE  attemptCount[s] <= MaxAttempts + Cardinality(Callers) - 1
    BY DEF AttemptCapHolds
  <2>1. /\ attemptCount[s] \in Nat /\ MaxAttempts \in Nat
        /\ Cardinality(LetThrough(s)) \in Nat /\ Cardinality(Callers) \in Nat
    BY RegistryAssumption, LetThroughFinite DEF AttemptsCounted
  <2> QED
    BY <2>1 DEF AttemptsCounted
<1> QED
  BY <1>1, <1>2, AttemptsCountedStep, PTL DEF RegistrySpec

----------------------------------------------------------------------------
(* The per-hour cap.                                                       *)

(* The largest per-hour cap a reload may set bounds each of them. *)
LEMMA HourLimit == MaxPerHour \in Nat /\ \A c \in Configs : c.perHour \in Nat /\ c.perHour <= MaxPerHour
<1> DEFINE f == [c \in Configs |-> c.perHour]
           S == {c.perHour : c \in Configs}
<1>1. f \in Surjection(Configs, S)
  BY DEF Surjection
<1>2. S \in SUBSET Nat /\ S # {}
  BY RegistryAssumption DEF Config
<1>3. IsFiniteSet(S)
  <2> HIDE DEF f, S
  <2> QED BY <1>1, RegistryAssumption, FS_Surjection
<1>4. Max(S) \in S /\ \A x \in S : Max(S) >= x
  <2> HIDE DEF S
  <2> QED BY <1>2, <1>3, FiniteSetHasMax
<1>5. \A c \in Configs : c.perHour \in S
  OBVIOUS
<1>6. MaxPerHour = Max(S)
  BY DEF MaxPerHour
<1> HIDE DEF S
<1> QED
  BY <1>2, <1>4, <1>5, <1>6

(* How many of some ages are less than a: none below 0, and all that there *)
(* are when none is more.                                                  *)
LEMMA YoungerCounts ==
    ASSUME NEW X, NEW s \in Seq(X), NEW a \in Nat
    PROVE  /\ IsFiniteSet({i \in DOMAIN s : s[i] \in 0 .. a - 1})
           /\ Younger(s, a) \in Nat
           /\ Younger(s, 0) = 0
           /\ (\A i \in DOMAIN s : s[i] \in 0 .. a - 1) => Younger(s, a) = Len(s)
<1> DEFINE n == Len(s)
           P == {i \in DOMAIN s : s[i] \in 0 .. a - 1}
<1>1. n \in Nat /\ DOMAIN s = 1 .. n
  BY LenProperties
<1> HIDE DEF n
<1>2. IsFiniteSet(1 .. n) /\ Cardinality(1 .. n) = n
  BY <1>1, FS_Interval
<1>3. IsFiniteSet(P)
  BY <1>1, <1>2, FS_Subset
<1>4. Younger(s, a) = Cardinality(P)
  BY DEF Younger, HowMany
<1>5. Younger(s, a) \in Nat
  <2> HIDE DEF P
  <2> QED BY <1>3, <1>4, FS_CardinalityType
<1>6. Younger(s, 0) = 0
  <2>1. {i \in DOMAIN s : s[i] \in 0 .. 0 - 1} = {}
    OBVIOUS
  <2> QED
    BY <2>1, FS_EmptySet DEF Younger, HowMany
<1>7. ASSUME \A i \in DOMAIN s : s[i] \in 0 .. a - 1 PROVE Younger(s, a) = n
  <2>1. P = 1 .. n
    BY <1>1, <1>7
  <2> QED
    BY <1>2, <1>4, <2>1
<1> QED
  BY <1>3, <1>5, <1>6, <1>7 DEF n

(* A new entry is younger than anything but 0. *)
LEMMA YoungerAppend ==
    ASSUME NEW X, NEW s \in Seq(X), 0 \in X, NEW a \in Nat \ {0}
    PROVE  Younger(Append(s, 0), a) = Younger(s, a) + 1
<1> DEFINE n == Len(s)
           t == Append(s, 0)
           P == {i \in DOMAIN s : s[i] \in 0 .. a - 1}
           Q == {i \in DOMAIN t : t[i] \in 0 .. a - 1}
<1>1. n \in Nat /\ DOMAIN s = 1 .. n
  BY LenProperties
<1>2. /\ t \in Seq(X) /\ Len(t) = n + 1 /\ DOMAIN t = 1 .. n + 1
      /\ t[n + 1] = 0 /\ \A i \in 1 .. n : t[i] = s[i]
  BY LenProperties, AppendProperties
<1> HIDE DEF n, t
<1>3. n + 1 \notin P /\ 0 \in 0 .. a - 1
  BY <1>1
<1>4. \A i \in 1 .. n + 1 : i = n + 1 \/ i \in 1 .. n
  BY <1>1
<1>5. 1 .. n \subseteq 1 .. n + 1 /\ n + 1 \in 1 .. n + 1
  BY <1>1
<1>6. Q = P \cup {n + 1}
  BY <1>1, <1>2, <1>3, <1>4, <1>5
<1>7. IsFiniteSet(P) /\ Cardinality(P) \in Nat
  BY YoungerCounts DEF Younger, HowMany
<1>8. Cardinality(Q) = Cardinality(P) + 1
  <2> HIDE DEF P, Q
  <2> QED BY <1>3, <1>6, <1>7, FS_AddElement
<1> QED
  BY <1>8 DEF Younger, HowMany, t

(* What left the window was not young. *)
LEMMA YoungerKeep ==
    ASSUME NEW X, NEW s \in Seq(X), NEW a \in 0 .. Window
    PROVE  Younger(Keep(s, 0 .. Window - 1), a) = Younger(s, a)
<1> DEFINE T == 0 .. Window - 1
           U == 0 .. a - 1
           r == Keep(s, T)
<1>1. U \in SUBSET T
  BY RegistryAssumption
<1>2. HowMany(r, U) = HowMany(s, U)
  <2> HIDE DEF T, U
  <2> QED BY <1>1, KeepCounts
<1> QED
  BY <1>2 DEF Younger

(* What is kept is what is younger than the window. *)
LEMMA KeptIsYounger ==
    ASSUME NEW s \in Seq(0 .. Window)
    PROVE  /\ Keep(s, 0 .. Window - 1) \in Seq(0 .. Window)
           /\ Len(Keep(s, 0 .. Window - 1)) \in Nat
           /\ Younger(s, Window) = Len(Keep(s, 0 .. Window - 1))
<1> DEFINE T == 0 .. Window - 1
           r == Keep(s, T)
<1>1. r \in Seq(0 .. Window) /\ \A j \in 1 .. Len(r) : r[j] \in T
  <2> HIDE DEF T
  <2> QED BY KeepElements
<1> HIDE DEF r
<1>2. Len(r) \in Nat /\ DOMAIN r = 1 .. Len(r)
  BY <1>1, LenProperties
<1>3. Window \in Nat /\ Window \in 0 .. Window
  BY RegistryAssumption
<1>4. Younger(r, Window) = Len(r)
  BY <1>1, <1>2, <1>3, YoungerCounts
<1>5. Younger(r, Window) = Younger(s, Window)
  BY <1>3, YoungerKeep DEF r
<1> QED
  BY <1>1, <1>2, <1>4, <1>5 DEF r

(* After a tick, as many are younger than a as were younger than a - 1. *)
LEMMA YoungerTick ==
    ASSUME NEW s, NEW t, DOMAIN t = DOMAIN s, NEW a \in Nat,
           \A i \in DOMAIN s : t[i] \in 0 .. a <=> s[i] \in 0 .. a - 1
    PROVE  Younger(t, a + 1) = Younger(s, a)
<1> DEFINE P == {i \in DOMAIN s : s[i] \in 0 .. a - 1}
           Q == {i \in DOMAIN t : t[i] \in 0 .. a + 1 - 1}
<1>1. 0 .. a + 1 - 1 = 0 .. a
  OBVIOUS
<1>2. Q = P
  BY <1>1
<1>3. Younger(s, a) = Cardinality(P) /\ Younger(t, a + 1) = Cardinality(Q)
  BY DEF Younger, HowMany
<1> HIDE DEF P, Q
<1> QED
  BY <1>2, <1>3

(* How many callers have an entry to come, or due. *)
LEMMA EntriesFinite ==
    /\ IsFiniteSet(EntryToCome) /\ Cardinality(EntryToCome) \in Nat
    /\ IsFiniteSet(EntryDue) /\ Cardinality(EntryDue) \in Nat
    /\ Cardinality(EntryDue) <= Cardinality(EntryToCome)
    /\ Cardinality(EntryToCome) <= Cardinality(Callers) /\ Cardinality(Callers) \in Nat
<1>1. EntryToCome \subseteq Callers /\ EntryDue \subseteq EntryToCome
  BY DEF EntryToCome, EntryDue
<1>2. IsFiniteSet(EntryToCome) /\ Cardinality(EntryToCome) <= Cardinality(Callers)
  BY <1>1, RegistryAssumption, FS_Subset
<1>3. IsFiniteSet(EntryDue) /\ Cardinality(EntryDue) <= Cardinality(EntryToCome)
  BY <1>1, <1>2, FS_Subset
<1> QED
  BY <1>2, <1>3, RegistryAssumption, FS_CardinalityType

(* A caller that moves on without an entry leaves the count right. *)
LEMMA MovesKeepCount ==
    ASSUME SuccessesCounted, pc' \in [Callers -> Steps], UNCHANGED <<times, recent>>,
           cfg'.perHour = cfg.perHour,
           EntryToCome' \subseteq EntryToCome, EntryDue' = EntryDue
    PROVE  SuccessesCounted'
<1>1. /\ Cardinality(EntryToCome) \in Nat /\ Cardinality(EntryToCome') \in Nat
      /\ Cardinality(EntryToCome') <= Cardinality(EntryToCome)
  BY EntriesFinite, FS_Subset, FS_CardinalityType
<1>2. MaxPerHour \in Nat /\ Cardinality(Callers) \in Nat /\ Younger(times, Window) \in Nat
  BY HourLimit, EntriesFinite, YoungerCounts, RegistryAssumption DEF SuccessesCounted
<1>3. Younger(times, Window) + Cardinality(EntryToCome) <= MaxPerHour + Cardinality(Callers) - 1
  BY DEF SuccessesCounted
<1>4. Younger(times, Window) + Cardinality(EntryToCome') <= MaxPerHour + Cardinality(Callers) - 1
  BY <1>1, <1>2, <1>3
<1> QED
  BY <1>4 DEF SuccessesCounted

(* checkRateLimit lets a caller through only while the entries of the      *)
(* window, with one more, are within the cap.                              *)
LEMMA LimitsCounted ==
    ASSUME SuccessesCounted, AlwaysCapped, NEW c \in Callers, CheckLimits(c)
    PROVE  SuccessesCounted'
<1> DEFINE kept == Keep(times, 0 .. Window - 1)
<1>1. /\ times \in Seq(0 .. Window) /\ pc \in [Callers -> Steps]
      /\ \A a \in 0 .. Window : Younger(recent, a) <= Younger(times, a) + Cardinality(EntryDue)
      /\ Younger(times, Window) + Cardinality(EntryToCome) <= MaxPerHour + Cardinality(Callers) - 1
  BY DEF SuccessesCounted
<1>2. cfg.perHour \in Nat \ {0} /\ cfg.perHour <= MaxPerHour
  BY HourLimit DEF SuccessesCounted, AlwaysCapped
<1>3. kept \in Seq(0 .. Window) /\ \A a \in 0 .. Window : Younger(kept, a) = Younger(times, a)
  BY <1>1, KeepPlaces, YoungerKeep
<1>4. /\ pc[c] = "limits" /\ times' = kept /\ recent' = recent /\ cfg' = cfg
      /\ Goto(c, "refused") \/ (Goto(c, "lease") /\ Len(kept) < cfg.perHour)
  BY <1>2 DEF CheckLimits
<1>5. Younger(times, Window) = Len(kept) /\ Len(kept) \in Nat
  BY <1>1, KeptIsYounger
<1> HIDE DEF kept
<1>6. Window \in Nat /\ Window \in 0 .. Window
  BY RegistryAssumption
<1>8. EntryDue' = EntryDue
  BY <1>1, <1>4 DEF EntryDue, Goto
<1>9. pc' \in [Callers -> Steps]
  BY <1>1, <1>4 DEF Goto, Steps
<1>10. Younger(kept, Window) + Cardinality(EntryToCome') <= MaxPerHour + Cardinality(Callers) - 1
  <2>1. CASE Goto(c, "refused")
    <3>1. EntryToCome' = EntryToCome
      BY <1>1, <1>4, <2>1 DEF EntryToCome, Goto
    <3> QED
      BY <1>1, <1>3, <1>6, <3>1
  <2>2. CASE Len(kept) < cfg.perHour
    <3>1. EntryToCome' \subseteq Callers
      BY DEF EntryToCome
    <3>2. /\ Cardinality(EntryToCome') \in Nat /\ Cardinality(Callers) \in Nat
          /\ Cardinality(EntryToCome') <= Cardinality(Callers)
      BY <3>1, RegistryAssumption, FS_Subset, FS_CardinalityType
    <3>3. Len(kept) \in Nat /\ Younger(kept, Window) = Len(kept)
      BY <1>3, <1>5, <1>6
    <3> QED
      BY <1>2, <2>2, <3>2, <3>3, HourLimit
  <2> QED
    BY <1>4, <2>1, <2>2
<1> QED
  BY <1>1, <1>3, <1>4, <1>8, <1>9, <1>10 DEF SuccessesCounted

(* A success has its entry due. *)
LEMMA SuccessCounted ==
    ASSUME SuccessesCounted, NEW c \in Callers, RecordSuccess(c)
    PROVE  SuccessesCounted'
<1>1. /\ times \in Seq(0 .. Window) /\ recent \in Seq(0 .. Window - 1) /\ pc \in [Callers -> Steps]
      /\ \A a \in 0 .. Window : Younger(recent, a) <= Younger(times, a) + Cardinality(EntryDue)
  BY DEF SuccessesCounted
<1>2. /\ pc[c] = "succeeded" /\ times' = times /\ recent' = Append(recent, 0) /\ cfg' = cfg
      /\ Goto(c, "count")
  BY DEF RecordSuccess
<1>3. pc' \in [Callers -> Steps] /\ EntryToCome' = EntryToCome
      /\ EntryDue' = EntryDue \cup {c} /\ c \notin EntryDue
  BY <1>1, <1>2 DEF EntryToCome, EntryDue, Goto, Steps
<1>4. Cardinality(EntryDue') = Cardinality(EntryDue) + 1 /\ Cardinality(EntryDue) \in Nat
  BY <1>3, EntriesFinite, FS_AddElement
<1>5. 0 \in 0 .. Window - 1 /\ Window \in Nat
  BY RegistryAssumption
<1>6. recent' \in Seq(0 .. Window - 1)
  BY <1>1, <1>2, <1>5, AppendProperties
<1>7. ASSUME NEW a \in 0 .. Window
      PROVE  Younger(recent', a) <= Younger(times, a) + Cardinality(EntryDue')
  <2>0. a \in Nat
    BY <1>5
  <2>1. Younger(recent, a) \in Nat /\ Younger(times, a) \in Nat /\ a \in Nat
    BY <1>1, <2>0, YoungerCounts
  <2>2. CASE a = 0
    <3>1. Younger(recent', 0) = 0
      BY <1>6, <2>1, YoungerCounts
    <3> QED
      BY <1>4, <2>1, <2>2, <3>1
  <2>3. CASE a # 0
    <3>1. Younger(recent', a) = Younger(recent, a) + 1
      BY <1>1, <1>2, <1>5, <2>1, <2>3, YoungerAppend
    <3> QED
      BY <1>1, <1>4, <2>1, <3>1
  <2> QED
    BY <2>2, <2>3
<1> QED
  BY <1>1, <1>2, <1>3, <1>6, <1>7 DEF SuccessesCounted

(* recordRateLimitEntry makes the entry that was due. *)
LEMMA EntryCounted ==
    ASSUME SuccessesCounted, AlwaysCapped, NEW c \in Callers, RecordRateLimitEntry(c)
    PROVE  SuccessesCounted'
<1>1. /\ times \in Seq(0 .. Window) /\ recent \in Seq(0 .. Window - 1) /\ pc \in [Callers -> Steps]
      /\ \A a \in 0 .. Window : Younger(recent, a) <= Younger(times, a) + Cardinality(EntryDue)
      /\ Younger(times, Window) + Cardinality(EntryToCome) <= MaxPerHour + Cardinality(Callers) - 1
  BY DEF SuccessesCounted
<1>2. cfg.perHour # 0
  BY HourLimit DEF SuccessesCounted, AlwaysCapped
<1>3. /\ pc[c] = "count" /\ times' = Append(times, 0) /\ recent' = recent /\ cfg' = cfg
      /\ Goto(c, "done")
  BY <1>2 DEF RecordRateLimitEntry
<1>4. /\ pc' \in [Callers -> Steps]
      /\ EntryToCome' = EntryToCome \ {c} /\ c \in EntryToCome
      /\ EntryDue' = EntryDue \ {c} /\ c \in EntryDue
  BY <1>1, <1>3 DEF EntryToCome, EntryDue, Goto, Steps
<1>5. /\ Cardinality(EntryDue') = Cardinality(EntryDue) - 1 /\ Cardinality(EntryDue) \in Nat
      /\ Cardinality(EntryToCome') = Cardinality(EntryToCome) - 1 /\ Cardinality(EntryToCome) \in Nat
      /\ Cardinality(EntryDue') \in Nat
  BY <1>4, EntriesFinite, FS_RemoveElement, FS_CardinalityType
<1>6. 0 \in 0 .. Window /\ Window \in Nat \ {0}
  BY RegistryAssumption
<1>7. times' \in Seq(0 .. Window)
  BY <1>1, <1>3, <1>6, AppendProperties
<1>8. \A a \in Nat \ {0} : Younger(times', a) = Younger(times, a) + 1 /\ Younger(times, a) \in Nat
  BY <1>1, <1>3, <1>6, YoungerAppend, YoungerCounts
<1>9. ASSUME NEW a \in 0 .. Window
      PROVE  Younger(recent, a) <= Younger(times', a) + Cardinality(EntryDue')
  <2>0. a \in Nat
    BY <1>6
  <2>1. Younger(recent, a) \in Nat /\ Younger(times', a) \in Nat /\ a \in Nat
    BY <1>1, <1>7, <2>0, YoungerCounts
  <2>2. CASE a = 0
    <3>1. Younger(recent, 0) = 0
      BY <1>1, <2>1, YoungerCounts
    <3> QED
      BY <1>5, <2>1, <2>2, <3>1
  <2>3. CASE a # 0
    <3>1. Younger(times', a) = Younger(times, a) + 1 /\ Younger(times, a) \in Nat
      BY <1>8, <2>1, <2>3
    <3>2. Younger(recent, a) <= Younger(times, a) + Cardinality(EntryDue)
      BY <1>1
    <3> QED
      BY <1>5, <2>1, <3>1, <3>2
  <2> QED
    BY <2>2, <2>3
<1>10. Younger(times', Window) + Cardinality(EntryToCome') <= MaxPerHour + Cardinality(Callers) - 1
  <2>1. Younger(times', Window) = Younger(times, Window) + 1 /\ Younger(times, Window) \in Nat
    BY <1>6, <1>8
  <2> QED
    BY <1>1, <1>5, <2>1
<1> QED
  BY <1>1, <1>3, <1>4, <1>7, <1>9, <1>10 DEF SuccessesCounted

(* Entries and successes grow old together. *)
LEMMA TickCounted ==
    ASSUME SuccessesCounted, RegistryTick
    PROVE  SuccessesCounted'
<1> DEFINE older == [i \in DOMAIN recent |-> recent[i] + 1]
<1>1. /\ times \in Seq(0 .. Window) /\ recent \in Seq(0 .. Window - 1) /\ pc \in [Callers -> Steps]
      /\ \A a \in 0 .. Window : Younger(recent, a) <= Younger(times, a) + Cardinality(EntryDue)
      /\ Younger(times, Window) + Cardinality(EntryToCome) <= MaxPerHour + Cardinality(Callers) - 1
  BY DEF SuccessesCounted
<1>2. /\ times' = [i \in DOMAIN times |-> AtMost(times[i] + 1, Window)]
      /\ recent' = Keep(older, 0 .. Window - 1)
      /\ cfg' = cfg /\ pc' = pc
  BY DEF RegistryTick, callers
<1>3. Window \in Nat \ {0}
  BY RegistryAssumption
<1>4. /\ Len(times) \in Nat /\ DOMAIN times = 1 .. Len(times)
      /\ \A i \in DOMAIN times : times[i] \in 0 .. Window
  BY <1>1, LenProperties
<1>5. /\ Len(recent) \in Nat /\ DOMAIN recent = 1 .. Len(recent)
      /\ \A i \in DOMAIN recent : recent[i] \in 0 .. Window - 1
  BY <1>1, LenProperties
<1>6. DOMAIN times' = DOMAIN times
      /\ \A i \in DOMAIN times : times'[i] = AtMost(times[i] + 1, Window) /\ times'[i] \in 0 .. Window
  BY <1>2, <1>3, <1>4 DEF AtMost
<1>7. times' \in Seq(0 .. Window)
  <2>1. times' \in [1 .. Len(times) -> 0 .. Window]
    BY <1>2, <1>4, <1>6
  <2> QED
    BY <1>4, <2>1, FunctionIsSeq
<1>8. DOMAIN older = DOMAIN recent /\ \A i \in DOMAIN recent : older[i] = recent[i] + 1
  OBVIOUS
<1>9. older \in Seq(0 .. Window)
  <2>1. older \in [1 .. Len(recent) -> 0 .. Window]
    BY <1>3, <1>5
  <2> HIDE DEF older
  <2> QED
    BY <1>5, <2>1, FunctionIsSeq
<1> HIDE DEF older
<1>10. recent' \in Seq(0 .. Window - 1)
  <2> DEFINE T == 0 .. Window - 1
  <2> HIDE DEF T
  <2>1. Keep(older, T) \in Seq(T)
    BY <1>9, KeepElements
  <2> QED
    BY <1>2, <2>1 DEF T
<1>11. \A a \in 0 .. Window : Younger(recent', a) = Younger(older, a)
  BY <1>2, <1>9, YoungerKeep
<1>12. EntryDue' = EntryDue /\ EntryToCome' = EntryToCome
  BY <1>2 DEF EntryDue, EntryToCome
<1>13. ASSUME NEW a \in 0 .. Window - 1
       PROVE  Younger(times', a + 1) = Younger(times, a) /\ Younger(older, a + 1) = Younger(recent, a)
  <2>1. a \in Nat /\ a < Window
    BY <1>3
  <2>2. \A i \in DOMAIN times : times'[i] \in 0 .. a <=> times[i] \in 0 .. a - 1
    BY <1>3, <1>4, <1>6, <2>1 DEF AtMost
  <2>3. \A i \in DOMAIN recent : older[i] \in 0 .. a <=> recent[i] \in 0 .. a - 1
    BY <1>5, <1>8, <1>3, <2>1
  <2> QED
    BY <1>6, <1>8, <2>1, <2>2, <2>3, YoungerTick
<1>14. ASSUME NEW a \in 0 .. Window
       PROVE  Younger(recent', a) <= Younger(times', a) + Cardinality(EntryDue)
  <2>0. Cardinality(EntryDue) \in Nat /\ a \in Nat
    BY <1>3, EntriesFinite
  <2>1. CASE a = 0
    <3>1. Younger(recent', 0) = 0 /\ Younger(times', 0) = 0
      BY <1>7, <1>10, <2>0, YoungerCounts
    <3> QED
      BY <2>0, <2>1, <3>1
  <2>2. CASE a # 0
    <3>1. a - 1 \in 0 .. Window - 1 /\ a - 1 \in 0 .. Window /\ (a - 1) + 1 = a
      BY <1>3, <2>2
    <3>2. Younger(times', a) = Younger(times, a - 1) /\ Younger(older, a) = Younger(recent, a - 1)
      BY <1>13, <3>1
    <3> QED
      BY <1>1, <1>11, <3>1, <3>2
  <2> QED
    BY <2>1, <2>2
<1>15. Younger(times', Window) + Cardinality(EntryToCome) <= MaxPerHour + Cardinality(Callers) - 1
  <2> DEFINE P == {i \in DOMAIN times : times[i] \in 0 .. Window - 1}
             Q == {i \in DOMAIN times' : times'[i] \in 0 .. Window - 1}
  <2>1. Q \subseteq P
    BY <1>3, <1>4, <1>6 DEF AtMost
  <2>2. IsFiniteSet(P) /\ Cardinality(P) \in Nat
    BY <1>1, <1>3, YoungerCounts DEF Younger, HowMany
  <2>3. Cardinality(Q) <= Cardinality(P) /\ Cardinality(Q) \in Nat
    <3> HIDE DEF P, Q
    <3> QED BY <2>1, <2>2, FS_Subset, FS_CardinalityType
  <2>4. Younger(times, Window) = Cardinality(P) /\ Younger(times', Window) = Cardinality(Q)
    BY DEF Younger, HowMany
  <2> HIDE DEF P, Q
  <2> QED
    BY <1>1, <2>2, <2>3, <2>4, EntriesFinite, HourLimit
<1> QED
  BY <1>1, <1>2, <1>7, <1>10, <1>12, <1>14, <1>15 DEF SuccessesCounted

(* Every step keeps successes and entries together. *)
LEMMA SuccessesCountedStep ==
    ASSUME AlwaysCapped, Settable, SuccessesCounted, [RegistryNext]_registryVars
    PROVE  SuccessesCounted'
<1>0. pc \in [Callers -> Steps]
  BY DEF SuccessesCounted
<1> DEFINE Entering == {"lease", "create", "check", "running", "succeeded", "count"}
<1>1. ASSUME NEW c \in Callers, NEW next \in Steps \ {"count"}, Goto(c, next), pc[c] # "count",
             next \in Entering => pc[c] \in Entering,
             UNCHANGED <<times, recent, cfg>>
      PROVE  SuccessesCounted'
  <2>1. pc' \in [Callers -> Steps]
    BY <1>0, <1>1 DEF Goto
  <2>2. EntryToCome' \subseteq EntryToCome
    BY <1>0, <1>1 DEF Goto, EntryToCome
  <2>3. EntryDue' = EntryDue
    BY <1>0, <1>1 DEF Goto, EntryDue
  <2> QED
    BY <1>1, <2>1, <2>2, <2>3, MovesKeepCount
<1>2. ASSUME UNCHANGED <<pc, times, recent>>, cfg'.perHour \in {c.perHour : c \in Configs}
      PROVE  SuccessesCounted'
  BY <1>2 DEF SuccessesCounted, EntryToCome, EntryDue
<1>3. ASSUME NEW c \in Callers, Remediate(c) PROVE SuccessesCounted'
  <2>1. CASE CheckLimits(c)
    BY <2>1, LimitsCounted
  <2>2. CASE RecordSuccess(c)
    BY <2>2, SuccessCounted
  <2>3. CASE RecordRateLimitEntry(c)
    BY <2>3, EntryCounted
  <2>4. CASE Dispatch(c)
    BY <1>2, <2>4 DEF Dispatch, limits, SuccessesCounted
  <2>5. CASE CheckCircuitBreaker(c)
    BY <1>1, <2>5 DEF CheckCircuitBreaker, limits, Steps
  <2>6. CASE AskLease(c)
    BY <1>1, <2>6 DEF AskLease, limits, Steps
  <2>7. CASE GetRemediator(c)
    BY <1>1, <2>7 DEF GetRemediator, limits, Steps
  <2>8. CASE CanRemediate(c)
    BY <1>1, <2>8 DEF CanRemediate, limits, Steps
  <2>9. CASE Execute(c)
    BY <1>1, <2>9 DEF Execute, limits, Steps
  <2>10. CASE RecordFailure(c)
    BY <1>1, <2>10 DEF RecordFailure, limits, Steps
  <2>11. CASE RecordRemediation(c)
    BY <1>1, <2>11 DEF RecordRemediation, limits, Steps
  <2> QED
    BY <1>3, <2>1, <2>2, <2>3, <2>4, <2>5, <2>6, <2>7, <2>8, <2>9, <2>10, <2>11 DEF Remediate
<1>4. ASSUME applying # <<>>
      PROVE  Head(applying)[2] \in Configs
  <2>1. Head(applying) \in {"dryRun", "perHour", "perMinute", "circuit"} \X Configs
    BY <1>4, HeadTailProperties DEF Settable
  <2> QED
    BY <2>1
<1>5. CASE SetMaxRemediationsPerHour
  <2>1. cfg'.perHour = Head(applying)[2].perHour /\ applying # <<>>
    BY <1>5 DEF SetMaxRemediationsPerHour, Settable, Config
  <2>2. cfg'.perHour \in {c.perHour : c \in Configs}
    BY <1>4, <2>1
  <2> QED
    BY <1>2, <1>5, <2>2 DEF SetMaxRemediationsPerHour, limits, callers
<1>6. CASE SetDryRun \/ SetMaxRemediationsPerMinute \/ SetCircuitBreakerConfig
  <2>1. cfg'.perHour = cfg.perHour
    BY <1>6 DEF SetDryRun, SetMaxRemediationsPerMinute, SetCircuitBreakerConfig, Settable, Config
  <2>2. cfg'.perHour \in {c.perHour : c \in Configs}
    BY <2>1 DEF SuccessesCounted
  <2> QED
    BY <1>2, <1>6, <2>2
    DEF SetDryRun, SetMaxRemediationsPerMinute, SetCircuitBreakerConfig, limits, callers
<1>7. ASSUME NEW new \in Configs, ApplyConfig(new) PROVE SuccessesCounted'
  BY <1>2, <1>7 DEF ApplyConfig, limits, callers, SuccessesCounted
<1>8. CASE ResetCircuitBreaker
  BY <1>2, <1>8 DEF ResetCircuitBreaker, limits, callers, SuccessesCounted
<1>9. CASE RegistryTick
  BY <1>9, TickCounted
<1>10. CASE UNCHANGED registryVars
  BY <1>2, <1>10 DEF registryVars, limits, callers, SuccessesCounted
<1> QED
  BY <1>3, <1>5, <1>6, <1>7, <1>8, <1>9, <1>10 DEF RegistryNext, Reconfigure

(* At first nothing was done. *)
LEMMA NothingCountedAtFirst ==
    ASSUME RegistryInit, AlwaysCapped
    PROVE  SuccessesCounted
<1>1. times = <<>> /\ recent = <<>> /\ cfg \in Configs /\ pc = [c \in Callers |-> "idle"]
  BY DEF RegistryInit
<1>2. times \in Seq(0 .. Window) /\ recent \in Seq(0 .. Window - 1) /\ DOMAIN times = {}
      /\ DOMAIN recent = {}
  BY <1>1
<1>3. EntryToCome = {} /\ EntryDue = {}
  BY <1>1 DEF EntryToCome, EntryDue
<1>4. Cardinality({}) = 0
  BY FS_EmptySet
<1>5. \A a \in 0 .. Window : Younger(times, a) = 0 /\ Younger(recent, a) = 0
  <2>1. \A a \in 0 .. Window : /\ {i \in DOMAIN times : times[i] \in 0 .. a - 1} = {}
                               /\ {i \in DOMAIN recent : recent[i] \in 0 .. a - 1} = {}
    BY <1>2
  <2> QED
    BY <1>4, <2>1 DEF Younger, HowMany
<1>6. MaxPerHour >= 1 /\ MaxPerHour \in Nat /\ Cardinality(Callers) \in Nat
      /\ Window \in 0 .. Window
  BY <1>1, HourLimit, EntriesFinite, RegistryAssumption DEF AlwaysCapped
<1>7. pc \in [Callers -> Steps] /\ cfg.perHour \in {c.perHour : c \in Configs}
  BY <1>1 DEF Steps
<1> QED
  BY <1>2, <1>3, <1>4, <1>5, <1>6, <1>7 DEF SuccessesCounted

(* However many callers there are, and whatever caps reloads set while     *)
(* they run, the successes of any hour exceed the largest cap by at most   *)
(* one for each caller beyond the first (checkRateLimit and                *)
(* recordRateLimitEntry).                                                  *)
THEOREM HourlyCapKept == RegistrySpec => []HourlyCapHolds
<1> DEFINE Counted == AlwaysCapped => SuccessesCounted
<1>1. RegistryInit => Counted /\ Settable
  BY NothingCountedAtFirst, RegistryAssumption DEF RegistryInit, Settable
<1>2. Counted /\ Settable /\ [RegistryNext]_registryVars => Counted'
  BY SuccessesCountedStep DEF AlwaysCapped
<1>3. Counted => HourlyCapHolds
  <2> SUFFICES ASSUME AlwaysCapped, SuccessesCounted
               PROVE  Len(recent) <= MaxPerHour + Cardinality(Callers) - 1
    BY DEF HourlyCapHolds
  <2>1. /\ recent \in Seq(0 .. Window - 1) /\ times \in Seq(0 .. Window)
        /\ Window \in Nat /\ Window \in 0 .. Window
    BY RegistryAssumption DEF SuccessesCounted
  <2>2. \A i \in DOMAIN recent : recent[i] \in 0 .. Window - 1
    BY <2>1, LenProperties
  <2>3. Younger(recent, Window) = Len(recent) /\ Len(recent) \in Nat
    BY <2>1, <2>2, YoungerCounts, LenProperties
  <2>4. Younger(times, Window) \in Nat
    BY <2>1, YoungerCounts
  <2>5. /\ Younger(recent, Window) <= Younger(times, Window) + Cardinality(EntryDue)
        /\ Younger(times, Window) + Cardinality(EntryToCome) <= MaxPerHour + Cardinality(Callers) - 1
    BY <2>1 DEF SuccessesCounted
  <2> QED
    BY <2>3, <2>4, <2>5, EntriesFinite, HourLimit
<1> QED
  BY <1>1, <1>2, <1>3, SettableStep, PTL DEF RegistrySpec

(* With the one goroutine that calls the registry, a remediation is let    *)
(* through only while fewer than the cap then in force have succeeded      *)
(* within the hour, those from before a reload included (checkRateLimit    *)
(* and SetMaxRemediationsPerHour).                                         *)
THEOREM LoweredCapHolds ==
    ASSUME Cardinality(Callers) = 1, AlwaysCapped
    PROVE  RegistrySpec => LoweredCapCountsPast
<1>1. ASSUME SuccessesCounted, RegistryNext, NEW c \in Callers,
             pc[c] = "limits", pc'[c] = "lease"
      PROVE  Len(recent) < cfg.perHour
  <2>1. CheckLimits(c)
    <3>1. pc \in [Callers -> Steps]
      BY <1>1 DEF SuccessesCounted
    <3>2. ASSUME NEW d \in Callers, Remediate(d), ~CheckLimits(c) PROVE FALSE
      <4>1. CASE d # c
        BY <1>1, <3>1, <3>2, <4>1
        DEF Remediate, Dispatch, CheckCircuitBreaker, CheckLimits, AskLease, GetRemediator,
            CanRemediate, Execute, RecordSuccess, RecordRateLimitEntry, RecordFailure,
            RecordRemediation, Goto
      <4>2. CASE d = c
        BY <1>1, <3>1, <3>2, <4>2
        DEF Remediate, Dispatch, CheckCircuitBreaker, AskLease, GetRemediator,
            CanRemediate, Execute, RecordSuccess, RecordRateLimitEntry, RecordFailure,
            RecordRemediation
      <4> QED
        BY <4>1, <4>2
    <3>3. pc' # pc
      BY <1>1
    <3> QED
      BY <1>1, <3>2, <3>3
      DEF RegistryNext, Reconfigure, ApplyConfig, SetDryRun, SetMaxRemediationsPerHour,
          SetMaxRemediationsPerMinute, SetCircuitBreakerConfig, ResetCircuitBreaker,
          RegistryTick, callers
  <2> DEFINE kept == Keep(times, 0 .. Window - 1)
  <2>2. /\ recent \in Seq(0 .. Window - 1) /\ times \in Seq(0 .. Window)
        /\ Window \in Nat /\ Window \in 0 .. Window
    BY <1>1, RegistryAssumption DEF SuccessesCounted
  <2>3. cfg.perHour \in Nat \ {0}
    BY <1>1, HourLimit DEF SuccessesCounted, AlwaysCapped
  <2>4. Len(kept) < cfg.perHour
    BY <1>1, <2>1, <2>3 DEF CheckLimits, Goto, SuccessesCounted
  <2>5. Younger(times, Window) = Len(kept)
    BY <2>2, KeptIsYounger
  <2>6. \A i \in DOMAIN recent : recent[i] \in 0 .. Window - 1
    BY <2>2, LenProperties
  <2>7. Younger(recent, Window) = Len(recent) /\ Len(recent) \in Nat
    BY <2>2, <2>6, YoungerCounts, LenProperties
  <2>8. EntryDue = {}
    <3>1. Callers = {c}
      BY RegistryAssumption, FS_Singleton
    <3> QED
      BY <1>1, <3>1 DEF EntryDue
  <2>9. Younger(recent, Window) <= Younger(times, Window) + 0
    BY <1>1, <2>2, <2>8, FS_EmptySet DEF SuccessesCounted
  <2>10. Len(kept) \in Nat
    BY <2>2, KeptIsYounger
  <2> HIDE DEF kept
  <2> QED
    BY <2>3, <2>4, <2>5, <2>7, <2>9, <2>10
<1>2. RegistryInit => SuccessesCounted /\ Settable
  BY NothingCountedAtFirst, RegistryAssumption DEF RegistryInit, Settable
<1>3. SuccessesCounted /\ Settable /\ [RegistryNext]_registryVars => SuccessesCounted'
  BY SuccessesCountedStep
<1> DEFINE A == \A c \in Callers : (pc[c] = "limits" /\ pc'[c] = "lease" /\ cfg.perHour > 0)
                                     => Len(recent) < cfg.perHour
<1>4. SuccessesCounted /\ [RegistryNext]_registryVars => [A]_registryVars
  BY <1>1
<1> QED
  BY <1>2, <1>3, <1>4, SettableStep, PTL DEF RegistrySpec, LoweredCapCountsPast
=============================================================================
