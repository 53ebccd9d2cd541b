-------------------------- MODULE Detector_proofs --------------------------
(***************************************************************************)
(* Proofs about the detector's configuration: the reload as the watcher,   *)
(* the coordinator and applyConfigReload run it (ConfigReload), and what   *)
(* becomes of the file (ConfigLoading).                                    *)
(***************************************************************************)
EXTENDS ConfigReload, ConfigLoading, FiniteSetTheorems, SequenceTheorems, TLAPS

----------------------------------------------------------------------------
(* Startup makes at most one configuration of a file (LoadConfig and       *)
(* normalizeConfig are functions of the file and the flags).               *)
LEMMA StartedOnce ==
  ASSUME NEW f, NEW b \in Started(f), NEW c \in Started(f)
  PROVE  b = c
<1>1. \A g \in LoadConfig(f) : g = ApplyDefaults(f)
  BY DEF LoadConfig
<1> QED
  BY <1>1 DEF Started

(* What a process is bound to is the same list of settings whatever the    *)
(* configuration says (ReloadabilityReport).                               *)
LEMMA IdentityFields ==
  \A c : DOMAIN Identity(c) = {"nodeName", "logOutput", "logFile", "profiling", "coordination"}
BY DEF Identity

(* A difference to the configuration the agent started with was there      *)
(* before the reload, or is one between the two configurations             *)
(* ClassifyReload compares.                                                *)
LEMMA DifferencesAdd ==
  ASSUME NEW b, NEW old, NEW c, NEW said,
         \A f \in DOMAIN Identity(b) : Identity(b)[f] # Identity(old)[f] => f \in said,
         BuiltParts(old) \ BuiltParts(b) \subseteq said
  PROVE  /\ \A f \in DOMAIN Identity(b) :
              Identity(b)[f] # Identity(c)[f] => f \in said \cup ClassifyReload(old, c)
         /\ BuiltParts(c) \ BuiltParts(b) \subseteq said \cup ClassifyReload(old, c)
<1>1. ASSUME NEW f \in DOMAIN Identity(b), Identity(b)[f] # Identity(c)[f]
      PROVE  f \in said \cup ClassifyReload(old, c)
  <2>1. f \in DOMAIN Identity(old)
    BY IdentityFields
  <2> QED
    BY <1>1, <2>1 DEF ClassifyReload
<1>2. BuiltParts(c) \ BuiltParts(b) \subseteq said \cup ClassifyReload(old, c)
  BY DEF ClassifyReload
<1> QED
  BY <1>1, <1>2

(* Over any sequence of edits, restarts and reloads, failed ones too, what *)
(* the running process cannot follow was reported to need a restart        *)
(* (ClassifyReload in pkg/reload/reloadability.go).                        *)
THEOREM RestartsReported == LoadingSpec => []StaleIsReported
<1>1. LoadingInit => StaleIsReported
  BY DEF LoadingInit, StaleIsReported
<1>2. StaleIsReported /\ [LoadingNext]_loadingVars => StaleIsReported'
  <2> SUFFICES ASSUME StaleIsReported, [LoadingNext]_loadingVars
               PROVE  StaleIsReported'
    OBVIOUS
  <2>1. CASE StartAgent
    <3> SUFFICES ASSUME NEW b \in booted', NEW c \in live'
                 PROVE  /\ \A f \in DOMAIN Identity(b) : Identity(b)[f] # Identity(c)[f] => f \in reported'
                        /\ BuiltParts(c) \ BuiltParts(b) \subseteq reported'
      BY DEF StaleIsReported
    <3>1. b \in Started(disk) /\ c \in Started(disk)
      BY <2>1 DEF StartAgent
    <3>2. b = c
      BY <3>1, StartedOnce
    <3> QED
      BY <3>2
  <2>2. CASE StopAgent
    BY <2>2 DEF StopAgent, StaleIsReported
  <2>3. CASE EditConfigFile
    BY <2>3 DEF EditConfigFile, StaleIsReported
  <2>4. CASE ReloadFromDisk
    <3> PICK old \in live, c \in Reloaded(disk) :
               /\ reported' = reported \cup ClassifyReload(old, c)
               /\ \/ live' = {c} /\ source' = {disk}
                  \/ HasChanges(old, c) /\ UNCHANGED <<live, source>>
      BY <2>4 DEF ReloadFromDisk
    <3>1. booted' = booted
      BY <2>4 DEF ReloadFromDisk
    <3>2. CASE live' = live
      BY <3>1, <3>2 DEF StaleIsReported
    <3>3. CASE live' = {c}
      <4> SUFFICES ASSUME NEW b \in booted
                   PROVE  /\ \A f \in DOMAIN Identity(b) : Identity(b)[f] # Identity(c)[f] => f \in reported'
                          /\ BuiltParts(c) \ BuiltParts(b) \subseteq reported'
        BY <3>1, <3>3 DEF StaleIsReported
      <4>1. /\ \A f \in DOMAIN Identity(b) : Identity(b)[f] # Identity(old)[f] => f \in reported
            /\ BuiltParts(old) \ BuiltParts(b) \subseteq reported
        BY DEF StaleIsReported
      <4> QED
        BY <4>1, DifferencesAdd
    <3> QED
      BY <3>2, <3>3
  <2>5. CASE UNCHANGED loadingVars
    BY <2>5 DEF loadingVars, StaleIsReported
  <2> QED
    BY <2>1, <2>2, <2>3, <2>4, <2>5 DEF LoadingNext
<1> QED
  BY <1>1, <1>2, PTL DEF LoadingSpec

----------------------------------------------------------------------------
(* The settings of remediations are among the steps of a reload as soon as *)
(* they differ (compareRemediation in diff.go).                            *)
LEMMA RemediationIsAStep ==
  ASSUME NEW old, NEW c, old.remediation # c.remediation
  PROVE  <<"remediation", NoName>> \in ComputeConfigDiff(old, c)
BY DEF ComputeConfigDiff

(* While a reload is applied, a wired registry has the new settings or the *)
(* step that gives it them is still to come: no step of applyConfigReload  *)
(* that fails takes it away.                                               *)
LEMMA KillSwitchKept == ReloadSpec => []KillSwitchPending
<1>1. ReloadInit => KillSwitchPending
  BY DEF ReloadInit, KillSwitchPending
<1>2. KillSwitchPending /\ [ReloadNext]_reloadVars => KillSwitchPending'
  <2> SUFFICES ASSUME KillSwitchPending, [ReloadNext]_reloadVars
               PROVE  KillSwitchPending'
    OBVIOUS
  <2> USE DEF KillSwitchPending, reload, apply
  <2>1. ASSUME NEW c \in FileContents, WriteConfig(c)  PROVE KillSwitchPending'
    BY <2>1 DEF WriteConfig
  <2>2. CASE DebounceFires
    BY <2>2 DEF DebounceFires
  <2>3. CASE TriggerReload
    BY <2>3 DEF TriggerReload
  <2>4. CASE PerformReload
    <3>1. watcher' # "apply"
      BY <2>4 DEF PerformReload
    <3> QED
      BY <3>1
  <2>5. CASE HandleConfigReload
    <3>1. CASE phase = "running"
      <4>1. steps' = ComputeConfigDiff(current, new) /\ UNCHANGED <<current, new>>
        BY <2>5, <3>1 DEF HandleConfigReload
      <4> QED
        BY <4>1, RemediationIsAStep
    <3>2. CASE phase # "running"
      BY <2>5, <3>2 DEF HandleConfigReload
    <3> QED
      BY <3>1, <3>2
  <2>6. ASSUME NEW m \in Names, NEW op \in {"remove", "modify", "add"}, Doing(op, m),
               UNCHANGED <<executor, registry>>
        PROVE  KillSwitchPending'
    BY <2>6 DEF Doing
  <2>7. ASSUME NEW m \in Names, StopRemoved(m) \/ RestartModified(m) \/ StartAdded(m)
        PROVE  KillSwitchPending'
    BY <2>6, <2>7 DEF StopRemoved, RestartModified, StartAdded
  <2>8. CASE ReloadExporters
    BY <2>8 DEF ReloadExporters, Doing
  <2>9. CASE ApplyRemediation
    BY <2>9 DEF ApplyRemediation, Doing
  <2>10. CASE ReloadPartialFailure
    BY <2>10 DEF ReloadPartialFailure
  <2>11. CASE Commit
    BY <2>11 DEF Commit
  <2>12. CASE BeginStop \/ CloseStatusChan \/ WatcherExits
    BY <2>12 DEF BeginStop, CloseStatusChan, WatcherExits
  <2>13. CASE UNCHANGED reloadVars
    BY <2>13 DEF reloadVars
  <2> QED
    BY <2>1, <2>2, <2>3, <2>4, <2>5, <2>7, <2>8, <2>9, <2>10, <2>11, <2>12, <2>13
    DEF ReloadNext, ReloadStep
<1> QED
  BY <1>1, <1>2, PTL DEF ReloadSpec

(* A reload that was to change the settings of remediations has given them *)
(* to the registry, if one was wired, when it ends, with a critical error  *)
(* or without (step 4b of applyConfigReload).                              *)
THEOREM KillSwitchApplied == ReloadSpec => KillSwitchLands
<1>1. KillSwitchPending /\ [ReloadNext]_reloadVars
        => [(/\ watcher = "apply" /\ watcher' = "idle"
             /\ executor = "registry" /\ new.remediation # current.remediation)
               => registry' = new.remediation]_reloadVars
  <2> SUFFICES ASSUME KillSwitchPending, ReloadNext, watcher = "apply", watcher' = "idle",
                      executor = "registry", new.remediation # current.remediation
               PROVE  registry' = new.remediation
    OBVIOUS
  <2>1. ASSUME NEW op, NEW m, Doing(op, m)  PROVE FALSE
    BY <2>1 DEF Doing
  <2>2. ReloadPartialFailure \/ Commit
    BY <2>1 DEF ReloadNext, ReloadStep, WriteConfig, DebounceFires, TriggerReload, PerformReload,
       HandleConfigReload, StopRemoved, RestartModified, StartAdded, ReloadExporters,
       ApplyRemediation, BeginStop, CloseStatusChan, WatcherExits, reload
  <2>3. steps = {} /\ registry' = registry
    BY <2>2 DEF ReloadPartialFailure, Commit, apply
  <2> QED
    BY <2>3 DEF KillSwitchPending
<1> QED
  BY <1>1, KillSwitchKept, PTL DEF ReloadSpec, KillSwitchLands

----------------------------------------------------------------------------
(* A set written as a sequence: every member, once. *)
LEMMA SetAsSequence ==
  ASSUME NEW S, IsFiniteSet(S)
  PROVE  /\ SetToSeq(S) \in Seq(S)
         /\ \A x \in S : \E i \in DOMAIN SetToSeq(S) : SetToSeq(S)[i] = x
         /\ \A i, j \in DOMAIN SetToSeq(S) : SetToSeq(S)[i] = SetToSeq(S)[j] => i = j
<1> DEFINE n == Cardinality(S)
           f == SetToSeq(S)
<1>1. n \in Nat /\ ExistsBijection(1 .. n, S)
  BY FS_CardinalityType
<1>2. PICK g \in Bijection(1 .. n, S) : TRUE
  BY <1>1 DEF ExistsBijection
<1>3. g \in [1 .. n -> S] /\ IsInjective(g)
  BY <1>2 DEF Bijection, Injection
<1>4. f \in [1 .. n -> S] /\ IsInjective(f)
  BY <1>3 DEF SetToSeq
<1>5. IsFiniteSet(1 .. n) /\ Cardinality(1 .. n) = n
  BY <1>1, FS_Interval
<1>6. f \in Injection(1 .. n, S)
  BY <1>4 DEF Injection
<1>7. f \in Surjection(1 .. n, S)
  BY <1>5, <1>6, FS_Injection
<1>8. f \in Seq(S)
  BY <1>1, <1>4, IsASeq
<1> QED
  BY <1>4, <1>7, <1>8 DEF Surjection, IsInjective

(* What taking one element out of a sequence leaves (the append of the two *)
(* halves in stopMonitorByName).                                           *)
LEMMA Removed ==
  ASSUME NEW S, NEW s \in Seq(S), NEW i \in DOMAIN s
  PROVE  /\ RemoveAt(s, i) \in Seq(S)
         /\ Len(RemoveAt(s, i)) = Len(s) - 1
         /\ \A j \in 1 .. Len(s) - 1 : RemoveAt(s, i)[j] = IF j < i THEN s[j] ELSE s[j + 1]
<1> DEFINE a == SubSeq(s, 1, i - 1)
           b == SubSeq(s, i + 1, Len(s))
<1>1. i \in 1 .. Len(s) /\ Len(s) \in Nat /\ \A j \in 1 .. Len(s) : s[j] \in S
  BY LenProperties, ElementOfSeq
<1>2. /\ a \in Seq(S) /\ Len(a) = i - 1
      /\ \A j \in 1 .. i - 1 : a[j] = s[j]
  <2>1. \A j \in 1 .. i - 1 : s[j] \in S
    BY <1>1
  <2>2. i - 1 \in Int /\ 1 \in Int
    BY <1>1
  <2>3. /\ a \in Seq(S)
        /\ Len(a) = IF 1 <= i - 1 THEN (i - 1) - 1 + 1 ELSE 0
        /\ \A j \in 1 .. (i - 1) - 1 + 1 : a[j] = s[1 + j - 1]
    BY <2>1, <2>2, SubSeqProperties
  <2> QED
    BY <1>1, <2>3
<1>3. /\ b \in Seq(S) /\ Len(b) = Len(s) - i
      /\ \A j \in 1 .. Len(s) - i : b[j] = s[i + j]
  <2>1. \A j \in i + 1 .. Len(s) : s[j] \in S
    BY <1>1
  <2>2. i + 1 \in Int /\ Len(s) \in Int
    BY <1>1
  <2>3. /\ b \in Seq(S)
        /\ Len(b) = IF i + 1 <= Len(s) THEN Len(s) - (i + 1) + 1 ELSE 0
        /\ \A j \in 1 .. Len(s) - (i + 1) + 1 : b[j] = s[(i + 1) + j - 1]
    BY <2>1, <2>2, SubSeqProperties
  <2> QED
    BY <1>1, <2>3
<1>4. /\ a \o b \in Seq(S)
      /\ Len(a \o b) = Len(a) + Len(b)
      /\ \A j \in 1 .. Len(a) + Len(b) : (a \o b)[j] = IF j <= Len(a) THEN a[j] ELSE b[j - Len(a)]
  BY <1>2, <1>3, ConcatProperties
<1>5. RemoveAt(s, i) = a \o b
  BY DEF RemoveAt
<1> HIDE DEF a, b
<1>6. ASSUME NEW j \in 1 .. Len(s) - 1
      PROVE  RemoveAt(s, i)[j] = IF j < i THEN s[j] ELSE s[j + 1]
  <2>1. CASE j < i
    BY SMTT(30), <1>1, <1>2, <1>3, <1>4, <1>5, <2>1
  <2>2. CASE ~(j < i)
    <3>1. j - (i - 1) \in 1 .. Len(s) - i /\ i + (j - (i - 1)) = j + 1
      BY <1>1, <2>2
    <3>2. b[j - (i - 1)] = s[j + 1]
      BY <1>3, <3>1
    <3>3. j \in 1 .. Len(a) + Len(b) /\ ~(j <= Len(a)) /\ Len(a) = i - 1
      BY <1>1, <1>2, <1>3, <2>2
    <3>4. (a \o b)[j] = b[j - (i - 1)]
      BY <1>4, <3>3
    <3> QED
      BY <1>5, <2>2, <3>2, <3>4
  <2> QED
    BY <2>1, <2>2
<1>7. Len(RemoveAt(s, i)) = Len(s) - 1
  BY SMTT(30), <1>1, <1>2, <1>3, <1>4, <1>5
<1> QED
  BY <1>4, <1>5, <1>6, <1>7

(* Stopping a monitor takes its one handle and its entry of the index      *)
(* together (stopMonitorByName).                                           *)
LEMMA StoppedFits ==
  ASSUME NEW hs, NEW ix, OneHandleEach(hs, ix), NEW i \in DOMAIN hs
  PROVE  OneHandleEach(RemoveAt(hs, i), [k \in DOMAIN ix \ {hs[i].name} |-> ix[k]])
<1> DEFINE rs == RemoveAt(hs, i)
           rx == [k \in DOMAIN ix \ {hs[i].name} |-> ix[k]]
           At(j) == IF j < i THEN j ELSE j + 1
<1>1. hs \in Seq(Handle) /\ DOMAIN hs = 1 .. Len(hs) /\ Len(hs) \in Nat
  BY LenProperties DEF OneHandleEach
<1>2. /\ rs \in Seq(Handle)
      /\ Len(rs) = Len(hs) - 1
      /\ \A j \in 1 .. Len(hs) - 1 : rs[j] = IF j < i THEN hs[j] ELSE hs[j + 1]
  BY <1>1, Removed
<1>3. DOMAIN rs = 1 .. Len(hs) - 1
  BY <1>2, LenProperties
<1>4. \A j \in DOMAIN rs : At(j) \in DOMAIN hs /\ At(j) # i /\ rs[j] = hs[At(j)]
  BY <1>1, <1>2, <1>3
<1>5. \A j, k \in DOMAIN rs : At(j) = At(k) => j = k
  BY <1>1, <1>3
<1>6. ASSUME NEW k \in DOMAIN hs, k # i  PROVE \E j \in DOMAIN rs : At(j) = k
  <2>1. CASE k < i
    BY <1>1, <1>3, <1>6, <2>1
  <2>2. CASE k > i
    <3>1. k - 1 \in DOMAIN rs /\ At(k - 1) = k
      BY <1>1, <1>3, <2>2
    <3> QED
      BY <3>1
  <2> QED
    BY <1>1, <1>6, <2>1, <2>2
<1> HIDE DEF rs, At
<1>7. rx \in [DOMAIN rx -> Settings] /\ DOMAIN rx \subseteq Names
  BY DEF OneHandleEach
<1>8. ASSUME NEW j \in DOMAIN rs  PROVE rs[j].name \in DOMAIN rx /\ rs[j].setting = rx[rs[j].name]
  BY <1>4 DEF OneHandleEach
<1>9. ASSUME NEW m \in DOMAIN rx  PROVE \E j \in DOMAIN rs : rs[j].name = m
  <2>1. PICK k \in DOMAIN hs : hs[k].name = m
    BY DEF OneHandleEach
  <2>2. k # i
    BY <2>1
  <2> QED
    BY <1>4, <1>6, <2>1, <2>2
<1>10. ASSUME NEW j \in DOMAIN rs, NEW k \in DOMAIN rs, rs[j].name = rs[k].name  PROVE j = k
  <2>1. At(j) = At(k)
    BY <1>4, <1>10 DEF OneHandleEach
  <2> QED
    BY <1>5, <2>1
<1>11. OneHandleEach(rs, rx)
  BY <1>2, <1>7, <1>8, <1>9, <1>10 DEF OneHandleEach
<1> QED
  BY <1>11 DEF rs

(* Starting a monitor that does not run adds its handle and its entry of   *)
(* the index together (applyConfigReload, steps 2 and 3).                  *)
LEMMA StartedFits ==
  ASSUME NEW hs, NEW ix, OneHandleEach(hs, ix), NEW m \in Names \ DOMAIN ix, NEW s \in Settings
  PROVE  OneHandleEach(Append(hs, [name |-> m, setting |-> s]),
                       [k \in DOMAIN ix \cup {m} |-> IF k = m THEN s ELSE ix[k]])
<1> DEFINE h  == [name |-> m, setting |-> s]
           as == Append(hs, h)
           ax == [k \in DOMAIN ix \cup {m} |-> IF k = m THEN s ELSE ix[k]]
<1>1. hs \in Seq(Handle) /\ DOMAIN hs = 1 .. Len(hs) /\ Len(hs) \in Nat
  BY LenProperties DEF OneHandleEach
<1>2. h \in Handle /\ h.name = m /\ h.setting = s
  BY DEF Handle
<1> HIDE DEF h
<1>3. /\ as \in Seq(Handle)
      /\ Len(as) = Len(hs) + 1
      /\ \A i \in 1 .. Len(hs) : as[i] = hs[i]
      /\ as[Len(hs) + 1] = h
  BY <1>1, <1>2, AppendProperties
<1> HIDE DEF as
<1>4. DOMAIN as = 1 .. Len(hs) + 1
  BY <1>3, LenProperties
<1>5. \A i \in DOMAIN as : (i \in DOMAIN hs /\ as[i] = hs[i]) \/ (i = Len(hs) + 1 /\ as[i] = h)
  <2> SUFFICES ASSUME NEW i \in 1 .. Len(hs) + 1
               PROVE  (i \in 1 .. Len(hs) /\ as[i] = hs[i]) \/ (i = Len(hs) + 1 /\ as[i] = h)
    BY <1>1, <1>4
  <2>1. i \in 1 .. Len(hs) \/ i = Len(hs) + 1
    BY <1>1
  <2> QED
    BY <1>3, <2>1
<1>6. DOMAIN hs \subseteq DOMAIN as /\ Len(hs) + 1 \in DOMAIN as
  BY <1>1, <1>4
<1>7. ax \in [DOMAIN ax -> Settings] /\ DOMAIN ax \subseteq Names
  BY DEF OneHandleEach
<1>8. ASSUME NEW i \in DOMAIN as  PROVE as[i].name \in DOMAIN ax /\ as[i].setting = ax[as[i].name]
  <2>1. CASE i \in DOMAIN hs /\ as[i] = hs[i]
    BY <2>1 DEF OneHandleEach
  <2>2. CASE as[i] = h
    BY <1>2, <2>2
  <2> QED
    BY <1>5, <2>1, <2>2
<1>9. ASSUME NEW k \in DOMAIN ax  PROVE \E i \in DOMAIN as : as[i].name = k
  <2>1. CASE k = m
    BY <1>2, <1>3, <1>6, <2>1
  <2>2. CASE k \in DOMAIN ix
    BY <1>1, <1>3, <1>6, <2>2 DEF OneHandleEach
  <2> QED
    BY <2>1, <2>2
<1>10. ASSUME NEW i \in DOMAIN as, NEW j \in DOMAIN as, as[i].name = as[j].name  PROVE i = j
  <2>1. \A k \in DOMAIN hs : hs[k].name # m
    BY DEF OneHandleEach
  <2> QED
    BY ZenonT(30), <1>2, <1>5, <1>10, <2>1 DEF OneHandleEach
<1>11. OneHandleEach(as, ax)
  BY <1>3, <1>7, <1>8, <1>9, <1>10 DEF OneHandleEach
<1> QED
  BY <1>11 DEF as, h

(* The steps a difference gives, operation by operation.  For one monitor  *)
(* there is at most one (ComputeConfigDiff).                               *)
LEMMA DiffFacts ==
  ASSUME NEW old, NEW c
  PROVE  /\ \A m : <<"remove", m>> \in ComputeConfigDiff(old, c)
                  <=> m \in DOMAIN old.monitors \ DOMAIN c.monitors
         /\ \A m : <<"modify", m>> \in ComputeConfigDiff(old, c)
                  <=> /\ m \in DOMAIN old.monitors \cap DOMAIN c.monitors
                      /\ old.monitors[m] # c.monitors[m]
         /\ \A m : <<"add", m>> \in ComputeConfigDiff(old, c)
                  <=> m \in DOMAIN c.monitors \ DOMAIN old.monitors
         /\ <<"exporters", NoName>> \in ComputeConfigDiff(old, c) <=> old.exporters # c.exporters
         /\ <<"remediation", NoName>> \in ComputeConfigDiff(old, c)
              <=> old.remediation # c.remediation
BY DEF ComputeConfigDiff

(* A valid configuration is its monitors and its blocks. *)
LEMMA SameConfig ==
  ASSUME NEW b \in FileConfig, NEW c \in FileConfig, b.valid, c.valid,
         b.monitors = c.monitors, b.exporters = c.exporters, b.remediation = c.remediation
  PROVE  b = c
<1>1. b.valid = TRUE /\ c.valid = TRUE
  BY DEF FileConfig
<1> QED
  BY <1>1 DEF FileConfig

(* The monitors of a configuration: names of the model, with settings. *)
LEMMA MonitorsOf ==
  ASSUME NEW c \in FileConfig
  PROVE  /\ DOMAIN c.monitors \subseteq Names
         /\ c.monitors \in [DOMAIN c.monitors -> Settings]
<1>1. PICK t \in SUBSET Names : c.monitors \in [t -> Settings]
  BY DEF FileConfig
<1> QED
  BY <1>1

(* An index that agrees with a configuration on every name is its          *)
(* monitors.                                                               *)
LEMMA SameMonitors ==
  ASSUME NEW c \in FileConfig, NEW ix, ix \in [DOMAIN ix -> Settings], DOMAIN ix \subseteq Names,
         \A m \in Names : /\ m \in DOMAIN ix <=> m \in DOMAIN c.monitors
                          /\ m \in DOMAIN ix => ix[m] = c.monitors[m]
  PROVE  ix = c.monitors
<1>1. /\ DOMAIN c.monitors \subseteq Names
      /\ c.monitors \in [DOMAIN c.monitors -> Settings]
  BY MonitorsOf
<1>2. DOMAIN ix = DOMAIN c.monitors
  BY <1>1
<1> QED
  BY <1>1, <1>2

(* No step, no difference: what performReload relies on when it adopts a   *)
(* configuration without applying anything.                                *)
LEMMA NoStepNoDifference ==
  ASSUME NEW b \in FileConfig, NEW c \in FileConfig, b.valid, c.valid,
         ComputeConfigDiff(b, c) = {}
  PROVE  b = c
<1>1. /\ \A m : ~(m \in DOMAIN b.monitors \ DOMAIN c.monitors)
      /\ \A m : ~(m \in DOMAIN c.monitors \ DOMAIN b.monitors)
      /\ \A m : m \in DOMAIN b.monitors \cap DOMAIN c.monitors => b.monitors[m] = c.monitors[m]
      /\ b.exporters = c.exporters /\ b.remediation = c.remediation
  BY DiffFacts
<1>2. /\ DOMAIN b.monitors \subseteq Names
      /\ b.monitors \in [DOMAIN b.monitors -> Settings]
  BY MonitorsOf
<1>3. b.monitors = c.monitors
  BY <1>1, <1>2, SameMonitors
<1> QED
  BY <1>1, <1>3, SameConfig

(* A monitor of the index is found in the list by its name                 *)
(* (stopMonitorByName).                                                    *)
LEMMA HandleFound ==
  ASSUME OneHandleEach(handles, index), NEW m \in DOMAIN index
  PROVE  HandleOf(m) \in DOMAIN handles /\ handles[HandleOf(m)].name = m /\ HandleOf(m) # 0
<1> DEFINE found == {i \in DOMAIN handles : handles[i].name = m}
<1>1. DOMAIN handles = 1 .. Len(handles) /\ Len(handles) \in Nat
  BY LenProperties DEF OneHandleEach
<1>2. PICK i \in DOMAIN handles : handles[i].name = m
  BY DEF OneHandleEach
<1>3. found = {i}
  BY <1>2 DEF OneHandleEach
<1>4. i \in Nat /\ i # 0 /\ i <= i
  BY <1>1, <1>2
<1>5. Min({i}) = i
  BY <1>4 DEF Min
<1>6. HandleOf(m) = i
  BY <1>3, <1>5 DEF HandleOf
<1> QED
  BY <1>2, <1>4, <1>6

(* So there are as many handles as monitors, and they are those the index  *)
(* says.                                                                   *)
LEMMA HandlesCounted ==
  ASSUME OneHandleEach(handles, index)
  PROVE  /\ Len(handles) = Cardinality(DOMAIN index)
         /\ ToSet(handles) = {[name |-> m, setting |-> index[m]] : m \in DOMAIN index}
<1> DEFINE n == Len(handles)
           f == [i \in 1 .. n |-> handles[i].name]
<1>1. /\ handles \in Seq(Handle) /\ DOMAIN handles = 1 .. n /\ n \in Nat
      /\ \A i \in 1 .. n : handles[i] \in Handle
  BY LenProperties, ElementOfSeq DEF OneHandleEach
<1>2. f \in Bijection(1 .. n, DOMAIN index)
  <2>1. f \in [1 .. n -> DOMAIN index]
    BY <1>1 DEF OneHandleEach
  <2>2. \A i, j \in 1 .. n : f[i] = f[j] => i = j
    BY <1>1 DEF OneHandleEach
  <2>3. \A m \in DOMAIN index : \E i \in 1 .. n : f[i] = m
    BY <1>1 DEF OneHandleEach
  <2> HIDE DEF f
  <2> QED
    BY <2>1, <2>2, <2>3 DEF Bijection, Injection, Surjection, IsInjective
<1>3. ExistsBijection(1 .. n, DOMAIN index)
  BY <1>2 DEF ExistsBijection
<1>4. Cardinality(DOMAIN index) = n
  BY <1>1, <1>3, FS_CountingElements
<1>5. \A i \in DOMAIN handles : handles[i] = [name |-> handles[i].name, setting |-> index[handles[i].name]]
  BY <1>1 DEF OneHandleEach, Handle
<1>6. ToSet(handles) = {[name |-> m, setting |-> index[m]] : m \in DOMAIN index}
  BY <1>5 DEF OneHandleEach, ToSet
<1> QED
  BY <1>4, <1>6

(* One monitor's step of applyConfigReload: that monitor is then as the    *)
(* new configuration has it, and nothing is left to do for it.             *)
LEMMA MonitorApplied ==
  ASSUME AppliedSoFar, NEW m \in Names, NEW op \in {"remove", "modify", "add"},
         <<op, m>> \in steps, steps' = steps \ {<<op, m>>},
         UNCHANGED <<current, new, exporters, executor, registry>>,
         \A k \in Names \ {m} : (k \in DOMAIN index' <=> k \in DOMAIN index)
                               /\ (k \in DOMAIN index => index'[k] = index[k]),
         m \in DOMAIN index' <=> m \in DOMAIN new.monitors,
         m \in DOMAIN index' => index'[m] = new.monitors[m]
  PROVE  AppliedSoFar'
<1>1. steps' \subseteq ComputeConfigDiff(current, new)
  BY DEF AppliedSoFar
<1>2. ~Pending(m)'
  <2>1. \A o \in {"remove", "modify", "add"} : <<o, m>> \in ComputeConfigDiff(current, new) => o = op
    BY DiffFacts DEF AppliedSoFar
  <2> QED
    BY <1>1, <2>1 DEF Pending
<1>3. \A k \in Names \ {m} : Pending(k)' <=> Pending(k)
  BY DEF Pending
<1>4. ASSUME NEW k \in Names
      PROVE  AsIn(IF Pending(k) THEN current ELSE new, k)'
  <2>1. CASE k = m
    BY <1>2, <2>1 DEF AsIn
  <2>2. CASE k # m
    <3>1. AsIn(IF Pending(k) THEN current ELSE new, k)
      BY DEF AppliedSoFar
    <3> QED
      BY <1>3, <2>2, <3>1 DEF AsIn
  <2> QED
    BY <2>1, <2>2
<1>5. /\ <<"exporters", NoName>> \in steps' <=> <<"exporters", NoName>> \in steps
      /\ <<"remediation", NoName>> \in steps' <=> <<"remediation", NoName>> \in steps
  OBVIOUS
<1> QED
  BY <1>1, <1>4, <1>5 DEF AppliedSoFar, ExportersAsIn, RegistryAsIn

(* Configurations the coordinator or the detector holds are valid: an      *)
(* invalid file is rejected before it gets there (performReload).          *)
LEMMA OnlyValidAdopted ==
  ConfigsValid /\ [ReloadNext]_reloadVars => ConfigsValid'
<1> SUFFICES ASSUME ConfigsValid, [ReloadNext]_reloadVars  PROVE ConfigsValid'
  OBVIOUS
<1> USE DEF ConfigsValid, reload
<1>1. ASSUME NEW c \in FileContents, WriteConfig(c)  PROVE ConfigsValid'
  BY <1>1, ReloadAssumption DEF WriteConfig
<1>2. CASE DebounceFires \/ TriggerReload
  BY <1>2 DEF DebounceFires, TriggerReload
<1>3. CASE PerformReload
  <2>1. CASE file.valid
    BY <1>3, <2>1 DEF PerformReload
  <2>2. CASE ~file.valid
    BY <1>3, <2>2 DEF PerformReload
  <2> QED
    BY <2>1, <2>2
<1>4. CASE HandleConfigReload
  BY <1>4 DEF HandleConfigReload
<1>5. ASSUME NEW op, NEW m, Doing(op, m)  PROVE ConfigsValid'
  BY <1>5 DEF Doing
<1>6. CASE ReloadPartialFailure \/ Commit
  BY <1>6 DEF ReloadPartialFailure, Commit
<1>7. CASE BeginStop \/ CloseStatusChan \/ WatcherExits
  BY <1>7 DEF BeginStop, CloseStatusChan, WatcherExits
<1>8. CASE UNCHANGED reloadVars
  BY <1>8 DEF reloadVars
<1> QED
  BY <1>1, <1>2, <1>3, <1>4, <1>5, <1>6, <1>7, <1>8
  DEF ReloadNext, ReloadStep, StopRemoved, RestartModified, StartAdded, ReloadExporters,
      ApplyRemediation

(* Step 1 of applyConfigReload, whether Stop came back in time or not.     *)
LEMMA StopRemovedStep ==
  ASSUME OneHandleEach(handles, index), AppliedSoFar, NEW m \in Names, StopRemoved(m)
  PROVE  OneHandleEach(handles, index)' /\ AppliedSoFar'
<1>1. /\ <<"remove", m>> \in steps /\ steps' = steps \ {<<"remove", m>>}
      /\ UNCHANGED <<current, new, exporters, executor, registry>>
      /\ handles' = Without(m) /\ index' = IndexWithout(m)
  BY DEF StopRemoved, Doing
<1>2. m \in DOMAIN current.monitors /\ m \notin DOMAIN new.monitors
  BY <1>1, DiffFacts DEF AppliedSoFar
<1>3. m \in DOMAIN index
  <2>1. Pending(m)
    BY <1>1 DEF Pending
  <2>2. AsIn(current, m)
    BY <2>1 DEF AppliedSoFar
  <2> QED
    BY <1>2, <2>2 DEF AsIn
<1>4. PICK i \in DOMAIN handles : HandleOf(m) = i /\ handles[i].name = m /\ i # 0
  BY <1>3, HandleFound
<1>5. /\ handles' = RemoveAt(handles, i)
      /\ index' = [k \in DOMAIN index \ {m} |-> index[k]]
  BY <1>1, <1>4 DEF Without, IndexWithout
<1>6. OneHandleEach(RemoveAt(handles, i), [k \in DOMAIN index \ {handles[i].name} |-> index[k]])
  BY StoppedFits
<1>7. OneHandleEach(handles', index')
  BY <1>4, <1>5, <1>6
<1>8. AppliedSoFar'
  <2>1. m \notin DOMAIN index'
    BY <1>5
  <2>2. \A k \in Names \ {m} : (k \in DOMAIN index' <=> k \in DOMAIN index)
                               /\ (k \in DOMAIN index => index'[k] = index[k])
    BY <1>5
  <2> QED
    BY <1>1, <1>2, <2>1, <2>2, MonitorApplied
<1> QED
  BY <1>7, <1>8 DEF OneHandleEach

(* Step 2, when the monitor was found, stopped and started again.          *)
LEMMA RestartModifiedStep ==
  ASSUME OneHandleEach(handles, index), AppliedSoFar, new \in FileConfig,
         NEW m \in Names, RestartModified(m), ~critical'
  PROVE  OneHandleEach(handles, index)' /\ AppliedSoFar'
<1>1. /\ <<"modify", m>> \in steps /\ steps' = steps \ {<<"modify", m>>}
      /\ UNCHANGED <<current, new, exporters, executor, registry>>
      /\ handles' = Append(Without(m), NewHandle(new, m))
      /\ index' = IndexWith(index, m)
  BY DEF RestartModified, Doing
<1>2. m \in DOMAIN current.monitors /\ m \in DOMAIN new.monitors
  BY <1>1, DiffFacts DEF AppliedSoFar
<1>3. m \in DOMAIN index
  <2>1. Pending(m)
    BY <1>1 DEF Pending
  <2>2. AsIn(current, m)
    BY <2>1 DEF AppliedSoFar
  <2> QED
    BY <1>2, <2>2 DEF AsIn
<1>4. PICK i \in DOMAIN handles : HandleOf(m) = i /\ handles[i].name = m /\ i # 0
  BY <1>3, HandleFound
<1>5. new.monitors[m] \in Settings
  BY <1>2, MonitorsOf
<1> DEFINE ws == RemoveAt(handles, i)
           wx == [k \in DOMAIN index \ {m} |-> index[k]]
           s  == new.monitors[m]
<1>6. OneHandleEach(ws, wx)
  BY <1>4, StoppedFits
<1>7. m \in Names \ DOMAIN wx
  OBVIOUS
<1>8. [k \in DOMAIN wx \cup {m} |-> IF k = m THEN s ELSE wx[k]] = index'
  BY <1>1, <1>3 DEF IndexWith
<1>9. Append(ws, [name |-> m, setting |-> s]) = handles'
  BY <1>1, <1>4 DEF Without, NewHandle
<1>10. s \in Settings
  BY <1>5
<1>11. /\ DOMAIN index' = DOMAIN index /\ index'[m] = new.monitors[m]
       /\ \A k \in DOMAIN index \ {m} : index'[k] = index[k]
  BY <1>1, <1>3 DEF IndexWith
<1> HIDE DEF ws, wx, s
<1>12. OneHandleEach(handles', index')
  <2>1. OneHandleEach(Append(ws, [name |-> m, setting |-> s]),
                      [k \in DOMAIN wx \cup {m} |-> IF k = m THEN s ELSE wx[k]])
    BY <1>6, <1>7, <1>10, StartedFits
  <2> QED
    BY <1>8, <1>9, <2>1
<1>13. AppliedSoFar'
  BY <1>1, <1>2, <1>3, <1>11, MonitorApplied
<1> QED
  BY <1>12, <1>13 DEF OneHandleEach

(* Step 3, when the added monitor started.                                 *)
LEMMA StartAddedStep ==
  ASSUME OneHandleEach(handles, index), AppliedSoFar, new \in FileConfig,
         NEW m \in Names, StartAdded(m), ~critical'
  PROVE  OneHandleEach(handles, index)' /\ AppliedSoFar'
<1>1. /\ <<"add", m>> \in steps /\ steps' = steps \ {<<"add", m>>}
      /\ UNCHANGED <<current, new, exporters, executor, registry>>
      /\ handles' = Append(handles, NewHandle(new, m))
      /\ index' = IndexWith(index, m)
  BY DEF StartAdded, Doing
<1>2. m \notin DOMAIN current.monitors /\ m \in DOMAIN new.monitors
  BY <1>1, DiffFacts DEF AppliedSoFar
<1>3. m \notin DOMAIN index
  <2>1. Pending(m)
    BY <1>1 DEF Pending
  <2>2. AsIn(current, m)
    BY <2>1 DEF AppliedSoFar
  <2> QED
    BY <1>2, <2>2 DEF AsIn
<1>4. new.monitors[m] \in Settings
  BY <1>2, MonitorsOf
<1>5. OneHandleEach(handles', index')
  <2> DEFINE s == new.monitors[m]
  <2>1. /\ handles' = Append(handles, [name |-> m, setting |-> s])
        /\ index' = [k \in DOMAIN index \cup {m} |-> IF k = m THEN s ELSE index[k]]
    BY <1>1 DEF NewHandle, IndexWith
  <2>2. s \in Settings
    BY <1>4
  <2> HIDE DEF s
  <2>3. OneHandleEach(Append(handles, [name |-> m, setting |-> s]),
                      [k \in DOMAIN index \cup {m} |-> IF k = m THEN s ELSE index[k]])
    BY <1>3, <2>2, StartedFits
  <2> QED
    BY <2>1, <2>3
<1>6. /\ DOMAIN index' = DOMAIN index \cup {m} /\ index'[m] = new.monitors[m]
      /\ \A k \in DOMAIN index \ {m} : index'[k] = index[k]
  BY <1>1, <1>3 DEF IndexWith
<1>7. AppliedSoFar'
  BY <1>1, <1>2, <1>3, <1>6, MonitorApplied
<1> QED
  BY <1>5, <1>7 DEF OneHandleEach

(* The agent starts on track, unless a monitor was skipped or an exporter  *)
(* was not built (ProblemDetector.Start).                                  *)
LEMMA StartsOnTrack == ReloadInit => ConfigsValid /\ ReloadOnTrack
<1> SUFFICES ASSUME ReloadInit  PROVE ConfigsValid /\ ReloadOnTrack
  OBVIOUS
<1> PICK c \in InitialConfigs :
           file = c /\ current = c /\ config = c /\ new = c /\ StartParts(c)
  BY DEF ReloadInit
<1>1. c \in FileConfig /\ c.valid
  BY ReloadAssumption
<1>2. ConfigsValid
  BY <1>1 DEF ConfigsValid, ReloadInit
<1>3. ASSUME ~disturbed
      PROVE  /\ OneHandleEach(handles, index) /\ index = c.monitors
             /\ ExportersAsIn(c) /\ RegistryAsIn(c) /\ Announced(c)
  <2> DEFINE ms == c.monitors
             hs == {NewHandle(c, m) : m \in DOMAIN ms}
  <2>1. DOMAIN ms \subseteq Names /\ ms \in [DOMAIN ms -> Settings]
    BY <1>1, MonitorsOf
  <2>2. /\ handles = SetToSeq(hs) /\ index = [m \in DOMAIN ms |-> ms[m]]
        /\ exporters = [e \in EnabledExporters(c) |-> c.exporters[e]]
    <3>1. PICK skipped \in SUBSET DOMAIN ms, unbuilt \in SUBSET EnabledExporters(c) :
            /\ disturbed = (skipped # {} \/ unbuilt # {})
            /\ handles = SetToSeq({NewHandle(c, m) : m \in DOMAIN ms \ skipped})
            /\ index = [m \in DOMAIN ms \ skipped |-> ms[m]]
            /\ exporters = [e \in EnabledExporters(c) \ unbuilt |-> c.exporters[e]]
      BY DEF StartParts
    <3>2. skipped = {} /\ unbuilt = {}
      BY <1>3, <3>1
    <3>3. DOMAIN ms \ skipped = DOMAIN ms /\ EnabledExporters(c) \ unbuilt = EnabledExporters(c)
      BY <3>2
    <3> QED
      BY <3>1, <3>3
  <2>3. index = ms
    BY <2>1, <2>2
  <2>15. ExportersAsIn(c) /\ RegistryAsIn(c) /\ Announced(c)
    BY <2>2 DEF StartParts, ExportersAsIn, RegistryAsIn, Announced
  <2>4. IsFiniteSet(DOMAIN ms)
    BY <2>1, ReloadAssumption, FS_Subset
  <2>5. IsFiniteSet(hs)
    <3> DEFINE f == [m \in DOMAIN ms |-> NewHandle(c, m)]
    <3>1. f \in Surjection(DOMAIN ms, hs)
      BY DEF Surjection
    <3> QED
      BY <2>4, <3>1, FS_Surjection
  <2>6. hs \subseteq Handle
    BY <2>1 DEF NewHandle, Handle
  <2>7. \A h \in hs : h.name \in DOMAIN ms /\ h.setting = ms[h.name]
    BY DEF NewHandle
  <2>8. ASSUME NEW m \in DOMAIN ms  PROVE \E h \in hs : h.name = m
    <3>1. NewHandle(c, m) \in hs /\ NewHandle(c, m).name = m
      BY DEF NewHandle
    <3> QED
      BY <3>1
  <2>9. \A g, h \in hs : g.name = h.name => g = h
    BY DEF NewHandle
  <2> HIDE DEF hs, ms
  <2>10. /\ handles \in Seq(hs)
         /\ \A h \in hs : \E i \in DOMAIN handles : handles[i] = h
         /\ \A i, j \in DOMAIN handles : handles[i] = handles[j] => i = j
    BY <2>2, <2>5, SetAsSequence
  <2>11. \A i \in DOMAIN handles : handles[i] \in hs
    BY <2>10, ElementOfSeq, LenProperties
  <2>12. handles \in Seq(Handle)
    <3>1. handles \in [1 .. Len(handles) -> hs] /\ Len(handles) \in Nat
      BY <2>10
    <3>2. handles \in [1 .. Len(handles) -> Handle]
      BY <2>6, <3>1
    <3> QED
      BY <3>1, <3>2, IsASeq
  <2>13. \A m \in DOMAIN ms : \E i \in DOMAIN handles : handles[i].name = m
    BY <2>8, <2>10
  <2>14. OneHandleEach(handles, index)
    BY <2>1, <2>3, <2>7, <2>9, <2>10, <2>11, <2>12, <2>13 DEF OneHandleEach
  <2> QED
    BY <2>3, <2>14, <2>15 DEF ms
<1>4. ReloadOnTrack
  BY <1>3 DEF ReloadInit, ReloadOnTrack
<1> QED
  BY <1>2, <1>4

(* Every step of the watcher, the reload, the editor of the file and Stop  *)
(* keeps an undisturbed detector on track.                                 *)
LEMMA StaysOnTrack ==
  ConfigsValid /\ ReloadOnTrack /\ [ReloadNext]_reloadVars => ReloadOnTrack'
<1> SUFFICES ASSUME ConfigsValid, ReloadOnTrack, [ReloadNext]_reloadVars,
                    phase' = "running", ~disturbed'
             PROVE  ReloadOnTrack'
  BY DEF ReloadOnTrack
<1> USE DEF reload, apply
<1>1. ASSUME UNCHANGED <<current, config, apply, disturbed>>, told \subseteq told',
             phase = "running", watcher # "apply", watcher' # "apply",
             watcher' = "guard" => Announced(new)'
      PROVE  ReloadOnTrack'
  BY <1>1 DEF ReloadOnTrack, OneHandleEach, ExportersAsIn, RegistryAsIn, Announced
<1>2. ASSUME UNCHANGED <<current, config, apply, reload, told, disturbed>>, phase = "running"
      PROVE  ReloadOnTrack'
  <2>1. ReloadOnTrack' <=> ReloadOnTrack
    BY <1>2 DEF ReloadOnTrack, OneHandleEach, AppliedSoFar, Pending, AsIn, ExportersAsIn, RegistryAsIn,
                Announced
  <2> QED
    BY <2>1
<1>3. ASSUME NEW c \in FileContents, WriteConfig(c)  PROVE ReloadOnTrack'
  BY <1>2, <1>3 DEF WriteConfig
<1>4. CASE DebounceFires
  BY <1>2, <1>4 DEF DebounceFires
<1>5. CASE TriggerReload
  BY <1>1, <1>5 DEF TriggerReload, EmitReloadEvent
<1>6. CASE PerformReload
  <2>1. phase = "running" /\ watcher # "apply" /\ watcher' # "apply"
    BY <1>6 DEF PerformReload, EmitReloadEvent
  <2>2. UNCHANGED <<config, apply, disturbed>> /\ told \subseteq told'
    BY <1>6 DEF PerformReload
  <2>3. current' = current
    <3>1. CASE file.valid /\ ComputeConfigDiff(current, file) = {}
      <4>1. current = file
        BY <3>1, NoStepNoDifference DEF ConfigsValid
      <4> QED
        BY <1>6, <4>1 DEF PerformReload
    <3>2. CASE ~(file.valid /\ ComputeConfigDiff(current, file) = {})
      BY <1>6, <3>2 DEF PerformReload
    <3> QED
      BY <3>1, <3>2
  <2>4. ASSUME watcher' = "guard"  PROVE Announced(new)'
    <3>1. new' = file /\ told' = told \cup RestartRequired(current, file)
      BY <1>6, <2>4 DEF PerformReload
    <3>2. Announced(current)
      BY <2>1, <2>2 DEF ReloadOnTrack
    <3> QED
      BY <2>2, <3>1, <3>2 DEF Announced, RestartRequired
  <2> QED
    BY <1>1, <2>1, <2>2, <2>3, <2>4
<1>7. CASE HandleConfigReload
  <2>1. phase = "running"
    BY <1>7 DEF HandleConfigReload, EmitReloadEvent
  <2>2. /\ watcher = "guard" /\ watcher' = "apply" /\ steps' = ComputeConfigDiff(current, new)
        /\ UNCHANGED <<current, new, config, handles, index, exporters, executor, registry, told, disturbed>>
    BY <1>7, <2>1 DEF HandleConfigReload
  <2>3. /\ current = config /\ OneHandleEach(handles, index) /\ index = config.monitors
        /\ ExportersAsIn(config) /\ RegistryAsIn(config) /\ Announced(current) /\ Announced(new)
    BY <2>1, <2>2 DEF ReloadOnTrack
  <2>4. OneHandleEach(handles, index)'
    BY <2>2, <2>3 DEF OneHandleEach
  <2>5. AppliedSoFar'
    <3>1. ASSUME NEW m \in Names  PROVE AsIn(IF Pending(m) THEN current ELSE new, m)'
      <4>1. CASE Pending(m)'
        BY <2>2, <2>3, <4>1 DEF AsIn
      <4>2. CASE ~Pending(m)'
        <5>1. /\ ~(m \in DOMAIN current.monitors \ DOMAIN new.monitors)
              /\ ~(m \in DOMAIN new.monitors \ DOMAIN current.monitors)
              /\ m \in DOMAIN current.monitors \cap DOMAIN new.monitors
                   => current.monitors[m] = new.monitors[m]
          BY <2>2, <4>2, DiffFacts DEF Pending
        <5> QED
          BY <2>2, <2>3, <4>2, <5>1 DEF AsIn
      <4> QED
        BY <4>1, <4>2
    <3>2. ExportersAsIn(IF <<"exporters", NoName>> \in steps THEN current ELSE new)'
      BY <2>2, <2>3, DiffFacts DEF ExportersAsIn
    <3>3. RegistryAsIn(IF <<"remediation", NoName>> \in steps THEN current ELSE new)'
      BY <2>2, <2>3, DiffFacts DEF RegistryAsIn
    <3> QED
      BY <2>2, <3>1, <3>2, <3>3 DEF AppliedSoFar
  <2>6. Announced(current)' /\ Announced(new)'
    BY <2>2, <2>3 DEF Announced
  <2> QED
    BY <2>2, <2>3, <2>4, <2>5, <2>6 DEF ReloadOnTrack
<1>8. ASSUME NEW op, NEW m, Doing(op, m), executor' = executor, DOMAIN exporters' = DOMAIN exporters,
             ~critical' => ~critical /\ (OneHandleEach(handles, index) /\ AppliedSoFar
                                            => OneHandleEach(handles, index)' /\ AppliedSoFar')
      PROVE  ReloadOnTrack'
  <2>1. /\ watcher = "apply" /\ watcher' = "apply" /\ phase = "running" /\ ~disturbed
        /\ UNCHANGED <<current, config, new, told>>
    BY <1>8 DEF Doing
  <2>2. Announced(current)' /\ Announced(new)'
    BY <1>8, <2>1 DEF ReloadOnTrack, Announced
  <2> QED
    BY <1>8, <2>1, <2>2 DEF ReloadOnTrack
<1>9. ASSUME NEW m \in Names, StopRemoved(m)  PROVE ReloadOnTrack'
  <2>1. Doing("remove", m) /\ critical' = critical /\ UNCHANGED <<exporters, executor>>
    BY <1>9 DEF StopRemoved
  <2>2. OneHandleEach(handles, index) /\ AppliedSoFar => OneHandleEach(handles, index)' /\ AppliedSoFar'
    BY <1>9, StopRemovedStep
  <2> QED
    BY <1>8, <2>1, <2>2
<1>10. ASSUME NEW m \in Names, RestartModified(m)  PROVE ReloadOnTrack'
  <2>1. Doing("modify", m) /\ (critical' = TRUE \/ critical' = critical) /\ UNCHANGED <<exporters, executor>>
    BY <1>10 DEF RestartModified
  <2>2. ~critical' /\ OneHandleEach(handles, index) /\ AppliedSoFar
          => OneHandleEach(handles, index)' /\ AppliedSoFar'
    BY <1>10, RestartModifiedStep DEF ConfigsValid
  <2> QED
    BY <1>8, <2>1, <2>2
<1>11. ASSUME NEW m \in Names, StartAdded(m)  PROVE ReloadOnTrack'
  <2>1. Doing("add", m) /\ (critical' = TRUE \/ critical' = critical) /\ UNCHANGED <<exporters, executor>>
    BY <1>11 DEF StartAdded
  <2>2. ~critical' /\ OneHandleEach(handles, index) /\ AppliedSoFar
          => OneHandleEach(handles, index)' /\ AppliedSoFar'
    BY <1>11, StartAddedStep DEF ConfigsValid
  <2> QED
    BY <1>8, <2>1, <2>2
<1>12. ASSUME NEW op \in {"exporters", "remediation"}, Doing(op, NoName), UNCHANGED <<index, executor>>,
              AppliedSoFar,
              IF op = "exporters" THEN ExportersAsIn(new)' ELSE exporters' = exporters,
              IF op = "remediation" THEN RegistryAsIn(new)' ELSE registry' = registry
       PROVE  AppliedSoFar'
  <2>1. steps' = steps \ {<<op, NoName>>} /\ UNCHANGED <<current, new>>
    BY <1>12 DEF Doing
  <2>2. ASSUME NEW k \in Names  PROVE AsIn(IF Pending(k) THEN current ELSE new, k)'
    <3>1. Pending(k)' <=> Pending(k)
      BY <2>1 DEF Pending
    <3> QED
      BY <1>12, <2>1, <3>1 DEF AppliedSoFar, AsIn
  <2>3. ExportersAsIn(IF <<"exporters", NoName>> \in steps THEN current ELSE new)'
    BY <1>12, <2>1 DEF AppliedSoFar, ExportersAsIn
  <2>4. RegistryAsIn(IF <<"remediation", NoName>> \in steps THEN current ELSE new)'
    BY <1>12, <2>1 DEF AppliedSoFar, RegistryAsIn
  <2>5. steps' \subseteq ComputeConfigDiff(current, new)
    BY <1>12, <2>1 DEF AppliedSoFar
  <2> QED
    BY <2>1, <2>2, <2>3, <2>4, <2>5 DEF AppliedSoFar
<1>13. CASE ReloadExporters
  <2>1. Doing("exporters", NoName) /\ UNCHANGED <<handles, index, executor, registry>>
    BY <1>13 DEF ReloadExporters
  <2>2. PICK failed \in SUBSET DOMAIN exporters :
               /\ exporters' = [e \in DOMAIN exporters |->
                                  IF e \in failed THEN exporters[e] ELSE new.exporters[e]]
               /\ critical' = (critical \/ failed # {})
    BY <1>13 DEF ReloadExporters
  <2>3. ASSUME ~critical'  PROVE ~critical /\ ExportersAsIn(new)'
    <3>1. ~critical /\ failed = {} /\ new' = new
      BY <2>1, <2>2, <2>3 DEF Doing
    <3> QED
      BY <2>2, <3>1 DEF ExportersAsIn
  <2>4. ~critical' /\ AppliedSoFar => AppliedSoFar'
    BY <1>12, <2>1, <2>3
  <2>5. OneHandleEach(handles, index) => OneHandleEach(handles, index)'
    BY <2>1 DEF OneHandleEach
  <2>6. DOMAIN exporters' = DOMAIN exporters
    BY <2>2
  <2> QED
    BY <1>8, <2>1, <2>3, <2>4, <2>5, <2>6
<1>14. CASE ApplyRemediation
  <2>1. /\ Doing("remediation", NoName) /\ UNCHANGED <<handles, index, exporters, executor, critical>>
        /\ registry' = IF executor = "registry" THEN new.remediation ELSE registry
    BY <1>14 DEF ApplyRemediation
  <2>2. RegistryAsIn(new)'
    BY <2>1 DEF RegistryAsIn, Doing
  <2>3. AppliedSoFar => AppliedSoFar'
    BY <1>12, <2>1, <2>2
  <2>4. OneHandleEach(handles, index) => OneHandleEach(handles, index)'
    BY <2>1 DEF OneHandleEach
  <2> QED
    BY <1>8, <2>1, <2>3, <2>4
<1>15. CASE ReloadPartialFailure
  BY <1>15 DEF ReloadPartialFailure
<1>16. CASE Commit
  <2>1. /\ watcher = "apply" /\ steps = {} /\ ~critical /\ watcher' = "idle"
        /\ config' = new /\ current' = new
        /\ UNCHANGED <<handles, index, exporters, executor, registry, told, disturbed>>
        /\ phase = "running"
    BY <1>16 DEF Commit, EmitReloadEvent
  <2>2. OneHandleEach(handles, index) /\ AppliedSoFar /\ Announced(new)
    BY <2>1 DEF ReloadOnTrack
  <2>3. \A m \in Names : AsIn(new, m)
    BY <2>1, <2>2 DEF AppliedSoFar, Pending
  <2>4. index = new.monitors
    <3>1. new \in FileConfig
      BY DEF ConfigsValid
    <3> QED
      BY <2>2, <2>3, <3>1, SameMonitors DEF AsIn, OneHandleEach
  <2>5. ExportersAsIn(config)' /\ RegistryAsIn(config)' /\ Announced(current)'
    BY <2>1, <2>2 DEF AppliedSoFar, ExportersAsIn, RegistryAsIn, Announced
  <2>6. OneHandleEach(handles, index)'
    BY <2>1, <2>2 DEF OneHandleEach
  <2> QED
    BY <2>1, <2>4, <2>5, <2>6 DEF ReloadOnTrack
<1>17. CASE BeginStop \/ CloseStatusChan
  BY <1>17 DEF BeginStop, CloseStatusChan
<1>18. CASE WatcherExits
  BY <1>1, <1>18 DEF WatcherExits
<1>19. CASE UNCHANGED reloadVars
  BY <1>2, <1>19 DEF reloadVars
<1> QED
  BY <1>3, <1>4, <1>5, <1>6, <1>7, <1>9, <1>10, <1>11, <1>13, <1>14, <1>15, <1>16, <1>17, <1>18, <1>19
  DEF ReloadNext, ReloadStep

(* Between reloads an undisturbed detector runs exactly its configuration, *)
(* except for exporters and remediations the agent was started without,    *)
(* which reloads reported to need a restart, whatever the edits, the       *)
(* rejections and the harmless failures (applyConfigReload, performReload, *)
(* ClassifyReload).                                                        *)
THEOREM DetectorRunsConfig == ReloadSpec => []UndisturbedExact
<1>1. ReloadOnTrack => UndisturbedExact
  <2> SUFFICES ASSUME ReloadOnTrack, watcher = "idle", phase = "running", ~disturbed
               PROVE  Runs(config) /\ current = config
    BY DEF UndisturbedExact
  <2>1. /\ current = config /\ OneHandleEach(handles, index) /\ index = config.monitors
        /\ ExportersAsIn(config) /\ RegistryAsIn(config) /\ Announced(config)
    BY DEF ReloadOnTrack
  <2> QED
    BY <2>1, HandlesCounted DEF Runs, NewHandle
<1> QED
  BY <1>1, StartsOnTrack, OnlyValidAdopted, StaysOnTrack, PTL DEF ReloadSpec

----------------------------------------------------------------------------
(* A configuration that passed keeps passing when the defaults are applied *)
(* to it again, as normalizeConfig does after the flags and the default    *)
(* monitors: block by block.                                               *)

(* The limits of the code, which the proofs need not know. *)
LEMMA LimitsAreNumbers == MaxQPS \in Nat /\ MaxBurst \in Nat /\ MaxPort \in Nat
BY DEF MaxQPS, MaxBurst, MaxPort

(* The default durations. *)
LEMMA DefaultTimes ==
  /\ 1 * Sec > 0 /\ 5 * Sec > 0 /\ 10 * Sec > 0 /\ 30 * Sec > 0 /\ 60 * Sec > 0
  /\ 5 * Minute > 0 /\ 6 * Minute > 0 /\ 30 * Minute > 0 /\ 5 * Minute >= 5 * Sec
  /\ 1 * Sec # Unset /\ 10 * Sec # Unset /\ 30 * Sec # Unset
BY LoadingAssumption DEF Sec, Minute

(* What is there is kept, and what is not becomes the default. *)
LEMMA TextKept ==
  ASSUME NEW x, NEW d
  PROVE  (Text(x, d) = x \/ Text(x, d) = d) /\ (x # "" => Text(x, d) = x)
BY DEF Text

(* A number's default replaces only the number nobody gave (zero). *)
LEMMA CountKept ==
  ASSUME NEW x, NEW d
  PROVE  (Count(x, d) = x \/ Count(x, d) = d) /\ (x # 0 => Count(x, d) = x)
BY DEF Count

(* A duration's default replaces only the duration nobody gave. *)
LEMMA TimeKept ==
  ASSUME NEW x, NEW d
  PROVE  (Time(x, d) = x \/ Time(x, d) = d) /\ (x # Unset => Time(x, d) = x)
BY DEF Time

SettingsFields ==
    {"nodeName", "logLevel", "logFormat", "logOutput", "logFile", "updateInterval",
     "resyncInterval", "heartbeatInterval", "qps", "burst"}

(* What the settings have to be, field by field. *)
LEMMA SettingsByField ==
  ASSUME NEW s
  PROVE  SettingsValid(s) <=>
           /\ s.nodeName # ""
           /\ s.logLevel \in {"debug", "info", "warn", "error", "fatal"}
           /\ s.logFormat \in {"json", "text"}
           /\ s.logOutput \in {"stdout", "stderr", "file"}
           /\ s.logOutput = "file" => s.logFile # ""
           /\ s.updateInterval > 0 /\ s.resyncInterval > 0 /\ s.heartbeatInterval >= 5 * Sec
           /\ s.qps \in 1 .. MaxQPS /\ s.burst \in 1 .. MaxBurst
BY Zenon DEF SettingsValid, Positive

(* The global settings (GlobalSettings.ApplyDefaults, Validate). *)
LEMMA SettingsStayValid ==
  ASSUME NEW s, Has(s, SettingsFields), SettingsValid(s)
  PROVE  SettingsValid(SettingsDefaults(s))
<1> DEFINE d == SettingsDefaults(s)
<1>1. /\ d.nodeName = s.nodeName /\ d.logFile = s.logFile
      /\ d.logLevel = Text(s.logLevel, "info") /\ d.logFormat = Text(s.logFormat, "json")
      /\ d.logOutput = Text(s.logOutput, "stdout")
  BY DEF SettingsDefaults, Has, SettingsFields
<1>2. /\ d.updateInterval = Time(s.updateInterval, 10 * Sec)
      /\ d.resyncInterval = Time(s.resyncInterval, 60 * Sec)
      /\ d.heartbeatInterval = Time(s.heartbeatInterval, 5 * Minute)
      /\ d.qps = Count(s.qps, 50) /\ d.burst = Count(s.burst, 100)
  BY DEF SettingsDefaults, Has, SettingsFields
<1> HIDE DEF d
<1>3. /\ s.nodeName # ""
      /\ s.logLevel \in {"debug", "info", "warn", "error", "fatal"}
      /\ s.logFormat \in {"json", "text"}
      /\ s.logOutput \in {"stdout", "stderr", "file"}
      /\ s.logOutput = "file" => s.logFile # ""
      /\ s.updateInterval > 0 /\ s.resyncInterval > 0 /\ s.heartbeatInterval >= 5 * Sec
      /\ s.qps \in 1 .. MaxQPS /\ s.burst \in 1 .. MaxBurst
  BY SettingsByField
<1>4. d.logLevel = s.logLevel /\ d.logFormat = s.logFormat /\ d.logOutput = s.logOutput
  BY <1>1, <1>3 DEF Text
<1>5. /\ d.updateInterval > 0 /\ d.resyncInterval > 0 /\ d.heartbeatInterval >= 5 * Sec
  BY <1>2, <1>3, DefaultTimes, Zenon DEF Time
<1>6. s.qps # 0 /\ s.burst # 0
  <2>1. \A x : (x \in 1 .. MaxQPS \/ x \in 1 .. MaxBurst) => x # 0
    BY LimitsAreNumbers
  <2> QED
    BY <1>3, <2>1, Zenon
<1>7. d.qps = s.qps /\ d.burst = s.burst
  BY <1>2, <1>6, Zenon DEF Count
<1>8. SettingsValid(d)
  BY <1>1, <1>3, <1>4, <1>5, <1>7, SettingsByField, Zenon
<1> QED
  BY <1>8 DEF d

(* What the command line may say of the log. *)
FlagsFit ==
    /\ flags.logLevel \in {"", "debug", "info", "warn", "error", "fatal"}
    /\ flags.logFormat \in {"", "json", "text"}

(* The settings the command line leaves (applyFlags). *)
WithFlags(s) ==
    [s EXCEPT !.logLevel = Text(flags.logLevel, IF flags.debug THEN "debug" ELSE @),
              !.logFormat = Text(flags.logFormat, @)]

(* A valid settings block stays valid when the accepted command line flags are
   laid over it (applyFlagOverrides). *)
LEMMA FlagsStayValid ==
  ASSUME NEW s, Has(s, SettingsFields), SettingsValid(s), FlagsFit
  PROVE  SettingsValid(WithFlags(s)) /\ Has(WithFlags(s), SettingsFields)
<1> DEFINE d == WithFlags(s)
<1>1. /\ DOMAIN d = DOMAIN s
      /\ d.logLevel = Text(flags.logLevel, IF flags.debug THEN "debug" ELSE s.logLevel)
      /\ d.logFormat = Text(flags.logFormat, s.logFormat)
  BY DEF WithFlags, Has, SettingsFields
<1>2. /\ d.nodeName = s.nodeName /\ d.logOutput = s.logOutput /\ d.logFile = s.logFile
      /\ d.updateInterval = s.updateInterval /\ d.resyncInterval = s.resyncInterval
      /\ d.heartbeatInterval = s.heartbeatInterval /\ d.qps = s.qps /\ d.burst = s.burst
  BY DEF WithFlags, Has, SettingsFields
<1> HIDE DEF d
<1>3. /\ s.logLevel \in {"debug", "info", "warn", "error", "fatal"}
      /\ s.logFormat \in {"json", "text"}
  BY SettingsByField
<1>4. /\ d.logLevel \in {"debug", "info", "warn", "error", "fatal"}
      /\ d.logFormat \in {"json", "text"}
  BY <1>1, <1>3 DEF FlagsFit, Text
<1>5. SettingsValid(d)
  BY <1>2, <1>4, SettingsByField, Zenon
<1> QED
  BY <1>1, <1>5 DEF Has, d

(* A monitor whose durations are set is left alone                         *)
(* (MonitorConfig.ApplyDefaults).                                          *)
LEMMA MonitorStaysValid ==
  ASSUME NEW m, IsMonitor(m), MonitorValid(m), m.interval # Unset, m.timeout # Unset
  PROVE  MonitorValid(MonitorDefaults(m))
<1> DEFINE d == MonitorDefaults(m)
<1>1. /\ d.name = m.name /\ d.type = m.type /\ d.config = m.config /\ d.remediation = m.remediation
      /\ d.interval = m.interval /\ d.timeout = m.timeout
  BY DEF MonitorDefaults, IsMonitor, Has, Time
<1> HIDE DEF d
<1>2. MonitorValid(d)
  BY <1>1, Zenon DEF MonitorValid
<1> QED
  BY <1>2 DEF d

(* The Kubernetes exporter (KubernetesExporterConfig). *)
LEMMA KubernetesStaysValid ==
  ASSUME NEW k, Has(k, {"enabled", "namespace", "updateInterval", "resyncInterval", "heartbeatInterval",
                        "conditionStaleTTL", "eventTTL", "deduplicationWindow", "maxEventsPerMinute",
                        "conditions", "annotations"}),
         KubernetesValid(k)
  PROVE  KubernetesValid(KubernetesDefaults(k))
<1> DEFINE d == KubernetesDefaults(k)
           defaulted == {"updateInterval", "resyncInterval", "heartbeatInterval", "conditionStaleTTL"}
<1>1. /\ d.enabled = k.enabled /\ d.conditions = k.conditions /\ d.annotations = k.annotations
      /\ d.maxEventsPerMinute = k.maxEventsPerMinute
      /\ d.eventTTL = k.eventTTL /\ d.deduplicationWindow = k.deduplicationWindow
  BY DEF KubernetesDefaults, Has
<1>2. /\ d.updateInterval = Time(k.updateInterval, 10 * Sec)
      /\ d.resyncInterval = Time(k.resyncInterval, 60 * Sec)
      /\ d.heartbeatInterval = Time(k.heartbeatInterval, 5 * Minute)
      /\ d.conditionStaleTTL = Time(k.conditionStaleTTL, 6 * Minute)
  BY DEF KubernetesDefaults, Has
<1> HIDE DEF d
<1>3. ASSUME d.enabled PROVE Positive(d, defaulted)
  <2>1. /\ k.updateInterval > 0 /\ k.resyncInterval > 0 /\ k.heartbeatInterval > 0
        /\ k.conditionStaleTTL > 0
    BY <1>1, <1>3, Zenon DEF KubernetesValid, Positive
  <2>2. /\ d.updateInterval > 0 /\ d.resyncInterval > 0 /\ d.heartbeatInterval > 0
        /\ d.conditionStaleTTL > 0
    BY <1>2, <2>1, DefaultTimes, Zenon DEF Time
  <2> QED
    BY <2>2, Zenon DEF Positive
<1>4. KubernetesValid(d)
  BY <1>1, <1>3, Zenon DEF KubernetesValid
<1> QED
  BY <1>4 DEF d

(* The Prometheus exporter (PrometheusExporterConfig). *)
LEMMA PrometheusStaysValid ==
  ASSUME NEW p, Has(p, {"enabled", "port", "path", "namespace", "subsystem"}), PrometheusValid(p)
  PROVE  PrometheusValid(PrometheusDefaults(p))
<1> DEFINE d == PrometheusDefaults(p)
<1>1. /\ d.enabled = p.enabled /\ d.subsystem = p.subsystem
      /\ d.port = Count(p.port, DefaultPrometheusPort) /\ d.path = Text(p.path, "/metrics")
      /\ d.namespace = Text(p.namespace, "node_doctor")
  BY DEF PrometheusDefaults, Has
<1> HIDE DEF d
<1>2. ASSUME p.enabled PROVE d.port = p.port /\ d.path = p.path
  <2>1. p.port \in 1 .. MaxPort /\ p.path \in PathTexts
    BY <1>2 DEF PrometheusValid
  <2>2. \A x \in 1 .. MaxPort : x # 0
    BY LimitsAreNumbers
  <2>3. p.port # 0 /\ p.path # ""
    BY <2>1, <2>2 DEF PathTexts
  <2>4. d.port = p.port
    BY <1>1, <2>3, CountKept
  <2>5. d.path = p.path
    BY <1>1, <2>3, TextKept
  <2> QED
    BY <2>4, <2>5
<1>3. ASSUME p.enabled PROVE {d.namespace, d.subsystem} \subseteq MetricNames \cup {""}
  <2>1. {p.namespace, p.subsystem} \subseteq MetricNames \cup {""}
    BY <1>3 DEF PrometheusValid
  <2>2. "node_doctor" \in MetricNames
    BY DEF MetricNames
  <2>3. d.namespace = p.namespace \/ d.namespace = "node_doctor"
    BY <1>1, TextKept
  <2>4. d.subsystem = p.subsystem
    BY <1>1
  <2> QED
    BY <2>1, <2>2, <2>3, <2>4
<1>4. ASSUME p.enabled PROVE p.port \in 1 .. MaxPort /\ p.path \in PathTexts
  BY <1>4, Zenon DEF PrometheusValid
<1>5. PrometheusValid(d)
  BY <1>1, <1>2, <1>3, <1>4, Zenon DEF PrometheusValid
<1> QED
  BY <1>5 DEF d

(* The remediation settings: the circuit breaker and the coordination with *)
(* the controller (RemediationConfig, CircuitBreakerConfig,                *)
(* CoordinationConfig).                                                    *)
LEMMA BreakerStaysValid ==
  ASSUME NEW b, Has(b, {"enabled", "threshold", "timeout", "successThreshold"}),
         BreakerIsSet(b) => Positive(b, {"threshold", "timeout", "successThreshold"})
  PROVE  BreakerIsSet(BreakerDefaults(b))
           => Positive(BreakerDefaults(b), {"threshold", "timeout", "successThreshold"})
<1>1. CASE ~BreakerIsSet(b)
  BY <1>1 DEF BreakerDefaults
<1>2. CASE BreakerIsSet(b)
  <2> DEFINE d == BreakerDefaults(b)
  <2>1. /\ d.threshold = Count(b.threshold, 5) /\ d.timeout = Time(b.timeout, 30 * Minute)
        /\ d.successThreshold = Count(b.successThreshold, 2)
    BY <1>2 DEF BreakerDefaults, Has
  <2> HIDE DEF d
  <2>2. b.threshold > 0 /\ b.timeout > 0 /\ b.successThreshold > 0
    BY <1>2, Zenon DEF Positive
  <2>3. 5 > 0 /\ 2 > 0
    OBVIOUS
  <2>4. d.threshold > 0 /\ d.timeout > 0 /\ d.successThreshold > 0
    BY <2>1, <2>2, <2>3, DefaultTimes, Zenon DEF Count, Time
  <2>5. Positive(d, {"threshold", "timeout", "successThreshold"})
    BY <2>4, Zenon DEF Positive
  <2> QED
    BY <2>5 DEF d
<1> QED
  BY <1>1, <1>2

(* A valid lease coordination block stays valid when it is given its defaults. *)
LEMMA CoordinationStaysValid ==
  ASSUME NEW c, Has(c, {"enabled", "url", "leaseTimeout", "requestTimeout", "maxRetries", "retryInterval"}),
         CoordinationValid(c)
  PROVE  CoordinationValid(CoordinationDefaults(c))
<1> DEFINE d == CoordinationDefaults(c)
<1>1. /\ d.enabled = c.enabled /\ d.url = c.url
      /\ d.leaseTimeout = Time(c.leaseTimeout, 5 * Minute)
      /\ d.requestTimeout = Time(c.requestTimeout, 10 * Sec)
      /\ d.maxRetries = Count(c.maxRetries, 3) /\ d.retryInterval = Time(c.retryInterval, 5 * Sec)
  BY DEF CoordinationDefaults, Has
<1> HIDE DEF d
<1>2. ASSUME c.enabled
      PROVE  /\ d.maxRetries >= 0
             /\ Positive(d, {"leaseTimeout", "requestTimeout", "retryInterval"})
  <2>1. c.maxRetries >= 0 /\ c.leaseTimeout > 0 /\ c.requestTimeout > 0 /\ c.retryInterval > 0
    BY <1>2, Zenon DEF CoordinationValid, Positive
  <2>2. 3 >= 0
    OBVIOUS
  <2>3. d.maxRetries >= 0 /\ d.leaseTimeout > 0 /\ d.requestTimeout > 0 /\ d.retryInterval > 0
    BY <1>1, <2>1, <2>2, DefaultTimes, Zenon DEF Count, Time
  <2> QED
    BY <2>3, Zenon DEF Positive
<1>3. CoordinationValid(d)
  BY <1>1, <1>2, Zenon DEF CoordinationValid
<1> QED
  BY <1>3 DEF d

(* A valid remediation block stays valid when it is given its defaults. *)
LEMMA RemediationStaysValid ==
  ASSUME NEW r, IsRemediation(r), GlobalRemediationValid(r)
  PROVE  GlobalRemediationValid(RemediationDefaults(r))
<1> DEFINE d == RemediationDefaults(r)
<1>1. /\ d.perHour = Count(r.perHour, 10) /\ d.perMinute = Count(r.perMinute, 2)
      /\ d.historySize = Count(r.historySize, 100)
      /\ d.breaker = BreakerDefaults(r.breaker)
      /\ d.coordination = {CoordinationDefaults(c) : c \in r.coordination}
  BY DEF RemediationDefaults, IsRemediation, Has
<1> HIDE DEF d
<1>2. d.perHour >= 0 /\ d.perMinute >= 0 /\ d.historySize > 0
  <2>1. r.perHour >= 0 /\ r.perMinute >= 0 /\ r.historySize > 0
    BY DEF GlobalRemediationValid
  <2>2. 10 >= 0 /\ 2 >= 0 /\ 100 > 0
    OBVIOUS
  <2> QED
    BY <1>1, <2>1, <2>2, Zenon DEF Count
<1>3. BreakerIsSet(d.breaker) => Positive(d.breaker, {"threshold", "timeout", "successThreshold"})
  BY <1>1, BreakerStaysValid DEF GlobalRemediationValid, IsRemediation
<1>4. ASSUME NEW c \in r.coordination PROVE CoordinationValid(CoordinationDefaults(c))
  BY CoordinationStaysValid DEF GlobalRemediationValid, IsRemediation
<1>5. \A c \in d.coordination : CoordinationValid(c)
  BY <1>1, <1>4
<1>6. GlobalRemediationValid(d)
  BY <1>2, <1>3, <1>5, Zenon DEF GlobalRemediationValid
<1> QED
  BY <1>6 DEF d

(* A retry block with nothing left to default, and so an HTTP exporter.    *)
RetrySet(r) == r.baseDelay # Unset /\ r.maxDelay # Unset /\ r.maxAttempts # 0
RetriesSet(h) ==
    /\ RetrySet(h.retry)
    /\ \A i \in DOMAIN h.webhooks : RetrySet(h.webhooks[i].retry)
    /\ \A c \in h.controller : RetrySet(c.retry)

(* Defaults that are all given leave no field of a retry block open. *)
LEMMA RetryBecomesSet ==
  ASSUME NEW r, NEW d, RetrySet(d)
  PROVE  RetrySet(RetryDefaults(r, d))
<1> DEFINE e == RetryDefaults(r, d)
<1>1. /\ e.maxAttempts = Count(r.maxAttempts, d.maxAttempts)
      /\ e.baseDelay = Time(r.baseDelay, d.baseDelay) /\ e.maxDelay = Time(r.maxDelay, d.maxDelay)
  BY DEF RetryDefaults
<1> HIDE DEF e
<1>2. e.maxAttempts # 0
  BY <1>1, Zenon DEF Count, RetrySet
<1>3. e.baseDelay # Unset /\ e.maxDelay # Unset
  BY <1>1, Zenon DEF Time, RetrySet
<1> QED
  BY <1>2, <1>3 DEF RetrySet, e

(* Defaults change nothing in a retry block that has no field open. *)
LEMMA RetryStays ==
  ASSUME NEW r, NEW d, RetrySet(r), RetryValid(r)
  PROVE  RetryValid(RetryDefaults(r, d))
<1> DEFINE e == RetryDefaults(r, d)
<1>1. /\ e.maxAttempts = Count(r.maxAttempts, d.maxAttempts)
      /\ e.baseDelay = Time(r.baseDelay, d.baseDelay) /\ e.maxDelay = Time(r.maxDelay, d.maxDelay)
  BY DEF RetryDefaults
<1> HIDE DEF e
<1>2. e.maxAttempts = r.maxAttempts /\ e.baseDelay = r.baseDelay /\ e.maxDelay = r.maxDelay
  BY <1>1, Zenon DEF Count, Time, RetrySet
<1>3. RetryValid(e)
  BY <1>2, Zenon DEF RetryValid
<1> QED
  BY <1>3 DEF e

(* The retries of exporters without any of their own. *)
LEMMA DefaultRetries ==
  RetrySet(Retry(3, 1 * Sec, 30 * Sec)) /\ RetrySet(Retry(3, 1 * Sec, 10 * Sec))
BY DefaultTimes DEF RetrySet, Retry

(* Authentication that passed has a type. *)
LEMMA AuthStays ==
  ASSUME NEW a, Has(a, {"type", "token", "username", "password"}), AuthValid(a)
  PROVE  AuthValid([a EXCEPT !.type = Text(@, "none")])
<1> DEFINE e == [a EXCEPT !.type = Text(@, "none")]
<1>1. /\ e.type = Text(a.type, "none") /\ e.token = a.token /\ e.username = a.username
      /\ e.password = a.password
  BY DEF Has
<1> HIDE DEF e
<1>2. a.type # ""
  BY DEF AuthValid
<1>3. e.type = a.type
  BY <1>1, <1>2, TextKept
<1>4. AuthValid(e)
  BY <1>1, <1>3, Zenon DEF AuthValid
<1> QED
  BY <1>4 DEF e

(* What the defaults make of a webhook and of the controller's block. *)
LEMMA WebhookFields ==
  ASSUME NEW w, NEW h, IsEndpoint(w), Has(w, {"name", "sendStatus", "sendProblems"})
  PROVE  LET e == WebhookDefaults(w, h)
         IN  /\ IsEndpoint(e) /\ Has(e, {"name", "sendStatus", "sendProblems"})
             /\ e.name = w.name /\ e.url = w.url /\ e.timeout = Time(w.timeout, h.timeout)
             /\ e.retry = RetryDefaults(w.retry, h.retry)
             /\ e.auth = [w.auth EXCEPT !.type = Text(@, "none")]
             /\ (w.sendStatus \/ w.sendProblems) => (e.sendStatus \/ e.sendProblems)
<1> DEFINE e == WebhookDefaults(w, h)
<1>1. DOMAIN e = DOMAIN w
  BY DEF WebhookDefaults, IsEndpoint, Has
<1>2. /\ e.name = w.name /\ e.url = w.url /\ e.timeout = Time(w.timeout, h.timeout)
      /\ e.retry = RetryDefaults(w.retry, h.retry)
  BY DEF WebhookDefaults, IsEndpoint, Has
<1>3. e.auth = [w.auth EXCEPT !.type = Text(@, "none")]
  BY DEF WebhookDefaults, IsEndpoint, Has
<1>4. (w.sendStatus \/ w.sendProblems) => (e.sendStatus \/ e.sendProblems)
  BY DEF WebhookDefaults, IsEndpoint, Has
<1>5. DOMAIN e.auth = DOMAIN w.auth
  BY <1>3
<1> HIDE DEF e
<1>6. IsEndpoint(e) /\ Has(e, {"name", "sendStatus", "sendProblems"})
  BY <1>1, <1>5, Zenon DEF IsEndpoint, Has
<1> QED
  BY <1>2, <1>3, <1>4, <1>6 DEF e

(* What ApplyDefaults makes of each field of the controller endpoint. *)
LEMMA ControllerFields ==
  ASSUME NEW c, IsEndpoint(c), Has(c, {"enabled", "interval"})
  PROVE  LET e == ControllerDefaults(c)
         IN  /\ IsEndpoint(e) /\ Has(e, {"enabled", "interval"})
             /\ e.enabled = c.enabled /\ e.url = c.url
             /\ e.interval = Time(c.interval, 30 * Sec) /\ e.timeout = Time(c.timeout, 10 * Sec)
             /\ e.retry = RetryDefaults(c.retry, Retry(3, 1 * Sec, 10 * Sec))
             /\ e.auth = [c.auth EXCEPT !.type = Text(@, "none")]
<1> DEFINE e == ControllerDefaults(c)
<1>1. DOMAIN e = DOMAIN c
  BY DEF ControllerDefaults, IsEndpoint, Has
<1>2. /\ e.enabled = c.enabled /\ e.url = c.url
      /\ e.interval = Time(c.interval, 30 * Sec) /\ e.timeout = Time(c.timeout, 10 * Sec)
      /\ e.retry = RetryDefaults(c.retry, Retry(3, 1 * Sec, 10 * Sec))
  BY DEF ControllerDefaults, IsEndpoint, Has
<1>3. e.auth = [c.auth EXCEPT !.type = Text(@, "none")]
  BY DEF ControllerDefaults, IsEndpoint, Has
<1>4. DOMAIN e.auth = DOMAIN c.auth
  BY <1>3
<1> HIDE DEF e
<1>5. IsEndpoint(e) /\ Has(e, {"enabled", "interval"})
  BY <1>1, <1>4, Zenon DEF IsEndpoint, Has
<1> QED
  BY <1>2, <1>3, <1>5 DEF e

(* What is made of the elements of a sequence one by one is a sequence.    *)
LEMMA MappedSeq ==
  ASSUME NEW s, s \in Seq(ToSet(s)), NEW t, DOMAIN t = DOMAIN s, t = [i \in DOMAIN t |-> t[i]]
  PROVE  t \in Seq(ToSet(t))
<1> DEFINE n == Len(s)
<1>1. n \in Nat /\ DOMAIN t = 1 .. n
  BY LenProperties
<1> HIDE DEF n
<1>2. \A i \in 1 .. n : t[i] \in ToSet(t)
  BY <1>1 DEF ToSet
<1>3. t \in [1 .. n -> ToSet(t)]
  BY <1>1, <1>2
<1> QED
  BY <1>1, <1>3, IsASeq

(* What the defaults make of the HTTP exporter. *)
LEMMA HTTPFields ==
  ASSUME NEW h, IsHTTP(h)
  PROVE  LET d == HTTPDefaults(h)
         IN  \E own :
               /\ own.timeout = d.timeout /\ own.retry = d.retry
               /\ d.webhooks = [i \in DOMAIN h.webhooks |-> WebhookDefaults(h.webhooks[i], own)]
               /\ d.controller = {ControllerDefaults(c) : c \in h.controller}
               /\ DOMAIN d = DOMAIN h /\ d.enabled = h.enabled
               /\ d.workers = Count(h.workers, 5) /\ d.queueSize = Count(h.queueSize, 100)
               /\ d.timeout = Time(h.timeout, 30 * Sec)
               /\ d.retry = RetryDefaults(h.retry, Retry(3, 1 * Sec, 30 * Sec))
<1> DEFINE own == [h EXCEPT !.workers = Count(@, 5), !.queueSize = Count(@, 100),
                            !.timeout = Time(@, 30 * Sec),
                            !.retry = RetryDefaults(@, Retry(3, 1 * Sec, 30 * Sec))]
           d == HTTPDefaults(h)
<1>1. /\ DOMAIN own = DOMAIN h /\ own.enabled = h.enabled
      /\ own.workers = Count(h.workers, 5) /\ own.queueSize = Count(h.queueSize, 100)
      /\ own.timeout = Time(h.timeout, 30 * Sec)
      /\ own.retry = RetryDefaults(h.retry, Retry(3, 1 * Sec, 30 * Sec))
      /\ own.webhooks = h.webhooks /\ own.controller = h.controller
  BY DEF IsHTTP, Has
<1>2. d = [own EXCEPT !.webhooks = [i \in DOMAIN @ |-> WebhookDefaults(@[i], own)],
                      !.controller = {ControllerDefaults(c) : c \in @}]
  BY Zenon DEF HTTPDefaults
<1> HIDE DEF own, d
<1>3. {"enabled", "workers", "queueSize", "timeout", "retry", "webhooks", "controller"} \subseteq DOMAIN own
  BY <1>1 DEF IsHTTP, Has
<1>4. /\ DOMAIN d = DOMAIN own /\ d.enabled = own.enabled /\ d.workers = own.workers
      /\ d.queueSize = own.queueSize /\ d.timeout = own.timeout /\ d.retry = own.retry
  BY <1>2, <1>3
<1>5. d.webhooks = [i \in DOMAIN own.webhooks |-> WebhookDefaults(own.webhooks[i], own)]
  BY <1>2, <1>3
<1>6. d.controller = {ControllerDefaults(c) : c \in own.controller}
  BY <1>2, <1>3
<1>7. d.webhooks = [i \in DOMAIN h.webhooks |-> WebhookDefaults(h.webhooks[i], own)]
  BY <1>1, <1>5
<1>8. d.controller = {ControllerDefaults(c) : c \in h.controller}
  BY <1>1, <1>6
<1> QED
  BY <1>1, <1>4, <1>7, <1>8, Zenon DEF d

(* After ApplyDefaults no retry block of the HTTP exporter has a field open. *)
LEMMA HTTPBecomesSet ==
  ASSUME NEW h, IsHTTP(h)
  PROVE  IsHTTP(HTTPDefaults(h)) /\ RetriesSet(HTTPDefaults(h))
<1> DEFINE d == HTTPDefaults(h)
<1>1. PICK own :
        /\ own.retry = d.retry
        /\ d.webhooks = [i \in DOMAIN h.webhooks |-> WebhookDefaults(h.webhooks[i], own)]
        /\ d.controller = {ControllerDefaults(c) : c \in h.controller}
        /\ DOMAIN d = DOMAIN h
        /\ d.retry = RetryDefaults(h.retry, Retry(3, 1 * Sec, 30 * Sec))
  BY HTTPFields
<1> HIDE DEF d
<1>2. RetrySet(d.retry)
  BY <1>1, DefaultRetries, RetryBecomesSet
<1>3. ASSUME NEW i \in DOMAIN d.webhooks
      PROVE  /\ IsEndpoint(d.webhooks[i]) /\ Has(d.webhooks[i], {"name", "sendStatus", "sendProblems"})
             /\ RetrySet(d.webhooks[i].retry)
  <2>1. i \in DOMAIN h.webhooks /\ d.webhooks[i] = WebhookDefaults(h.webhooks[i], own)
    BY <1>1
  <2>2. IsEndpoint(h.webhooks[i]) /\ Has(h.webhooks[i], {"name", "sendStatus", "sendProblems"})
    BY <2>1 DEF IsHTTP
  <2> DEFINE w == h.webhooks[i]
             e == d.webhooks[i]
  <2>3. IsEndpoint(w) /\ Has(w, {"name", "sendStatus", "sendProblems"}) /\ e = WebhookDefaults(w, own)
    BY <2>1, <2>2
  <2> HIDE DEF w, e
  <2>4. /\ IsEndpoint(e) /\ Has(e, {"name", "sendStatus", "sendProblems"})
        /\ e.retry = RetryDefaults(w.retry, own.retry)
    BY <2>3, WebhookFields
  <2>5. RetrySet(e.retry)
    BY <1>1, <1>2, <2>4, RetryBecomesSet
  <2> QED
    BY <2>4, <2>5 DEF e
<1>4. ASSUME NEW c \in d.controller
      PROVE  IsEndpoint(c) /\ Has(c, {"enabled", "interval"}) /\ RetrySet(c.retry)
  <2>1. PICK b \in h.controller : c = ControllerDefaults(b)
    BY <1>1
  <2>2. IsEndpoint(b) /\ Has(b, {"enabled", "interval"})
    BY DEF IsHTTP
  <2>3. /\ IsEndpoint(c) /\ Has(c, {"enabled", "interval"})
        /\ c.retry = RetryDefaults(b.retry, Retry(3, 1 * Sec, 10 * Sec))
    BY <2>1, <2>2, ControllerFields
  <2> QED
    BY <2>3, DefaultRetries, RetryBecomesSet
<1>5. Has(d, {"enabled", "workers", "queueSize", "timeout", "retry", "webhooks", "controller"})
  BY <1>1 DEF IsHTTP, Has
<1>6. d.webhooks \in Seq(ToSet(d.webhooks))
  <2> DEFINE s == h.webhooks
             t == d.webhooks
  <2>1. s \in Seq(ToSet(s)) /\ DOMAIN t = DOMAIN s /\ t = [i \in DOMAIN t |-> t[i]]
    BY <1>1 DEF IsHTTP
  <2> HIDE DEF s, t
  <2>2. t \in Seq(ToSet(t))
    BY <2>1, MappedSeq
  <2> QED
    BY <2>2 DEF t
<1>7. IsHTTP(d) /\ RetriesSet(d)
  BY <1>2, <1>3, <1>4, <1>5, <1>6 DEF IsHTTP, RetriesSet
<1> QED
  BY <1>7 DEF d

(* The HTTP exporter (HTTPExporterConfig, WebhookEndpoint,                 *)
(* ControllerWebhookConfig).                                               *)
LEMMA HTTPStaysValid ==
  ASSUME NEW h, IsHTTP(h), RetriesSet(h), HTTPValid(h)
  PROVE  HTTPValid(HTTPDefaults(h))
<1> DEFINE d == HTTPDefaults(h)
<1>1. PICK own :
        /\ own.timeout = d.timeout /\ own.retry = d.retry
        /\ d.webhooks = [i \in DOMAIN h.webhooks |-> WebhookDefaults(h.webhooks[i], own)]
        /\ d.controller = {ControllerDefaults(c) : c \in h.controller}
        /\ DOMAIN d = DOMAIN h /\ d.enabled = h.enabled
        /\ d.workers = Count(h.workers, 5) /\ d.queueSize = Count(h.queueSize, 100)
        /\ d.timeout = Time(h.timeout, 30 * Sec)
        /\ d.retry = RetryDefaults(h.retry, Retry(3, 1 * Sec, 30 * Sec))
  BY HTTPFields
<1> HIDE DEF d
<1> SUFFICES ASSUME h.enabled PROVE HTTPValid(d)
  <2>1. CASE ~h.enabled
    <3>1. ~d.enabled
      BY <1>1, <2>1
    <3>2. HTTPValid(d)
      BY <3>1 DEF HTTPValid
    <3> QED
      BY <3>2 DEF d
  <2> QED
    BY <2>1 DEF d
<1>2. h.workers > 0 /\ h.queueSize > 0 /\ h.timeout > 0 /\ RetryValid(h.retry)
  BY Zenon DEF HTTPValid, Positive
<1>3. 5 > 0 /\ 100 > 0
  OBVIOUS
<1>4. d.workers > 0 /\ d.queueSize > 0 /\ d.timeout > 0
  BY <1>1, <1>2, <1>3, DefaultTimes, Zenon DEF Count, Time
<1>5. Positive(d, {"workers", "queueSize", "timeout"})
  BY <1>4, Zenon DEF Positive
<1>6. RetryValid(d.retry)
  BY <1>1, <1>2, RetryStays DEF RetriesSet
<1>7. ASSUME NEW i \in DOMAIN d.webhooks
      PROVE  i \in DOMAIN h.webhooks /\ WebhookValid(d.webhooks[i]) /\ d.webhooks[i].name = h.webhooks[i].name
  <2> DEFINE w == h.webhooks[i]
             e == d.webhooks[i]
  <2>1. i \in DOMAIN h.webhooks /\ e = WebhookDefaults(w, own)
    BY <1>1
  <2>2. IsEndpoint(w) /\ Has(w, {"name", "sendStatus", "sendProblems"}) /\ RetrySet(w.retry)
    BY <2>1 DEF IsHTTP, RetriesSet
  <2>3. WebhookValid(w)
    BY <2>1 DEF HTTPValid
  <2> HIDE DEF w, e
  <2>4. /\ e.name = w.name /\ e.url = w.url /\ e.timeout = Time(w.timeout, own.timeout)
        /\ e.retry = RetryDefaults(w.retry, own.retry)
        /\ e.auth = [w.auth EXCEPT !.type = Text(@, "none")]
        /\ (w.sendStatus \/ w.sendProblems) => (e.sendStatus \/ e.sendProblems)
    BY <2>1, <2>2, WebhookFields
  <2>5. w.timeout > 0 /\ RetryValid(w.retry) /\ AuthValid(w.auth) /\ w.url \in WebURLs
        /\ (w.sendStatus \/ w.sendProblems)
    BY <2>3 DEF WebhookValid
  <2>6. e.timeout > 0
    BY <1>1, <1>4, <2>4, <2>5, Zenon DEF Time
  <2>7. RetryValid(e.retry)
    BY <2>2, <2>4, <2>5, RetryStays
  <2>8. AuthValid(e.auth)
    BY <2>2, <2>4, <2>5, AuthStays DEF IsEndpoint
  <2>9. WebhookValid(e)
    BY <2>4, <2>5, <2>6, <2>7, <2>8, Zenon DEF WebhookValid
  <2> QED
    BY <2>1, <2>4, <2>9 DEF w, e
<1>8. ASSUME NEW b \in h.controller
      PROVE  ControllerValid(ControllerDefaults(b)) /\ ControllerDefaults(b).enabled = b.enabled
  <2> DEFINE c == ControllerDefaults(b)
  <2>1. IsEndpoint(b) /\ Has(b, {"enabled", "interval"}) /\ RetrySet(b.retry) /\ ControllerValid(b)
    BY DEF IsHTTP, RetriesSet, HTTPValid
  <2>2. /\ c.enabled = b.enabled /\ c.url = b.url
        /\ c.interval = Time(b.interval, 30 * Sec) /\ c.timeout = Time(b.timeout, 10 * Sec)
        /\ c.retry = RetryDefaults(b.retry, Retry(3, 1 * Sec, 10 * Sec))
        /\ c.auth = [b.auth EXCEPT !.type = Text(@, "none")]
    BY <2>1, ControllerFields
  <2> HIDE DEF c
  <2>3. ASSUME b.enabled
        PROVE  c.url \in WebURLs /\ Positive(c, {"interval", "timeout"}) /\ AuthValid(c.auth)
               /\ RetryValid(c.retry)
    <3>1. b.url \in WebURLs /\ b.interval > 0 /\ b.timeout > 0 /\ AuthValid(b.auth) /\ RetryValid(b.retry)
      BY <2>1, <2>3, Zenon DEF ControllerValid, Positive
    <3>2. c.interval > 0 /\ c.timeout > 0
      BY <2>2, <3>1, DefaultTimes, Zenon DEF Time
    <3>3. Positive(c, {"interval", "timeout"})
      BY <3>2, Zenon DEF Positive
    <3>4. AuthValid(c.auth)
      BY <2>1, <2>2, <3>1, AuthStays DEF IsEndpoint
    <3>5. RetryValid(c.retry)
      BY <2>1, <2>2, <3>1, RetryStays
    <3> QED
      BY <2>2, <3>1, <3>3, <3>4, <3>5
  <2>4. ControllerValid(c)
    BY <2>2, <2>3, Zenon DEF ControllerValid
  <2> QED
    BY <2>2, <2>4 DEF c
<1>9. \A c \in d.controller : ControllerValid(c)
  BY <1>1, <1>8
<1>10. d.webhooks # <<>> \/ \E c \in d.controller : c.enabled
  <2>1. CASE \E b \in h.controller : b.enabled
    BY <1>1, <1>8, <2>1
  <2>2. CASE h.webhooks # <<>>
    <3>1. h.webhooks \in Seq(ToSet(h.webhooks))
      BY DEF IsHTTP
    <3>2. DOMAIN h.webhooks # {}
      <4>1. Len(h.webhooks) \in Nat /\ Len(h.webhooks) # 0
        BY <2>2, <3>1, EmptySeq, LenProperties
      <4>2. DOMAIN h.webhooks = 1 .. Len(h.webhooks)
        BY <3>1, LenProperties
      <4>3. \A n \in Nat : n # 0 => 1 \in 1 .. n
        OBVIOUS
      <4> QED
        BY <4>1, <4>2, <4>3, Zenon
    <3>3. DOMAIN d.webhooks # {}
      BY <1>1, <3>2
    <3> QED
      BY <3>3
  <2> QED
    BY <2>1, <2>2 DEF HTTPValid
<1>11. ASSUME NEW i \in DOMAIN d.webhooks, NEW j \in DOMAIN d.webhooks,
              i # j, d.webhooks[i].name # ""
       PROVE  d.webhooks[i].name # d.webhooks[j].name
  BY <1>7, <1>11 DEF HTTPValid
<1> QED
  BY <1>5, <1>6, <1>7, <1>9, <1>10, <1>11, Zenon DEF HTTPValid

FileFields ==
    {"parses", "apiVersion", "kind", "name", "settings", "monitors", "kubernetes", "http",
     "prometheus", "remediation", "reload", "profiling"}

(* What ApplyDefaults makes of a configuration, block by block. *)
LEMMA DefaultedBlocks ==
  ASSUME NEW c, Has(c, FileFields)
  PROVE  LET d == ApplyDefaults(c)
         IN  /\ Has(d, FileFields)
             /\ d.apiVersion = c.apiVersion /\ d.kind = c.kind /\ d.name = c.name
             /\ d.settings = SettingsDefaults(c.settings)
             /\ d.monitors = [i \in DOMAIN c.monitors |-> MonitorDefaults(c.monitors[i])]
             /\ d.kubernetes = {KubernetesDefaults(k) : k \in c.kubernetes}
             /\ d.http = {HTTPDefaults(h) : h \in c.http}
             /\ d.prometheus = {PrometheusDefaults(p) : p \in c.prometheus}
             /\ d.remediation = RemediationDefaults(c.remediation)
<1> DEFINE d == ApplyDefaults(c)
<1>1. DOMAIN d = DOMAIN c
  BY DEF ApplyDefaults, FileFields, Has
<1>2. d.apiVersion = c.apiVersion /\ d.kind = c.kind /\ d.name = c.name
  BY DEF ApplyDefaults, FileFields, Has
<1>3. d.settings = SettingsDefaults(c.settings) /\ d.remediation = RemediationDefaults(c.remediation)
  BY DEF ApplyDefaults, FileFields, Has
<1>4. d.monitors = [i \in DOMAIN c.monitors |-> MonitorDefaults(c.monitors[i])]
  BY DEF ApplyDefaults, FileFields, Has
<1>5. d.kubernetes = {KubernetesDefaults(k) : k \in c.kubernetes}
  BY DEF ApplyDefaults, FileFields, Has
<1>6. d.http = {HTTPDefaults(h) : h \in c.http}
  BY DEF ApplyDefaults, FileFields, Has
<1>7. d.prometheus = {PrometheusDefaults(p) : p \in c.prometheus}
  BY DEF ApplyDefaults, FileFields, Has
<1> HIDE DEF d
<1>8. Has(d, FileFields)
  BY <1>1 DEF Has
<1> QED
  BY <1>2, <1>3, <1>4, <1>5, <1>6, <1>7, <1>8 DEF d

(* The monitors of a loaded file have their durations. *)
DurationsSet(ms) == \A i \in DOMAIN ms : ms[i].interval # Unset /\ ms[i].timeout # Unset

(* After ApplyDefaults a monitor has an interval and a timeout. *)
LEMMA MonitorBecomesSet ==
  ASSUME NEW m, IsMonitor(m)
  PROVE  LET d == MonitorDefaults(m)
         IN  IsMonitor(d) /\ d.interval # Unset /\ d.timeout # Unset
<1> DEFINE d == MonitorDefaults(m)
<1>1. DOMAIN d = DOMAIN m
  BY DEF MonitorDefaults, IsMonitor, Has
<1>2. d.interval = Time(m.interval, 30 * Sec) /\ d.timeout = Time(m.timeout, 10 * Sec)
  BY DEF MonitorDefaults, IsMonitor, Has
<1> HIDE DEF d
<1>3. d.interval # Unset /\ d.timeout # Unset
  BY <1>2, DefaultTimes, Zenon DEF Time
<1>4. IsMonitor(d)
  BY <1>1 DEF IsMonitor, Has
<1> QED
  BY <1>3, <1>4 DEF d

(* ApplyDefaults keeps the fields of the remediation block. *)
LEMMA RemediationShape ==
  ASSUME NEW r, IsRemediation(r)
  PROVE  IsRemediation(RemediationDefaults(r))
<1> DEFINE d == RemediationDefaults(r)
<1>1. DOMAIN d = DOMAIN r
  BY DEF RemediationDefaults, IsRemediation, Has
<1>2. /\ d.breaker = BreakerDefaults(r.breaker)
      /\ d.coordination = {CoordinationDefaults(c) : c \in r.coordination}
  BY DEF RemediationDefaults, IsRemediation, Has
<1> HIDE DEF d
<1>3. DOMAIN d.breaker = DOMAIN r.breaker
  BY <1>2 DEF BreakerDefaults
<1>4. ASSUME NEW c \in r.coordination PROVE DOMAIN CoordinationDefaults(c) = DOMAIN c
  BY DEF CoordinationDefaults
<1>5. \A c \in d.coordination :
        Has(c, {"enabled", "url", "leaseTimeout", "requestTimeout", "maxRetries", "retryInterval"})
  BY <1>2, <1>4 DEF IsRemediation, Has
<1>6. IsRemediation(d)
  BY <1>1, <1>3, <1>5, Zenon DEF IsRemediation, Has
<1> QED
  BY <1>6 DEF d

(* A loaded file has the shape of a file, and nothing left to default in   *)
(* its monitors and its HTTP exporter.                                     *)
LEMMA LoadedShape ==
  ASSUME NEW f, IsFile(f)
  PROVE  LET g == ApplyDefaults(f)
         IN  IsFile(g) /\ DurationsSet(g.monitors) /\ \A h \in g.http : RetriesSet(h)
<1> DEFINE g == ApplyDefaults(f)
<1>1. Has(f, FileFields)
  BY DEF IsFile, FileFields
<1>2. /\ Has(g, FileFields)
      /\ g.settings = SettingsDefaults(f.settings)
      /\ g.monitors = [i \in DOMAIN f.monitors |-> MonitorDefaults(f.monitors[i])]
      /\ g.kubernetes = {KubernetesDefaults(k) : k \in f.kubernetes}
      /\ g.http = {HTTPDefaults(h) : h \in f.http}
      /\ g.prometheus = {PrometheusDefaults(p) : p \in f.prometheus}
      /\ g.remediation = RemediationDefaults(f.remediation)
  BY <1>1, DefaultedBlocks
<1> HIDE DEF g
<1>3. Has(g.settings, SettingsFields)
  <2>1. DOMAIN g.settings = DOMAIN f.settings
    BY <1>2 DEF SettingsDefaults
  <2> QED
    BY <2>1 DEF IsFile, SettingsFields, Has
<1>4. ASSUME NEW i \in DOMAIN g.monitors
      PROVE  IsMonitor(g.monitors[i]) /\ g.monitors[i].interval # Unset /\ g.monitors[i].timeout # Unset
  <2>1. i \in DOMAIN f.monitors /\ g.monitors[i] = MonitorDefaults(f.monitors[i])
    BY <1>2
  <2>2. IsMonitor(f.monitors[i])
    BY <2>1 DEF IsFile, ToSet
  <2> QED
    BY <2>1, <2>2, MonitorBecomesSet
<1>5. \A m \in ToSet(g.monitors) : IsMonitor(m)
  BY <1>4 DEF ToSet
<1>6. g.monitors \in Seq(ToSet(g.monitors))
  <2> DEFINE s == f.monitors
             t == g.monitors
  <2>1. s \in Seq(ToSet(s)) /\ DOMAIN t = DOMAIN s /\ t = [i \in DOMAIN t |-> t[i]]
    BY <1>2 DEF IsFile
  <2> HIDE DEF s, t
  <2>2. t \in Seq(ToSet(t))
    BY <2>1, MappedSeq
  <2> QED
    BY <2>2 DEF t
<1>7. \A k \in g.kubernetes :
        Has(k, {"enabled", "namespace", "updateInterval", "resyncInterval", "heartbeatInterval",
                "conditionStaleTTL", "eventTTL", "deduplicationWindow", "maxEventsPerMinute",
                "conditions", "annotations"})
  <2>1. ASSUME NEW k \in f.kubernetes PROVE DOMAIN KubernetesDefaults(k) = DOMAIN k
    BY DEF KubernetesDefaults
  <2> QED
    BY <1>2, <2>1 DEF IsFile, Has
<1>8. \A h \in g.http : IsHTTP(h) /\ RetriesSet(h)
  BY <1>2, HTTPBecomesSet DEF IsFile
<1>9. \A p \in g.prometheus : Has(p, {"enabled", "port", "path", "namespace", "subsystem"})
  <2>1. ASSUME NEW p \in f.prometheus PROVE DOMAIN PrometheusDefaults(p) = DOMAIN p
    BY DEF PrometheusDefaults
  <2> QED
    BY <1>2, <2>1 DEF IsFile, Has
<1>10. IsRemediation(g.remediation)
  BY <1>2, RemediationShape DEF IsFile
<1>11. IsFile(g)
  BY <1>2, <1>3, <1>5, <1>6, <1>7, <1>8, <1>9, <1>10, Zenon DEF IsFile, FileFields, SettingsFields
<1>12. DurationsSet(g.monitors)
  BY <1>4 DEF DurationsSet
<1> QED
  BY <1>8, <1>11, <1>12 DEF g

(* The default monitors a configuration gets (ApplyDefaultMonitors). *)
Missing(g) == {d \in DefaultMonitors : d.type \notin {m.type : m \in ToSet(g.monitors)}}
AllMonitors(g) == g.monitors \o SetToSeq(Missing(g))
WithDryRun(r) == [r EXCEPT !.dryRun = @ \/ flags.dryRun]

(* What normalizeConfig makes of a loaded file, block by block. *)
LEMMA NormalizedBlocks ==
  ASSUME NEW g, IsFile(g)
  PROVE  LET c == Normalize(g)
         IN  /\ c.apiVersion = g.apiVersion /\ c.kind = g.kind /\ c.name = g.name
             /\ c.settings = SettingsDefaults(WithFlags(g.settings))
             /\ c.monitors = [i \in DOMAIN AllMonitors(g) |-> MonitorDefaults(AllMonitors(g)[i])]
             /\ c.kubernetes = {KubernetesDefaults(k) : k \in g.kubernetes}
             /\ c.http = {HTTPDefaults(h) : h \in g.http}
             /\ c.prometheus = {PrometheusDefaults(p) : p \in g.prometheus}
             /\ c.remediation = RemediationDefaults(WithDryRun(g.remediation))
<1> DEFINE a == ApplyDefaultMonitors(g)
           b == ApplyFlags(a)
<1>1. Has(g, FileFields)
  BY DEF IsFile, FileFields
<1>2. a = [g EXCEPT !.monitors = AllMonitors(g)]
  BY DEF ApplyDefaultMonitors, AllMonitors, Missing
<1>3. /\ DOMAIN a = DOMAIN g /\ a.monitors = AllMonitors(g)
      /\ a.apiVersion = g.apiVersion /\ a.kind = g.kind /\ a.name = g.name
      /\ a.settings = g.settings /\ a.kubernetes = g.kubernetes /\ a.http = g.http
      /\ a.prometheus = g.prometheus /\ a.remediation = g.remediation
  BY <1>1, <1>2 DEF FileFields, Has
<1> HIDE DEF a
<1>4. Has(a, FileFields)
  BY <1>1, <1>3 DEF Has
<1>5. /\ DOMAIN b = DOMAIN a /\ b.monitors = a.monitors
      /\ b.apiVersion = a.apiVersion /\ b.kind = a.kind /\ b.name = a.name
      /\ b.kubernetes = a.kubernetes /\ b.http = a.http /\ b.prometheus = a.prometheus
  BY <1>4 DEF ApplyFlags, FileFields, Has
<1>6. b.settings = WithFlags(a.settings)
  BY <1>4 DEF ApplyFlags, WithFlags, FileFields, Has
<1>7. b.remediation = WithDryRun(a.remediation)
  BY <1>4 DEF ApplyFlags, WithDryRun, FileFields, Has
<1>8. Normalize(g) = ApplyDefaults(b)
  BY DEF Normalize, a
<1> HIDE DEF b
<1>9. Has(b, FileFields)
  BY <1>4, <1>5 DEF Has
<1> DEFINE c == ApplyDefaults(b)
<1>10. /\ c.apiVersion = b.apiVersion /\ c.kind = b.kind /\ c.name = b.name
       /\ c.settings = SettingsDefaults(b.settings)
       /\ c.monitors = [i \in DOMAIN b.monitors |-> MonitorDefaults(b.monitors[i])]
       /\ c.kubernetes = {KubernetesDefaults(k) : k \in b.kubernetes}
       /\ c.http = {HTTPDefaults(h) : h \in b.http}
       /\ c.prometheus = {PrometheusDefaults(p) : p \in b.prometheus}
       /\ c.remediation = RemediationDefaults(b.remediation)
  BY <1>9, DefaultedBlocks
<1> HIDE DEF c
<1> QED
  BY <1>3, <1>5, <1>6, <1>7, <1>8, <1>10 DEF c

(* The command line says nothing the remediation settings are tested for. *)
LEMMA DryRunStaysValid ==
  ASSUME NEW r, IsRemediation(r), GlobalRemediationValid(r)
  PROVE  IsRemediation(WithDryRun(r)) /\ GlobalRemediationValid(WithDryRun(r))
<1> DEFINE d == WithDryRun(r)
<1>1. /\ DOMAIN d = DOMAIN r /\ d.perHour = r.perHour /\ d.perMinute = r.perMinute
      /\ d.historySize = r.historySize /\ d.breaker = r.breaker /\ d.coordination = r.coordination
  BY DEF WithDryRun, IsRemediation, Has
<1> HIDE DEF d
<1>2. IsRemediation(d)
  BY <1>1, Zenon DEF IsRemediation, Has
<1>3. GlobalRemediationValid(d)
  BY <1>1, Zenon DEF GlobalRemediationValid
<1> QED
  BY <1>2, <1>3 DEF d

(* Every monitor of the normalized configuration, the file's own and the   *)
(* added ones, passes.                                                     *)
LEMMA MonitorsStayValid ==
  ASSUME NEW g, IsFile(g), DurationsSet(g.monitors), \A m \in ToSet(g.monitors) : MonitorValid(m),
         NEW i \in DOMAIN AllMonitors(g)
  PROVE  MonitorValid(MonitorDefaults(AllMonitors(g)[i]))
<1> DEFINE s == g.monitors
           u == SetToSeq(Missing(g))
           all == AllMonitors(g)
<1>1. s \in Seq(ToSet(s))
  BY DEF IsFile
<1>2. u \in Seq(Missing(g))
  <2>1. IsFiniteSet(Missing(g))
    BY LoadingAssumption, FS_Subset DEF Missing
  <2> QED
    BY <2>1, SetAsSequence
<1> HIDE DEF u
<1>3. all = s \o u
  BY DEF AllMonitors, u
<1>4. s \in Seq(ToSet(s) \cup Missing(g)) /\ u \in Seq(ToSet(s) \cup Missing(g))
  BY <1>1, <1>2
<1> DEFINE n == Len(s)
           k == Len(u)
<1>5. n \in Nat /\ k \in Nat /\ DOMAIN s = 1 .. n /\ DOMAIN u = 1 .. k
  BY <1>4, LenProperties
<1>6. /\ DOMAIN all = 1 .. n + k
      /\ \A x \in 1 .. n + k : all[x] = IF x <= n THEN s[x] ELSE u[x - n]
  BY <1>3, <1>4, ConcatProperties, LenProperties
<1> HIDE DEF all, n, k
<1>7. i \in 1 .. n + k
  BY <1>6 DEF all
<1>8. CASE i <= n
  <2>1. i \in DOMAIN s /\ all[i] = s[i]
    BY <1>5, <1>6, <1>7, <1>8
  <2>2. s[i] \in ToSet(s)
    BY <2>1 DEF ToSet
  <2>3. IsMonitor(s[i]) /\ MonitorValid(s[i]) /\ s[i].interval # Unset /\ s[i].timeout # Unset
    BY <2>1, <2>2 DEF IsFile, DurationsSet
  <2>4. MonitorValid(MonitorDefaults(s[i]))
    BY <2>3, MonitorStaysValid
  <2> QED
    BY <2>1, <2>4 DEF all
<1>9. CASE ~(i <= n)
  <2>1. i - n \in DOMAIN u /\ all[i] = u[i - n]
    BY <1>5, <1>6, <1>7, <1>9
  <2>2. u[i - n] \in Missing(g)
    BY <1>2, <1>5, <2>1, ElementOfSeq
  <2> QED
    BY <2>1, <2>2, FilesAssumption DEF Missing, all
<1> QED
  BY <1>8, <1>9

(* What a reload makes of a file that loads, startup accepts too, if the   *)
(* reload does: it tests the names, the types and the dependencies, and    *)
(* all else was tested when the file was loaded.                           *)
LEMMA ReloadPassesStartup ==
  ASSUME NEW f \in Files, NEW g \in LoadConfig(f), FlagsFit, ConfigValidatorAccepts(Normalize(g))
  PROVE  ValidateWithRegistry(Normalize(g))
<1> DEFINE c == Normalize(g)
<1>1. g = ApplyDefaults(f) /\ Validate(g)
  BY DEF LoadConfig
<1>2. IsFile(g) /\ DurationsSet(g.monitors) /\ \A h \in g.http : RetriesSet(h)
  BY <1>1, FilesAssumption, LoadedShape
<1>3. /\ g.apiVersion # "" /\ g.kind = "NodeDoctorConfig" /\ g.name # ""
      /\ SettingsValid(g.settings)
      /\ \A m \in ToSet(g.monitors) : MonitorValid(m)
      /\ \A k \in g.kubernetes : KubernetesValid(k)
      /\ \A h \in g.http : HTTPValid(h)
      /\ \A p \in g.prometheus : PrometheusValid(p)
      /\ GlobalRemediationValid(g.remediation)
  BY <1>1 DEF Validate
<1>4. /\ c.apiVersion = g.apiVersion /\ c.kind = g.kind /\ c.name = g.name
      /\ c.settings = SettingsDefaults(WithFlags(g.settings))
      /\ c.monitors = [i \in DOMAIN AllMonitors(g) |-> MonitorDefaults(AllMonitors(g)[i])]
      /\ c.kubernetes = {KubernetesDefaults(k) : k \in g.kubernetes}
      /\ c.http = {HTTPDefaults(h) : h \in g.http}
      /\ c.prometheus = {PrometheusDefaults(p) : p \in g.prometheus}
      /\ c.remediation = RemediationDefaults(WithDryRun(g.remediation))
  BY <1>2, NormalizedBlocks
<1>5. ConfigValidatorAccepts(c)
  OBVIOUS
<1> HIDE DEF c
<1>6. /\ NamesDiffer(c.monitors) /\ DependenciesSound(c.monitors)
      /\ \A m \in ToSet(c.monitors) : m.type \in RegisteredTypes
  BY <1>5 DEF ConfigValidatorAccepts, ValidateMonitors, ValidateMonitor
<1>7. SettingsValid(c.settings)
  <2>1. Has(g.settings, SettingsFields)
    BY <1>2 DEF IsFile, SettingsFields
  <2>2. SettingsValid(WithFlags(g.settings)) /\ Has(WithFlags(g.settings), SettingsFields)
    BY <1>3, <2>1, FlagsStayValid
  <2> QED
    BY <1>4, <2>2, SettingsStayValid
<1>8. \A m \in ToSet(c.monitors) : MonitorValid(m)
  <2>1. \A i \in DOMAIN AllMonitors(g) : MonitorValid(MonitorDefaults(AllMonitors(g)[i]))
    BY <1>2, <1>3, MonitorsStayValid
  <2> DEFINE all == AllMonitors(g)
  <2> HIDE DEF all
  <2> QED
    BY <1>4, <2>1 DEF ToSet
<1>9. \A k \in c.kubernetes : KubernetesValid(k)
  <2>1. \A k \in g.kubernetes : KubernetesValid(KubernetesDefaults(k))
    BY <1>2, <1>3, KubernetesStaysValid DEF IsFile
  <2> QED
    BY <1>4, <2>1
<1>10. \A h \in c.http : HTTPValid(h)
  <2>1. \A h \in g.http : HTTPValid(HTTPDefaults(h))
    BY <1>2, <1>3, HTTPStaysValid DEF IsFile
  <2> QED
    BY <1>4, <2>1
<1>11. \A p \in c.prometheus : PrometheusValid(p)
  <2>1. \A p \in g.prometheus : PrometheusValid(PrometheusDefaults(p))
    BY <1>2, <1>3, PrometheusStaysValid DEF IsFile
  <2> QED
    BY <1>4, <2>1
<1>12. GlobalRemediationValid(c.remediation)
  <2>1. IsRemediation(g.remediation)
    BY <1>2 DEF IsFile
  <2>2. IsRemediation(WithDryRun(g.remediation)) /\ GlobalRemediationValid(WithDryRun(g.remediation))
    BY <1>3, <2>1, DryRunStaysValid
  <2> QED
    BY <1>4, <2>2, RemediationStaysValid
<1>13. Validate(c)
  BY <1>3, <1>4, <1>6, <1>7, <1>8, <1>9, <1>10, <1>11, <1>12, Zenon DEF Validate
<1>14. ValidateWithRegistry(c)
  BY <1>6, <1>13 DEF ValidateWithRegistry
<1> QED
  BY <1>14 DEF c

(* An agent that started was given flags that startup accepts. *)
LEMMA FlagsFitAtStart ==
  ASSUME NEW f \in Files, NEW c \in Started(f)
  PROVE  FlagsFit
<1>1. PICK g \in LoadConfig(f) : c = Normalize(g) /\ ValidateWithRegistry(c)
  BY DEF Started
<1>2. g = ApplyDefaults(f)
  BY DEF LoadConfig
<1>3. IsFile(g)
  BY <1>2, FilesAssumption, LoadedShape
<1> DEFINE s == g.settings
           e == WithFlags(s)
           d == SettingsDefaults(e)
<1>4. c.settings = d
  BY <1>1, <1>3, NormalizedBlocks
<1>5. SettingsValid(d)
  BY <1>1, <1>4 DEF ValidateWithRegistry, Validate
<1>6. Has(s, SettingsFields)
  BY <1>3 DEF IsFile, SettingsFields
<1> HIDE DEF s
<1>7. /\ DOMAIN e = DOMAIN s
      /\ e.logLevel = Text(flags.logLevel, IF flags.debug THEN "debug" ELSE s.logLevel)
      /\ e.logFormat = Text(flags.logFormat, s.logFormat)
  BY <1>6 DEF WithFlags, Has, SettingsFields
<1> HIDE DEF e
<1>8. d.logLevel = Text(e.logLevel, "info") /\ d.logFormat = Text(e.logFormat, "json")
  BY <1>6, <1>7 DEF SettingsDefaults, Has, SettingsFields
<1> HIDE DEF d
<1>9. d.logLevel \in {"debug", "info", "warn", "error", "fatal"} /\ d.logFormat \in {"json", "text"}
  BY <1>5, SettingsByField
<1>10. flags.logLevel # "" => d.logLevel = flags.logLevel
  BY <1>7, <1>8 DEF Text
<1>11. flags.logFormat # "" => d.logFormat = flags.logFormat
  BY <1>7, <1>8 DEF Text
<1> QED
  BY <1>9, <1>10, <1>11 DEF FlagsFit

(* What a start makes of a file depends on the file and the flags. *)
LEMMA SameFlagsSameStart ==
  ASSUME flags' = flags, NEW f
  PROVE  Started(f)' = Started(f) /\ (FlagsFit' <=> FlagsFit)
BY DEF Started, Normalize, ApplyFlags, FlagsFit

(* What was adopted is what a start makes of its file, and the flags were  *)
(* accepted by a start.                                                    *)
AdoptedIsStarted ==
    /\ edits \in Nat /\ disk \in Files /\ source \subseteq Files
    /\ \A f \in source, c \in live : c \in Started(f)
    /\ live # {} => FlagsFit

(* Every step of loading keeps what was adopted the result of a start on the file
   it was read from. *)
LEMMA AdoptedIsStartedStep ==
  ASSUME AdoptedIsStarted, [LoadingNext]_loadingVars
  PROVE  AdoptedIsStarted'
<1>1. flags' = flags
  BY DEF LoadingNext, StartAgent, StopAgent, EditConfigFile, ReloadFromDisk, loadingVars
<1>2. (FlagsFit' <=> FlagsFit) /\ \A f : Started(f)' = Started(f)
  BY <1>1, SameFlagsSameStart
<1>3. CASE StartAgent
  <2>1. /\ Started(disk) # {} /\ live' = Started(disk) /\ source' = {disk}
        /\ UNCHANGED <<disk, edits>>
    BY <1>3 DEF StartAgent
  <2>2. FlagsFit
    BY <2>1, FlagsFitAtStart DEF AdoptedIsStarted
  <2> QED
    BY <1>2, <2>1, <2>2 DEF AdoptedIsStarted
<1>4. CASE StopAgent
  BY <1>4 DEF StopAgent, AdoptedIsStarted
<1>5. CASE EditConfigFile
  <2>1. /\ edits < MaxEdits /\ edits' = edits + 1 /\ disk' \in EditsOf(disk, edits)
        /\ UNCHANGED <<live, source>>
    BY <1>5 DEF EditConfigFile
  <2>2. edits \in 0 .. MaxEdits - 1 /\ edits' \in Nat
    BY <2>1, FilesAssumption DEF AdoptedIsStarted
  <2>3. disk' \in Files
    BY <2>1, <2>2, FilesAssumption DEF AdoptedIsStarted
  <2> QED
    BY <1>2, <2>1, <2>2, <2>3 DEF AdoptedIsStarted
<1>6. CASE ReloadFromDisk
  <2>1. UNCHANGED <<disk, edits>>
    BY <1>6 DEF ReloadFromDisk
  <2>2. PICK old \in live, next \in Reloaded(disk) :
          \/ live' = {next} /\ source' = {disk}
          \/ UNCHANGED <<live, source>>
    BY <1>6 DEF ReloadFromDisk
  <2>3. CASE UNCHANGED <<live, source>>
    BY <1>2, <2>1, <2>3 DEF AdoptedIsStarted
  <2>4. CASE live' = {next} /\ source' = {disk}
    <3>1. PICK g \in LoadConfig(disk) : next = Normalize(g) /\ ConfigValidatorAccepts(next)
      BY <2>2 DEF Reloaded
    <3>2. FlagsFit /\ disk \in Files
      BY <2>2 DEF AdoptedIsStarted
    <3>3. ValidateWithRegistry(next)
      BY <3>1, <3>2, ReloadPassesStartup
    <3>4. next \in Started(disk)
      BY <3>1, <3>3 DEF Started
    <3> QED
      BY <1>2, <2>1, <2>4, <3>2, <3>4 DEF AdoptedIsStarted
  <2> QED
    BY <2>2, <2>3, <2>4
<1>7. CASE UNCHANGED loadingVars
  BY <1>2, <1>7 DEF loadingVars, AdoptedIsStarted
<1> QED
  BY <1>3, <1>4, <1>5, <1>6, <1>7 DEF LoadingNext

(* Whatever the files say and however often they change, the agent starts  *)
(* again from the file of the configuration it has adopted, and makes the  *)
(* same configuration of it: the gate of a reload lets nothing through     *)
(* that startup would die of (ConfigValidator, normalizeConfig,            *)
(* ValidateWithRegistry).                                                  *)
THEOREM RestartIsSafe == LoadingSpec => []AdoptedComesBack
<1>1. LoadingInit => AdoptedIsStarted
  BY FilesAssumption DEF LoadingInit, AdoptedIsStarted
<1>2. AdoptedIsStarted => AdoptedComesBack
  <2>1. \A c : ~HasChanges(c, c)
    BY DEF HasChanges
  <2> QED
    BY <2>1 DEF AdoptedIsStarted, AdoptedComesBack
<1> QED
  BY <1>1, <1>2, AdoptedIsStartedStep, PTL DEF LoadingSpec
=============================================================================
