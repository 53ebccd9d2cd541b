---------------------------- MODULE SystemChecks ----------------------------
(***************************************************************************)
(* The checks of the CPU, memory and disk monitors (pkg/monitors/system),  *)
(* in the form KubernetesChecks explains.  A monitor reports itself        *)
(* healthy when its check raised no event.                                 *)
(***************************************************************************)
EXTENDS NetworkChecks

(* A count of checks in a row and the condition it raises at its limit:    *)
(* what CPU load and memory usage have in common.                          *)
Sustained(limit, n, c) == When(n >= limit, <<Raise(c)>>)

(* CPU: load in percent of the cores, -1 where it cannot be read; the      *)
(* throttle counter of a core, likewise.                                   *)
CPUConfigs == {c \in [sustained : {2}, warning : {1}, critical : {2}, load : BOOLEAN,
                      thermal : BOOLEAN] : c.load \/ c.thermal}
CPUFresh == [high |-> 0, throttle |-> -1]
CPUInputs == [load : -1 .. 2, throttle : -1 .. 2]

CheckLoadAverage(cfg, st, o) ==
    IF ~cfg.load \/ o.load = -1 THEN Result(st, <<>>)
    ELSE IF o.load >= cfg.critical
    THEN Result([st EXCEPT !.high = @ + 1], Sustained(cfg.sustained, st.high + 1, "CPUPressure"))
    ELSE Result([st EXCEPT !.high = 0], <<Clear("CPUPressure")>>)

(* checkThermalThrottle: the counter has moved since it was last read. *)
Throttled(cfg, st, o) ==
    cfg.thermal /\ st.throttle # -1 /\ o.throttle > st.throttle

CheckThermalThrottle(cfg, st, o) ==
    LET last == IF cfg.thermal /\ o.throttle # -1 THEN o.throttle ELSE st.throttle
    IN  Result([st EXCEPT !.throttle = last],
               IF Throttled(cfg, st, o) THEN <<Clear("CPUThermalHealthy")>>
               ELSE When(cfg.thermal /\ last # -1, <<Raise("CPUThermalHealthy")>>))

CheckCPU(cfg, st, o) ==
    LET load == CheckLoadAverage(cfg, st, o)
        thermal == CheckThermalThrottle(cfg, load.state, o)
        quiet == ~Throttled(cfg, st, o) /\ (cfg.load => o.load \in 0 .. cfg.warning - 1)
    IN  Result(thermal.state,
               load.conds \o thermal.conds \o When(quiet, <<Raise("CPUHealthy")>>))

----------------------------------------------------------------------------
(* Memory: MemTotal, MemAvailable (0 on old kernels), MemFree, percent of  *)
(* swap used, the kernel log since the last check, and whether the last    *)
(* kill was reported more than a minute ago.                               *)
MemoryConfigs == {c \in [sustained : {2}, warning : {50}, critical : {75}, usage : BOOLEAN,
                         swap : BOOLEAN, oom : BOOLEAN] : c.usage \/ c.swap \/ c.oom}
MemoryFresh == [high |-> 0, warned |-> {}]
MemoryInputs ==
    {o \in [total : {0, 4}, available : {0, 1, 2, 3}, free : {1}, swap : {0, 60},
            kmsg : {"quiet", "oom", "denied", "unsupported", "error"}, late : BOOLEAN] :
        (o.total = 0 => o.available = 0) /\ (o.kmsg # "oom" => ~o.late)}

(* parseMemInfo fails without MemTotal. *)
MemInfoReadable(o) == o.total # 0
UsagePercent(o) ==
    LET available == IF o.available > 0 THEN o.available ELSE o.free
    IN  ((o.total - available) * 100) \div o.total

MutClearsAtEdge(cfg, st, o) ==
    IF ~cfg.usage \/ ~MemInfoReadable(o) THEN Result(st, <<>>)
    ELSE IF UsagePercent(o) >= cfg.critical
    THEN Result([st EXCEPT !.high = @ + 1], Sustained(cfg.sustained, st.high + 1, "MemoryPressure"))
    ELSE Result([st EXCEPT !.high = 0], When(st.high > 0, <<Clear("MemoryPressure")>>))

CheckMemoryUsage(cfg, st, o) ==
    IF ~cfg.usage \/ ~MemInfoReadable(o) THEN Result(st, <<>>)
    ELSE IF UsagePercent(o) >= cfg.critical
    THEN Result([st EXCEPT !.high = @ + 1], Sustained(cfg.sustained, st.high + 1, "MemoryPressure"))
    ELSE Result([st EXCEPT !.high = 0], <<Clear("MemoryPressure")>>)

MemoryUsageQuiet(cfg, o) ==
    cfg.usage => MemInfoReadable(o) /\ UsagePercent(o) < cfg.warning

CheckSwapUsage(cfg, o) == cfg.swap => MemInfoReadable(o) /\ o.swap < cfg.warning

(* checkOOMKills: a log that cannot be read is reported once; a kill is    *)
(* reported unless one was within the last minute.                         *)
CheckOOMKills(cfg, st, o) ==
    IF ~cfg.oom THEN [warned |-> st.warned, quiet |-> TRUE]
    ELSE IF o.kmsg \in {"denied", "unsupported"}
    THEN [warned |-> st.warned \cup {o.kmsg}, quiet |-> o.kmsg \in st.warned]
    ELSE [warned |-> st.warned, quiet |-> o.kmsg = "quiet" \/ (o.kmsg = "oom" /\ ~o.late)]

CheckMemory(cfg, st, o) ==
    LET usage == CheckMemoryUsage(cfg, st, o)
        oom == CheckOOMKills(cfg, st, o)
        quiet == MemoryUsageQuiet(cfg, o) /\ CheckSwapUsage(cfg, o) /\ oom.quiet
    IN  Result([usage.state EXCEPT !.warned = oom.warned],
               usage.conds \o When(quiet, <<Raise("MemoryHealthy")>>))

----------------------------------------------------------------------------
(* Disk: two mount points, and write probes on both or none.  statfs gives *)
(* the usage of blocks and inodes, "missing", "error" or "readonly"; a     *)
(* probe may hang over any number of checks.  With probes configured only  *)
(* the inputs that matter to them vary.                                    *)
Mounts == <<"root", "data">>
DiskConfigs == {[sustained |-> 2, warning |-> 1, critical |-> 2, probes |-> p] :
                   p \in {{}, {1, 2}}}
DiskFresh == [high |-> [i \in DOMAIN Mounts |-> 0], inFlight |-> {}]
DiskInputs(cfg) ==
    IF cfg.probes = {}
    THEN {o \in [stat : [DOMAIN Mounts -> {"missing", "error", "readonly", "0", "1", "2"}],
                 inodes : {0, 2}, probe : {<<"ok", "ok">>}, ended : {TRUE}] :
            \/ o.stat[1] = o.stat[2]
            \/ o.inodes = 0 /\ o.stat[1] \notin {"missing", "error"}}
    ELSE [stat : {<<"0", "0">>, <<"0", "readonly">>}, inodes : {0},
          probe : [DOMAIN Mounts -> {"ok", "failed", "hangs", "cancelled"}], ended : BOOLEAN]

Usage(s) == CASE s = "0" -> 0 [] s = "1" -> 1 [] s = "2" -> 2 [] OTHER -> -1

(* checkDiskSpaceUsage: elevated usage counts towards the limit as well,   *)
(* but only critical usage raises the condition.                           *)
CheckDiskSpaceUsage(cfg, n, u) ==
    IF u >= cfg.critical /\ n + 1 >= cfg.sustained THEN Raise("DiskPressure")
    ELSE Clear("DiskPressure")
DiskCount(cfg, n, u) == CASE u = -1 -> n [] u >= cfg.warning -> n + 1 [] OTHER -> 0

CheckInodeUsage(cfg, u) ==
    IF u >= cfg.critical THEN Raise("InodePressure") ELSE Clear("InodePressure")

CheckMountPoint(cfg, st, o, i) ==
    LET u == Usage(o.stat[i])
    IN  CASE o.stat[i] = "readonly" -> <<Raise("ReadonlyFilesystem")>>
          [] u # -1 -> <<CheckDiskSpaceUsage(cfg, st.high[i], u), CheckInodeUsage(cfg, o.inodes)>>
          [] OTHER -> <<>>

(* writeProbe: the probe of an earlier check that is still running is a    *)
(* failure, and no second one is started.                                  *)
Stuck(st, o) == IF o.ended THEN {} ELSE st.inFlight
WriteProbe(st, o, i) ==
    IF i \in Stuck(st, o) \/ o.probe[i] \in {"failed", "hangs"} THEN "failed" ELSE o.probe[i]

(* runWriteProbes: one condition; no verdict changes nothing, and success  *)
(* does not override a filesystem that is mounted read-only.               *)
RunWriteProbes(cfg, st, o) ==
    LET verdicts == {WriteProbe(st, o, i) : i \in cfg.probes}
    IN  IF "failed" \in verdicts THEN <<Raise("ReadonlyFilesystem")>>
        ELSE When("ok" \in verdicts /\ \A i \in DOMAIN Mounts : o.stat[i] # "readonly",
                  <<Clear("ReadonlyFilesystem")>>)

CheckDisk(cfg, st, o) ==
    LET left == Stuck(st, o) \cup {i \in cfg.probes : o.probe[i] \in {"hangs", "cancelled"}}
        quiet == /\ \A i \in DOMAIN Mounts : o.stat[i] \in {"missing", "0"}
                 /\ o.inodes < cfg.warning \/ \A i \in DOMAIN Mounts : o.stat[i] = "missing"
                 /\ \A i \in cfg.probes : WriteProbe(st, o, i) # "failed"
    IN  Result([high |-> [i \in DOMAIN Mounts |-> DiskCount(cfg, st.high[i], Usage(o.stat[i]))],
                inFlight |-> left],
               FlattenSeq([i \in DOMAIN Mounts |-> CheckMountPoint(cfg, st, o, i)])
               \o RunWriteProbes(cfg, st, o) \o When(quiet, <<Raise("DiskHealthy")>>))
=============================================================================
