---------------------------- MODULE CustomChecks ----------------------------
(***************************************************************************)
(* The check of the custom plugin monitor (pkg/monitors/custom: plugin.go, *)
(* executor.go, parser.go), in the form KubernetesChecks explains.         *)
(***************************************************************************)
EXTENDS PeerChecks

PluginConfigs == [threshold : {2}, format : {"simple", "json"}]

(* wedged: the check waits for a lock it holds itself, and never returns. *)
PluginFresh == [failures |-> 0, reported |-> FALSE, wedged |-> FALSE]

(* What running the plugin brings: whether it could be run, its exit code  *)
(* (-1: killed by a signal or not started), and what its output says.      *)
PluginInputs == {o \in [runs : {"not executable", "timeout", "ended"}, code : -1 .. 3,
                        says : {"nothing", "no status", "nonsense", "healthy", "warning",
                                "critical", "unknown"}] :
                    o.runs # "ended" => o.code = -1 /\ o.says = "nothing"}

(* Execute: an exit code above 0 is a result, no exit code an error. *)
Executed(o) == o.runs = "ended" /\ o.code >= 0

StatusFromExitCode(code) ==
    CASE code = 0 -> "healthy" [] code = 1 -> "warning" [] code = 2 -> "critical"
      [] OTHER -> "unknown"

(* Parse: what the output says wins; output that says nothing known falls  *)
(* back to the exit code.  An "unknown" wins in the simple format only     *)
(* (parseSimple); JSON without a status is unknown (parseJSON).            *)
Parse(cfg, o) ==
    CASE o.says \in {"healthy", "warning", "critical"} -> o.says
      [] cfg.format = "simple" /\ o.says = "unknown" -> "unknown"
      [] cfg.format = "json" /\ o.says = "no status" -> "unknown"
      [] OTHER -> StatusFromExitCode(o.code)

(* trackFailure, and the same count for a critical result: reported once,  *)
(* then only the condition of the single failure.                          *)
TrackPluginFailure(cfg, st, single) ==
    LET n == st.failures + 1
        edge == n >= cfg.threshold /\ ~st.reported
    IN  Result([st EXCEPT !.failures = n, !.reported = @ \/ edge],
               <<Raise(IF edge THEN "PluginUnhealthy" ELSE single)>>)

(* evaluateResult: it holds the monitor's lock, and hands an unknown       *)
(* result to trackFailure, which asks for the same lock.                   *)
EvaluateResult(cfg, st, status) ==
    CASE status = "healthy" ->
           Result([st EXCEPT !.failures = 0, !.reported = FALSE],
                  When(st.reported, <<Clear("PluginUnhealthy")>>) \o <<Raise("PluginHealthy")>>)
      [] status = "warning" -> Result([st EXCEPT !.failures = 0], <<Raise("PluginWarning")>>)
      [] status = "critical" -> TrackPluginFailure(cfg, st, "PluginCritical")
      [] status = "unknown" -> Result([st EXCEPT !.wedged = TRUE], <<>>)

(* checkPlugin *)
CheckPlugin(cfg, st, o) ==
    IF ~Executed(o) THEN TrackPluginFailure(cfg, st, "PluginCheckFailed")
    ELSE EvaluateResult(cfg, st, Parse(cfg, o))

(* A wedged monitor checks no more; no other monitor can wedge. *)
Wedged(m, st) == m = "plugin" /\ st.wedged
=============================================================================
