\* The dispatch policy under queueing and drops; the agent as it runs, with one
\* dispatching goroutine, reloads and resets at any point; every strategy with
\* every command going wrong.
SPECIFICATION RemediationSpec
CONSTANTS
    Monitors <- PairMonitors
    DependsOn <- PairDependsOn
    Policy <- PairPolicy
    ChanCap = 1
    MaxFlips = 3
    Callers = {c1}
    Strategies <- TwoStrategies
    Configs <- ReloadConfigs
    Window = 2
    MaxHistory = 1
    Cooldown = 1
    MaxAttempts = 2
    Kind <- PodKinds
    MaxJobs = 2
CHECK_DEADLOCK FALSE
INVARIANTS AttemptsPerEpisode SuccessMeansDone RebootAsksEveryPod
PROPERTIES DispatchesSpaced  LoweredCapCountsPast
