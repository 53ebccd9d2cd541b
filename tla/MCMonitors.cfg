\* Every dependency graph of three monitors; one monitor from its
\* start to its end; every monitor in turn, with every
\* reading its sources can give, lost statuses, restarts, and the clock where
\* the monitor looks at it; the kubelet behind its breaker; the events of two managers;
\* three peer series under two reloads.
SPECIFICATION Spec
CONSTANTS
    Parts = {"order", "lifecycle", "checks", "kubelet", "log", "events", "metrics"}
    Names <- ThreeNames
    Unknown <- NoSuchName
    DepLists <- ShortLists
    Lists <- AllLists
    StatusBuffer = 2
    MaxChecks = 4
    Monitors <- AllMonitors
    MaxRun = 3
    MaxTime = 5
    MaxLines = 3
    MaxLag = 1
    MaxEventsPerPattern = 2
    DedupWindow = 1
    LastLines = 2
    CleanupInterval = 2
    EventReasons = {"r", "s"}
    EventMessages = {"m"}
    MaxEventsPerMin = 2
    DeduplicationTTL = 1
    MaxHalves = 2
    MaxManagers = 2
    MaxLostCalls = 1
    MaxExports = 3
    PeerKeys <- ThreeSeries
    FailureThreshold = 2
    BreakerThreshold = 2
    HalfOpenMaxRequests = 2
    OpenTimeout = 1
    MaxBackoffTimeout = 3
    WordBits = 6
    MaxOpenings = 7
    MaxRestarts = 2
    PromConfigs <- PortsAndLabels
    MaxMetricsReloads = 2
CHECK_DEADLOCK FALSE
INVARIANTS CheckExact DependenciesFirst StopSilences AlarmRaised AlarmJustified AlarmCleared
INVARIANTS EventRate NoLineMissed CreatedOnce ScrapeIsCurrent
PROPERTIES BreakerHoldsOff KubeletShown
