\* Stop of the controller while its correlator evaluates.
SPECIFICATION ReportsSpec
CONSTANTS
    Parts = {"cluster"}
    Webhooks = {"chat"}
    PoolWorkers = {"w1"}
    QueueSize = 1
    MaxTries = 2
    MaxRequests = 3
    MaxPools = 2
    Agents = {"n1", "n2"}
    Problems = {"dns", "net"}
    CommonCauses <- BothProblems
    Cascades <- BothProblems
    MinNodes = 2
    ThresholdPct = 50
    MaxUnderway = 1
    MaxNews = 0
    MaxDbFaults = 0
    MaxStarts = 2
CHECK_DEADLOCK FALSE
PROPERTY ControllerStopEnds
