\* One webhook and one worker; two agents, two problems, a common cause and a
\* cascade of both.
SPECIFICATION ReportsSpec
CONSTANTS
    Parts = {"webhooks", "cluster"}
    Webhooks = {"chat"}
    PoolWorkers = {"w1"}
    QueueSize = 1
    MaxTries = 2
    MaxRequests = 3
    MaxPools = 2
    Agents = {"n1", "n2"}
    Problems = {"dns", "net"}
    CommonCauses <- BothProblems
    Cascades <- BothProblems
    MinNodes = 2
    ThresholdPct = 50
    MaxUnderway = 1
    MaxNews = 2
    MaxDbFaults = 1
    MaxStarts = 2
CHECK_DEADLOCK FALSE
INVARIANTS AcceptedHandled StoreAgrees
PROPERTIES StopEnds CorrelationsFollow
