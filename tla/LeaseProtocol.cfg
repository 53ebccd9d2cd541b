\* Two agents, one lease: lost, late and repeated requests, crashes on both sides.
SPECIFICATION FairProtocolSpec
CONSTANTS
    Nodes = {n1, n2}
    MaxConcurrent = 1
    CooldownPeriod = 0
    LeaseDurations = {1}
    Faults = {}
    MaxTime = 2
    MaxLeases = 3
    MaxRetries = 2
    FallbackOnUnreachable = FALSE
    MaxSends = 2
INVARIANTS RunningOwnsLease CoordinatedBound
PROPERTY AttemptsEnd
