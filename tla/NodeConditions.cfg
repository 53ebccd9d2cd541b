\* One monitor's condition, a built-in and the heartbeat.
SPECIFICATION FairSpec
CONSTANTS
    Owned <- OwnedTypes
    Foreign <- ForeignTypes
    Heartbeat = "Healthy"
    Custom <- ForeignTypes
    Values = {"True", "False"}
    Default = "True"
    StaleTTL = 0
    MaxFlips = 1
    MaxFaults = 1
    MaxRestarts = 1
CHECK_DEADLOCK FALSE
INVARIANT ForeignIntact
PROPERTIES SteadyShown StaleGoes
