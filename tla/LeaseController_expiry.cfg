\* Cooldown after a lease that ran out, with a storage that never fails.
SPECIFICATION Spec
CONSTANTS
    Nodes = {n1}
    MaxConcurrent = 1
    CooldownPeriod = 2
    LeaseDurations = {1}
    Faults = {}
    MaxTime = 4
    MaxLeases = 2
PROPERTY CooldownHonoured
