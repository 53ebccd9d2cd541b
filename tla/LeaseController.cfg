\* Three nodes compete for two leases; the database never loses a write of a
\* new lease or the read at start, but status updates may fail.
SPECIFICATION Spec
CONSTANTS
    Nodes = {n1, n2, n3}
    MaxConcurrent = 2
    CooldownPeriod = 1
    LeaseDurations = {1, 2}
    Faults = {"update"}
    MaxTime = 2
    MaxLeases = 3
SYMMETRY Symmetry
INVARIANT SlotsRespected
PROPERTIES RecordedCooldownHonoured ImplementsService
