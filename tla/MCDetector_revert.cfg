\* A failed reload, then the file is put back.
SPECIFICATION DetectorSpec
CONSTANTS
    Parts = {"reload"}
    Names = {"dns", "disk"}
    Settings <- AllSettings
    FileContents <- EditedConfigs
    InitialConfigs <- StartedConfigs
    Kinds = {"kubernetes", "http"}
    BlockSettings <- AllBlocks
    EnabledBlocks <- AllSettings
    Absent = "absent"
    MaxWrites = 2
    MaxSkipped = 0
    MaxFaults = 1
    Unset = Unset
    Bad = Bad
    NameShape <- Shapes
    WebURLs <- Web
    RegisteredTypes <- AllTypes
    DefaultMonitors <- GatewayDefault
    FlagChoices <- CommandLines
    Files <- AllFiles
    FirstFiles <- BoundFiles
    MaxEdits = 2
    EditsOf <- Rewrites
    Monitors <- ChainMonitors
    DependsOn <- ChainDependsOn
    Policy <- ChainPolicy
    ChanCap = 2
    MaxFlips = 2
    Callers = {c1, c2}
    Strategies <- OneStrategy
    Configs <- OneConfig
    Window = 1
    MaxHistory = 0
    Cooldown = 1
    MaxAttempts = 2
CHECK_DEADLOCK FALSE
INVARIANT SuccessMeansApplied
