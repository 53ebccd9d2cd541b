\* Edits, rejected files, failing operations and Stop; the transitive blocking
\* of a chain of monitors; two callers of the gatekeeper, and how far
\* its check-then-record gaps let the caps be overshot.
SPECIFICATION DetectorSpec
CONSTANTS
    Parts = {"reload", "load", "pipeline", "callers"}
    Names = {"dns", "disk"}
    Settings <- AllSettings
    FileContents <- EditedConfigs
    InitialConfigs <- StartedConfigs
    Kinds = {"kubernetes", "http"}
    BlockSettings <- AllBlocks
    EnabledBlocks <- AllSettings
    Absent = "absent"
    MaxWrites = 3
    MaxSkipped = 1
    MaxFaults = 1
    Unset = Unset
    Bad = Bad
    NameShape <- Shapes
    WebURLs <- Web
    RegisteredTypes <- AllTypes
    DefaultMonitors <- GatewayDefault
    FlagChoices <- CommandLines
    Files <- AllFiles
    FirstFiles <- BoundFiles
    MaxEdits = 3
    EditsOf <- Rewrites
    Monitors <- ChainMonitors
    DependsOn <- ChainDependsOn
    Policy <- ChainPolicy
    ChanCap = 2
    MaxFlips = 2
    Callers = {c1, c2}
    Strategies <- OneStrategy
    Configs <- OneConfig
    Window = 1
    MaxHistory = 0
    Cooldown = 0
    MaxAttempts = 2
CHECK_DEADLOCK FALSE
INVARIANTS UndisturbedExact HourlyCapHolds AttemptCapHolds AdoptedComesBack StaleIsReported
PROPERTIES KillSwitchLands LastEditRead BlockingConverges OpenIsTemporary
