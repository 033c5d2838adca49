SPECIFICATION FairSpec
CONSTANTS
    NumLines = 3
    Capacity = 2
    ReadMax = 2
    MaxRotations = 1
    MaxTruncations = 1
    MaxDeaths = 1
    Checkpoints = TRUE
    ServerMayEnd = TRUE
INVARIANTS
    TypeOK
    NothingPassedOver
    RereadForACause
    DropsAreCounted
    InOrder
PROPERTIES
    ReportedIsRead
    StopEndsTheLoop
CHECK_DEADLOCK FALSE
