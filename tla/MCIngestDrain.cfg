SPECIFICATION Spec
CONSTANTS
    NumLines = 3
    Capacity = 2
    ReadMax = 2
    MaxRotations = 1
    MaxTruncations = 0
    MaxDeaths = 0
    Checkpoints = TRUE
    ServerMayEnd = FALSE
PROPERTY
    DrainsOnStop
CHECK_DEADLOCK FALSE
