SPECIFICATION FairSpec
CONSTANTS
    Feeds = {f1, f2}
    NumIndicators = 2
    Cap = 1
    Threshold = 2
    MaxPolls = 4
    MaxBoots = 2
INVARIANTS
    TypeOK
    NothingSkipped
    Converged
    PausedAfterStrikes
PROPERTIES
    SnapshotReaches
CHECK_DEADLOCK FALSE
