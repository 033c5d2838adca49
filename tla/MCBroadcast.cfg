SPECIFICATION FairSpec
CONSTANTS
    Clients = {c1, c2}
    MaxConnections = 1
    QueueMax = 1
    BatchMax = 1
    Filters <- MCFilters
    NumItems = 2
    MaxConnects = 3
INVARIANTS
    TypeOK
    DeliveryAccounted
    NoOrphanSender
    CapNeedsOverlap
    CountedOnce
PROPERTIES
    QueuedIsSent
CHECK_DEADLOCK FALSE
