SPECIFICATION FairSpec
CONSTANTS
    email = email
    hook = hook
    pager = pager
    NumAlerts = 3
    QueueSize = 2
    Channels = {email, hook, pager}
    Digest = {email, hook}
    Mail = {email}
    Notify <- MCNotify
    MaxFlights = 2
INVARIANTS
    TypeOK
    NoneForgotten
    DeliveredOnce
PROPERTIES
    DigestsAreSent
    StopCompletes
CHECK_DEADLOCK FALSE
