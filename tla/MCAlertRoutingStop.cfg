SPECIFICATION Spec
CONSTANTS
    email = email
    hook = hook
    pager = pager
    NumAlerts = 2
    QueueSize = 2
    Channels = {email, hook, pager}
    Digest = {email, hook}
    Mail = {email}
    Notify <- MCNotify
    MaxFlights = 1
INVARIANTS
    PendingDigestsFlushed
CHECK_DEADLOCK FALSE
