CONSTANTS
    Timer = timer
    Writer = writer
    Closer = closer
    Clients = {client}
    None = none
    NumEvents = 2
    Linked <- MCLinked
    MaxSize = 2
    MaxFailures = 0
    MaxCancels = 0
SPECIFICATION Spec
INVARIANT CloseFlushesPending
