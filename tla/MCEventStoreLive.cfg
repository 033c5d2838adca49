CONSTANTS
    Timer = timer
    Writer = writer
    Closer = closer
    Clients = {client}
    None = none
    NumEvents = 2
    Linked <- MCLinked
    MaxSize = 2
    MaxFailures = 1
    MaxCancels = 0
SPECIFICATION FairSpec
PROPERTY LocksAreHandedOver
PROPERTY EventuallyDrained
PROPERTY CloseCompletes
