CONSTANTS
    Timer = timer
    Writer = writer
    Closer = closer
    Clients = {client}
    None = none
    NumEvents = 3
    Linked <- MCLinked
    MaxSize = 2
    MaxFailures = 1
    MaxCancels = 1
SPECIFICATION Spec
INVARIANT TypeOK
INVARIANT OwnTransaction
INVARIANT WholeBatches
INVARIANT Accounted
INVARIANT Barrier
PROPERTY ImplementsLog
