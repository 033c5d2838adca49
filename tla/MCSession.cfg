SPECIFICATION FairSpec
CONSTANTS
    Sinks <- MCSinks
    Exporters <- MCExporters
    QueueMax = 1
    MaxEvents = 1
    MaxAlerts = 2
INVARIANTS
    TypeOK
    CloseIsLast
    NothingLeftBehind
PROPERTIES
    SignalEnds
CHECK_DEADLOCK FALSE
