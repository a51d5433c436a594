CONSTANTS
    Connections = {consumer, publisher}
    Fds = {3, 4}
    MaxStalls = 2
SPECIFICATION FairSpec
INVARIANTS
    TypeOK
    Aligned
    MonitoringIsExact
    DestroyedAreLeaving
PROPERTIES
    ArrivedIsRead
    CallsAreApplied
    EventLoopEnds
CHECK_DEADLOCK FALSE
