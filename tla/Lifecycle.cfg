CONSTANTS
    MaxSignals = 2
SPECIFICATION FairSpec
INVARIANTS
    TypeOK
    StartedMeansStarted
    ChannelsOutliveTheirUsers
    LogIsOpen
    EndsAreExplained
PROPERTIES
    SignalEnds
CHECK_DEADLOCK FALSE
