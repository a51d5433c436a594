CONSTANTS
    Processors = {p1, p2}
    MaxTag = 3
    NoThread = NoThread
SPECIFICATION FairSpec
INVARIANTS
    TypeOK
    NoDeliveryLost
    PopsAreBacked
    StopLeavesNothingHalfDone
PROPERTIES
    EffectOnceAndFinal
    EveryDeliverySettled
CHECK_DEADLOCK FALSE
