CONSTANTS
    Processors = {p1}
    MaxTag = 1
    NoThread = NoThread
SPECIFICATION FairSpec
PROPERTY StopReturns
CHECK_DEADLOCK FALSE
