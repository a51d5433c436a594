CONSTANTS
    Connections = {consumer, publisher}
    Fds = {3, 4}
    MaxStalls = 1
SPECIFICATION FairSpec
PROPERTIES
    UnsentIsSent
CHECK_DEADLOCK FALSE
