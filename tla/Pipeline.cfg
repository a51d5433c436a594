CONSTANTS
    u1 = u1
    u2 = u2
    n1 = n1
    n2 = n2
    noon = noon
    BadTime = BadTime
    NoName = NoName
    NoCall = NoCall
    Clients = {p1, p2}
    Users = {u1, u2}
    Names = {n1, n2}
    Times = {noon}
    Amounts = {1, 2}
    Requests <- MCRequests
    Scripts <- MCScripts
    MaxCrashes = 1
    MaxFailures = 1
SPECIFICATION FairSpec
INVARIANTS
    TypeOK
    AckedIsStored
    EffectsAreCounted
    EarnedIsAccountedFor
    RefusalsAreExplained
PROPERTIES
    PublishedIsSettled
CHECK_DEADLOCK FALSE
