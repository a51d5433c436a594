CONSTANTS
    u1 = u1
    u2 = u2
    n1 = n1
    n2 = n2
    recent = recent
    old = old
    NoName = NoName
    NoCall = NoCall
    Loop = Loop
    Nobody = Nobody
    Clients = {c1, c2}
    Users = {u1, u2}
    Names = {n1, n2}
    Times = {recent, old}
    Amounts = {1}
    Recent = {recent}
    Requests <- MCRequests
    MaxCalls = 3
SPECIFICATION Spec
INVARIANTS
    SnapshotIsConsistent
PROPERTIES
    ImplementsStorage
    ConnectedGetLeaderboards
