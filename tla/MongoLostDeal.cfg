CONSTANTS
    u1 = u1
    u2 = u2
    n1 = n1
    n2 = n2
    recent = recent
    old = old
    NoName = NoName
    NoCall = NoCall
    Clients = {c1, c2}
    Users = {u1, u2}
    Names = {n1, n2}
    Times = {recent, old}
    Amounts = {0, 1, 2}
    Recent = {recent}
    Requests <- DealsOnly
    Unreliable = FALSE
    MaxCalls = 3
SPECIFICATION Spec
INVARIANT AcceptedDealsAreStored
