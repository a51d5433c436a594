-------------------------- MODULE MCMongodbStorage --------------------------
\* Two users, two names, a recent and an old time, deals of 0, 1 and 2.
EXTENDS MongodbStorage

CONSTANTS u1, u2, n1, n2, recent, old

Call(op, id, name, time, amount) ==
    [op |-> op, id |-> id, name |-> name, time |-> time, amount |-> amount]

Register(u) == Call("storeUser", u, n1, old, 1)
Deal(u, time, amount) == Call("storeUserDeal", u, n1, time, amount)
Connect(u) == Call("storeConnectedUser", u, n1, old, 1)

AllKinds ==
    {Register(u1), Connect(u1)}
    \cup {Call("renameUser", u1, n, old, 1) : n \in {n1, n2}}
    \cup {Call("removeConnectedUser", u1, n1, old, 1)}
    \cup {Deal(u1, recent, a) : a \in {0, 1}}

DealsOnly == {Register(u1)} \cup {Deal(u1, recent, a) : a \in {1, 2}}

DealsAndReads ==
    {Register(u) : u \in {u1, u2}} \cup {Deal(u1, recent, a) : a \in {1, 2}}
    \cup {Deal(u1, old, 1), Deal(u2, recent, 2)}

=============================================================================
