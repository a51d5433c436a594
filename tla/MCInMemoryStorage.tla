------------------------- MODULE MCInMemoryStorage -------------------------
\* Two processors and the loop thread, two users, two names, a recent and an
\* old time.  Every operation is made on u1; u2 is there to be ranked too.
EXTENDS InMemoryStorage

CONSTANTS u1, u2, n1, n2, recent, old

Call(op, id, name, time) == [op |-> op, id |-> id, name |-> name, time |-> time, amount |-> 1]

MCRequests ==
    {Call("storeUser", u, n1, old) : u \in {u1, u2}}
    \cup {Call("storeUserDeal", u1, n1, t) : t \in {recent, old}}
    \cup {Call("renameUser", u1, n2, old),
          Call("storeConnectedUser", u1, n1, old),
          Call("removeConnectedUser", u1, n1, old)}

=============================================================================
