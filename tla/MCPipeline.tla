---------------------------- MODULE MCPipeline ----------------------------
\* Two processors.  One script has each command in a legal order, one has deals of
\* one time, equal ones and different ones, one messages that cannot be parsed, one
\* messages of two users.
EXTENDS Pipeline

CONSTANTS u1, u2, n1, n2, noon

Message(command, matched, name, time) ==
    [command |-> command, closed |-> TRUE, opened |-> TRUE, matched |-> matched,
     id |-> u1, name |-> name, time |-> time, amount |-> 1]

Registered1 == Message("user_registered", 2, n1, noon)

Of2(message) == [message EXCEPT !.id = u2]

MCScripts ==
    {<<Registered1,
       Message("user_connected", 1, n1, noon),
       Message("user_renamed", 2, n2, noon),
       Message("user_disconnected", 1, n1, noon)>>,
     <<Registered1,
       [Message("user_deal", 3, n1, noon) EXCEPT !.amount = 2],
       Message("user_deal", 3, n1, noon),
       Message("user_deal_won", 3, n1, noon)>>,
     <<Message("user_married", 2, n1, noon),
       [Registered1 EXCEPT !.closed = FALSE],
       [Registered1 EXCEPT !.opened = FALSE],
       Message("user_deal", 2, n1, noon),
       Message("user_deal", 3, n1, BadTime)>>,
     <<Registered1,
       Of2(Registered1),
       Of2(Message("user_deal_won", 3, n1, noon)),
       Message("user_renamed", 2, n2, noon)>>}

MCRequests ==
    {[op |-> op, id |-> u, name |-> n, time |-> noon, amount |-> a] :
        op \in Operations, u \in {u1, u2}, n \in {n1, n2}, a \in 1..2}

=============================================================================
