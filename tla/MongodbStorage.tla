--------------------------- MODULE MongodbStorage ---------------------------
(***************************************************************************)
(* db::MongodbStorage: every call is one request to the database, or, for  *)
(* a deal, up to three of them; a request is atomic, a call is not.  The   *)
(* leaderboard loop thread reads the connected users, aggregates the users *)
(* and then looks up the connected ones.                                   *)
(*                                                                         *)
(* The database is external.  What it does to a request is modelled from   *)
(* the requests the code makes: unique _id, positional $inc on the first   *)
(* entry of a time, $addToSet on {time, score} documents, modified_count,  *)
(* and a group stage that returns no row for a user without entries.       *)
(***************************************************************************)
EXTENDS StorageCalls, Functions, SequencesExt

CONSTANTS
    Recent,      \* the times of the last week
    Unreliable,  \* whether requests can fail with an exception
    MaxCalls     \* bound: how many calls the clients make in one run

ASSUME MongodbAssumption == Recent \subseteq Times /\ Unreliable \in BOOLEAN

VARIABLES
    names,      \* the users collection: id -> name, NoName without document
    scores,     \* the users collection: id -> time -> the scores of its entries
    connected,  \* the connected users collection
    call,       \* client -> the call it is in, or NoCall
    pc,         \* client -> the request its call makes next
    result,     \* client -> the result its call returns
    calls,      \* how many calls were made
    accepted,   \* history: id -> time -> the sum of deals answered with SUCCESS
    loopPc,     \* where the loop thread is in getLeaderboards
    seen,       \* the result of getConnectedUsers
    unread,     \* the users the aggregation has not read yet
    board,      \* the rows of the aggregation: id -> name and weeklyScore
    untitled,   \* the connected users with a row that getUser was not called for
    titles,     \* id -> the name its leaderboard is sent under
    before      \* history: what was stored when getLeaderboards was called

dataVars == <<names, scores, connected>>
callVars == <<call, pc, result, calls, accepted>>
loopVars == <<loopPc, seen, unread, board, untitled, titles, before>>
vars == <<dataVars, callVars, loopVars>>

\* Faulty variant of Registered: the document is not looked up.
AssumeRegistered(u) == TRUE

Registered(u) == names[u] # NoName

Sum(seq) == FoldSeq(+, 0, seq)
Stored(u, t) == Sum(scores[u][t])
NothingEarned == [u \in Users |-> [t \in Times |-> 0]]
EmptyMap == [u \in {} |-> 0]

Init ==
    /\ names = [u \in Users |-> NoName]
    /\ scores = [u \in Users |-> [t \in Times |-> <<>>]]
    /\ connected = {}
    /\ call = [c \in Clients |-> NoCall]
    /\ pc = [c \in Clients |-> "idle"]
    /\ result = [c \in Clients |-> "none"]
    /\ calls = 0
    /\ accepted = NothingEarned
    /\ loopPc = "idle"
    /\ seen = {}
    /\ unread = {}
    /\ board = EmptyMap
    /\ untitled = {}
    /\ titles = EmptyMap
    /\ before = NothingEarned

-----------------------------------------------------------------------------
(* The calls of the processor threads.                                     *)

Goto(c, l) == pc' = [pc EXCEPT ![c] = l]

Invoke(c) ==
    /\ pc[c] = "idle"
    /\ calls < MaxCalls
    /\ calls' = calls + 1
    /\ \E r \in Requests :
         /\ call' = [call EXCEPT ![c] = r]
         /\ Goto(c, IF r.op = "storeUserDeal" THEN "find" ELSE "request")
    /\ UNCHANGED <<dataVars, result, accepted, loopVars>>

Accept(c, res) ==
    accepted' = IF call[c].op = "storeUserDeal" /\ res = "SUCCESS"
                THEN [accepted EXCEPT ![call[c].id][call[c].time] = @ + call[c].amount]
                ELSE accepted

\* The call ends.  An unreliable connection may turn the answer of the last
\* request into an exception the code catches.
Finish(c, expected) ==
    \E res \in {expected} \cup (IF Unreliable THEN {"DB_ERROR"} ELSE {}) :
        /\ result' = [result EXCEPT ![c] = res]
        /\ Accept(c, res)
        /\ Goto(c, "return")
        /\ UNCHANGED <<call, calls, loopVars>>

\* insert_one: a second document with the same _id is an exception.
StoreUser(c) ==
    /\ call[c].op = "storeUser"
    /\ IF Registered(call[c].id)
         THEN Finish(c, "DB_ERROR") /\ UNCHANGED names
         ELSE Finish(c, "SUCCESS") /\ names' = [names EXCEPT ![call[c].id] = call[c].name]
    /\ UNCHANGED <<scores, connected>>

\* update_one: modified_count is 0 for an unknown user, and for the same name.
RenameUser(c) ==
    /\ call[c].op = "renameUser"
    /\ IF Registered(call[c].id) /\ names[call[c].id] # call[c].name
         THEN Finish(c, "SUCCESS") /\ names' = [names EXCEPT ![call[c].id] = call[c].name]
         ELSE Finish(c, "USER_NOT_FOUND") /\ UNCHANGED names
    /\ UNCHANGED <<scores, connected>>

StoreConnectedUser(c) ==
    /\ call[c].op = "storeConnectedUser"
    /\ IF call[c].id \in connected
         THEN Finish(c, "DB_ERROR") /\ UNCHANGED connected
         ELSE Finish(c, "SUCCESS") /\ connected' = connected \cup {call[c].id}
    /\ UNCHANGED <<names, scores>>

RemoveConnectedUser(c) ==
    /\ call[c].op = "removeConnectedUser"
    /\ IF call[c].id \in connected
         THEN Finish(c, "SUCCESS") /\ connected' = connected \ {call[c].id}
         ELSE Finish(c, "USER_CONN_ERROR") /\ UNCHANGED connected
    /\ UNCHANGED <<names, scores>>

\* storeUserDeal, first request: find_one({id})
FindUser(c) ==
    /\ pc[c] = "find"
    /\ IF Registered(call[c].id)
         THEN Goto(c, "inc") /\ UNCHANGED <<call, result, calls, accepted, loopVars>>
         ELSE Finish(c, "USER_NOT_FOUND")
    /\ UNCHANGED dataVars

Entries(c) == scores[call[c].id][call[c].time]

\* $inc modifies the first entry of the time, if there is one; adding 0 modifies
\* nothing.
Modifies(c) == Entries(c) # <<>> /\ call[c].amount # 0

\* Faulty variant of NextAfterInc: modified_count is not looked at.
AlwaysAdd(c) == "add"

\* 0 == modified_count()
NextAfterInc(c) == IF Modifies(c) THEN "return" ELSE "add"

\* Second request: update_one({id, scores.time}, {$inc: scores.$.score})
IncrementScore(c) ==
    /\ pc[c] = "inc"
    /\ scores' = IF Modifies(c)
                 THEN [scores EXCEPT ![call[c].id][call[c].time][1] = @ + call[c].amount]
                 ELSE scores
    /\ IF NextAfterInc(c) = "return"
         THEN Finish(c, "SUCCESS")
         ELSE Goto(c, "add") /\ UNCHANGED <<call, result, calls, accepted, loopVars>>
    /\ UNCHANGED <<names, connected>>

\* Third request: update_one({id}, {$addToSet: {scores: {time, score}}})
AddScore(c) ==
    /\ pc[c] = "add"
    /\ scores' = IF call[c].amount \in ToSet(Entries(c))
                 THEN scores
                 ELSE [scores EXCEPT ![call[c].id][call[c].time] = Append(@, call[c].amount)]
    /\ Finish(c, "SUCCESS")
    /\ UNCHANGED <<names, connected>>

\* A request fails before it has an effect.
RequestFails(c) ==
    /\ Unreliable
    /\ pc[c] \in {"request", "find", "inc", "add"}
    /\ Finish(c, "DB_ERROR")
    /\ UNCHANGED dataVars

Request(c) ==
    \/ /\ pc[c] = "request"
       /\ StoreUser(c) \/ RenameUser(c) \/ StoreConnectedUser(c) \/ RemoveConnectedUser(c)
    \/ FindUser(c)
    \/ IncrementScore(c)
    \/ AddScore(c)
    \/ RequestFails(c)

Return(c) ==
    /\ pc[c] = "return"
    /\ call' = [call EXCEPT ![c] = NoCall]
    /\ result' = [result EXCEPT ![c] = "none"]
    /\ Goto(c, "idle")
    /\ UNCHANGED <<dataVars, calls, accepted, loopVars>>

-----------------------------------------------------------------------------
(* getLeaderboards, called by the loop thread.                             *)

CallGetLeaderboards ==
    /\ loopPc = "idle"
    /\ loopPc' = "connected"
    /\ before' = [u \in Users |-> [t \in Times |-> Stored(u, t)]]
    /\ UNCHANGED <<dataVars, callVars, seen, unread, board, untitled, titles>>

\* getConnectedUsers: on an exception it returns what it has read so far.
GetConnectedUsers ==
    /\ loopPc = "connected"
    /\ IF Unreliable THEN seen' \in SUBSET connected ELSE seen' = connected
    /\ unread' = Users
    /\ loopPc' = "aggregate"
    /\ UNCHANGED <<dataVars, callVars, board, untitled, titles, before>>

\* Faulty variant of Counted: the comparison with the week's start is inverted.
CountedOld(t) == t \notin Recent

\* {$match: {scores.time: {$gt: a week ago}}}
Counted(t) == t \in Recent

\* $unwind and $group: the entries that count, summed up.
WeeklyScore(u) ==
    FoldFunctionOnSet(+, 0, [t \in Times |-> Stored(u, t)], {t \in Times : Counted(t)})

HasRow(u) == Registered(u) /\ \E t \in Times : Counted(t) /\ scores[u][t] # <<>>

\* The aggregation reads the documents one after the other, in no known order;
\* a user without an entry of the last week has no row.
ReadUser(u) ==
    /\ loopPc = "aggregate"
    /\ u \in unread
    /\ unread' = unread \ {u}
    /\ board' = IF HasRow(u)
                THEN [v \in DOMAIN board \cup {u} |->
                        IF v = u THEN [name |-> names[u], score |-> WeeklyScore(u)]
                                 ELSE board[v]]
                ELSE board
    /\ UNCHANGED <<dataVars, callVars, loopPc, seen, untitled, titles, before>>

EndAggregate ==
    /\ loopPc = "aggregate"
    /\ unread = {}
    /\ untitled' = seen \cap DOMAIN board
    /\ loopPc' = "titles"
    /\ UNCHANGED <<dataVars, callVars, seen, unread, board, titles, before>>

\* getUser; a connected user it cannot read is skipped.
TitleLeaderboard(u) ==
    /\ loopPc = "titles"
    /\ u \in untitled
    /\ untitled' = untitled \ {u}
    /\ \/ titles' = [v \in DOMAIN titles \cup {u} |-> IF v = u THEN names[u] ELSE titles[v]]
       \/ Unreliable /\ titles' = titles
    /\ UNCHANGED <<dataVars, callVars, loopPc, seen, unread, board, before>>

Forget ==
    /\ loopPc' = "idle"
    /\ seen' = {}
    /\ unread' = {}
    /\ board' = EmptyMap
    /\ untitled' = {}
    /\ titles' = EmptyMap
    /\ before' = NothingEarned
    /\ UNCHANGED <<dataVars, callVars>>

ReturnLeaderboards == loopPc = "titles" /\ untitled = {} /\ Forget

\* A query_exception while the cursor is read: DB_ERROR, and no leaderboards.
AggregateFails == Unreliable /\ loopPc = "aggregate" /\ Forget

-----------------------------------------------------------------------------

Client(c) == Invoke(c) \/ Request(c) \/ Return(c)

GetLeaderboards ==
    \/ CallGetLeaderboards
    \/ GetConnectedUsers
    \/ \E u \in Users : ReadUser(u) \/ TitleLeaderboard(u)
    \/ EndAggregate
    \/ ReturnLeaderboards
    \/ AggregateFails

Next == (\E c \in Clients : Client(c)) \/ GetLeaderboards

Spec == Init /\ [][Next]_vars

-----------------------------------------------------------------------------
(* Properties                                                              *)

AnswerOf(res) ==
    IF res \in StorageErrors THEN "ERROR" ELSE res

Contract == INSTANCE Storage WITH
    earned <- [u \in Users |-> [t \in Times |-> Stored(u, t)]],
    reply <- [c \in Clients |-> AnswerOf(result[c])]

\* With one processor thread MongodbStorage keeps the promise of db::Storage: the
\* three requests of a deal amount to one addition, and an error other than a
\* lost connection means that nothing was changed.
ImplementsStorage == Contract!Spec

\* Whatever the processors interleave, no deal is counted twice: the entries of a
\* user and time never add up to more than the deals answered with SUCCESS (the
\* deals are positive and the database is reliable).
NeverCountedTwice ==
    \A u \in Users, t \in Times : Stored(u, t) <= accepted[u][t]

\* A deal that was stored before getLeaderboards was called is part of the
\* leaderboards, although the aggregation reads the users one by one while the
\* processors go on (deals are positive here).
LeaderboardsCountEarlierDeals ==
    [][ReturnLeaderboards =>
         \A u \in Users, t \in Recent :
            before[u][t] > 0 => u \in DOMAIN board /\ board[u].score >= before[u][t]]_vars

\* user_deal: "Store the information about the user deal in an internal storage
\* (database), otherwise return an error".
AcceptedDealsAreStored ==
    \A u \in Users, t \in Times : accepted[u][t] <= Stored(u, t)

=============================================================================
