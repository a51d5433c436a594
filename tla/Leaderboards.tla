---------------------------- MODULE Leaderboards ----------------------------
(***************************************************************************)
(* The algorithm of getLeaderboards, which InMemoryStorage and             *)
(* MongodbStorage share: one walk down the ranking of the week cuts out    *)
(* the top and, for every connected user, the neighbours above and below.  *)
(*                                                                         *)
(* The storages differ in three points.  InMemoryStorage sorts the users   *)
(* itself, by inserting them into a std::multimap in the order of a hash   *)
(* map, numbers them in that order, and enters the top leaderboard before  *)
(* the walk; MongodbStorage gets them sorted, numbers them in the order of *)
(* the ranking, and enters the top leaderboard after the walk.  Both key   *)
(* the leaderboards by user id, and the top one by the id -1.              *)
(***************************************************************************)
EXTENDS Integers, Sequences, SequencesExt, FiniteSetsExt

CONSTANTS
    Backends,  \* a subset of {"inmemory", "mongo"}
    Ids,       \* user ids
    Scores,    \* scores of the week
    Count, Before, After  \* the parameters of getLeaderboards

TopId == -1

ASSUME LeaderboardsAssumption ==
    /\ Backends \subseteq {"inmemory", "mongo"}
    /\ Ids \subseteq Int /\ IsFiniteSet(Ids)
    /\ Scores \subseteq Int
    /\ Count \in Int /\ Before \in Nat /\ After \in Nat

VARIABLES
    backend,       \* which storage runs
    score,         \* input: user id -> score of the week
    connected,     \* input: the connected users
    served,        \* input: those of them that getUser will find
    pc,            \* "collect", "walk" or "done"
    todo,          \* the users InMemoryStorage has not collected yet
    ranking,       \* tmpLeaderboard, or the rows of the database cursor
    next,          \* index of the next row of the walk
    window,        \* currentLeaderboard
    leaderboards,  \* the result: user id -> rows
    tracked        \* userToCount: user id -> how many rows below were added

input == <<backend, score, connected, served>>
vars == <<input, pc, todo, ranking, next, window, leaderboards, tracked>>

Users == DOMAIN score
EmptyMap == [u \in {} |-> 0]

-----------------------------------------------------------------------------
(* ScorePosition and Leaderboard.                                          *)

\* Faulty variant of Precedes: the scores are compared three-way, as memcmp does,
\* and every difference is taken for true.
PrecedesIfDifferent(a, b) == a.position > b.position /\ a.score # b.score

\* Faulty variant of Precedes: only the position decides.
PositionFirst(a, b) == a.position > b.position

\* std::greater<ScorePosition>: both components are compared.  This is not a
\* strict weak order.
Precedes(a, b) == a.position > b.position /\ a.score > b.score

\* multimap::emplace: behind every row the new one does not precede.
Emplace(lb, row) ==
    LET before == {i \in 1..Len(lb) : ~Precedes(row, lb[i])}
        at == IF before = {} THEN 1 ELSE Max(before) + 1
    IN  InsertAt(lb, at, row)

\* The rows a new row precedes are the last ones.  If so, the search tree behind
\* the multimap finds the same place whatever its shape is.
IsPartitioned(lb, row) ==
    \A i, j \in 1..Len(lb) : i < j /\ Precedes(row, lb[i]) => Precedes(row, lb[j])

\* Faulty variant of TopRows: std::advance goes one row too far.
TopRowsAndOne == SubSeq(ranking, 1, Min({Len(ranking), Count + 1}))

\* The first Count rows, or all of them if Count is not positive.
TopRows == SubSeq(ranking, 1, IF Count <= 0 THEN Len(ranking) ELSE Min({Len(ranking), Count}))

\* map::emplace keeps what is already there.
Enter(map, key, value) ==
    IF key \in DOMAIN map THEN map
    ELSE [k \in DOMAIN map \cup {key} |-> IF k = key THEN value ELSE map[k]]

-----------------------------------------------------------------------------

\* The rows as a database cursor may return them: sorted by score, ties in any
\* order.  `position' starts with 1 and is incremented for every row.
Cursors(s) ==
    {[i \in 1..Cardinality(DOMAIN s) |-> [score |-> s[o[i]], position |-> i, id |-> o[i]]] :
        o \in {p \in SetToSeqs(DOMAIN s) :
                  \A i, j \in DOMAIN p : i < j => s[p[i]] >= s[p[j]]}}

\* The order of the hash map is any order.  The user of a row is found in memory; the
\* query of MongodbStorage may fail.
Init ==
    /\ backend \in Backends
    /\ score \in UNION {[S -> Scores] : S \in SUBSET Ids}
    /\ connected \in SUBSET Ids
    /\ served \in IF backend = "mongo" THEN SUBSET connected ELSE {connected}
    /\ IF backend = "inmemory"
         THEN pc = "collect" /\ todo \in SetToSeqs(Users) /\ ranking = <<>>
         ELSE pc = "walk" /\ todo = <<>> /\ ranking \in Cursors(score)
    /\ next = 1
    /\ window = <<>>
    /\ leaderboards = EmptyMap
    /\ tracked = EmptyMap

\* tmpLeaderboard.emplace((getWeekScores, position), (id, name)); ++ position
Collect ==
    /\ pc = "collect"
    /\ todo # <<>>
    /\ todo' = Tail(todo)
    /\ ranking' = Emplace(ranking, [score |-> score[Head(todo)],
                                    position |-> Len(ranking) + 1,
                                    id |-> Head(todo)])
    /\ UNCHANGED <<input, pc, next, window, leaderboards, tracked>>

\* InMemoryStorage enters the top leaderboard, and returns if nobody is connected.
\* Without a Count the whole ranking is moved there: no row is left to walk over.
EndCollect ==
    /\ pc = "collect"
    /\ todo = <<>>
    /\ leaderboards' = Enter(leaderboards, TopId, TopRows)
    /\ pc' = IF connected = {} THEN "done" ELSE "walk"
    /\ next' = IF Count <= 0 THEN Len(ranking) + 1 ELSE 1
    /\ UNCHANGED <<input, todo, ranking, window, tracked>>

\* Faulty variant of StillTracked: one row too many.
TrackedTooLong(u) == tracked[u] + 1 <= After

\* A user is tracked until After rows were added (but for one at least).
StillTracked(u) == tracked[u] + 1 < After

\* currentLeaderboard.erase(begin()) once it holds more than Before rows
Trim(w) == IF Len(w) > Before THEN Tail(w) ELSE w

\* One round of the walk: the row goes to the window and to the leaderboards of
\* the tracked users; if its user is connected, and found, the window becomes the
\* user's leaderboard, and the user is tracked.
Walk ==
    /\ pc = "walk"
    /\ next <= Len(ranking)
    /\ LET row == ranking[next]
           shown == Emplace(window, row)
           grown == [u \in DOMAIN leaderboards |->
                        IF u \in DOMAIN tracked THEN Emplace(leaderboards[u], row)
                                                ELSE leaderboards[u]]
           counted == [u \in {v \in DOMAIN tracked : StillTracked(v)} |-> tracked[u] + 1]
       IN  /\ window' = Trim(shown)
           /\ IF row.id \in served
                THEN /\ leaderboards' = Enter(grown, row.id, shown)
                     /\ tracked' = Enter(counted, row.id, 0)
                ELSE leaderboards' = grown /\ tracked' = counted
    /\ next' = next + 1
    /\ UNCHANGED <<input, pc, todo, ranking>>

\* leaderboards.emplace((-1, "Top"), ...): an entry of that id is kept.
Entered(lbs) == Enter(lbs, TopId, TopRows)

EndWalk ==
    /\ pc = "walk"
    /\ next > Len(ranking)
    /\ pc' = "done"
    /\ leaderboards' = IF backend = "mongo" THEN Entered(leaderboards) ELSE leaderboards
    /\ UNCHANGED <<input, todo, ranking, next, window, tracked>>

Next == Collect \/ EndCollect \/ Walk \/ EndWalk

Spec == Init /\ [][Next]_vars

-----------------------------------------------------------------------------
(* Properties                                                              *)

\* Rank of a user in the final ranking.
Rank(u) == CHOOSE i \in 1..Len(ranking) : ranking[i].id = u
HasRank(u) == \E i \in 1..Len(ranking) : ranking[i].id = u

\* Reference definition: what a connected user is to see are the Before users
\* above, the user, and the After users below, in the order of the ranking.
Neighbourhood(u) ==
    SubSeq(ranking, Max({1, Rank(u) - Before}),
                    Min({Len(ranking), Rank(u) + Max({After, 1})}))

\* The one-pass walk with its sliding window and its counters gives every
\* connected user with a score exactly the neighbourhood in the ranking.  A user whose
\* name cannot be read gets no leaderboard, and is still a row in those of the others.
WindowsAreExact ==
    pc = "done" => \A u \in connected \ {TopId} :
        HasRank(u) => IF u \in served
                        THEN u \in DOMAIN leaderboards /\ leaderboards[u] = Neighbourhood(u)
                        ELSE u \notin DOMAIN leaderboards

\* The ranking descends, and every user of the week is in it once.
RankingIsComplete ==
    pc # "collect" =>
        /\ \A i, j \in 1..Len(ranking) : i < j => ranking[i].score >= ranking[j].score
        /\ {ranking[i].id : i \in 1..Len(ranking)} = Users
        /\ Len(ranking) = Cardinality(Users)

\* The comparator of the multimap is no strict weak order, but on the rows that
\* are compared in fact it partitions: where a row is inserted is well defined.
InsertionsAreDefined ==
    /\ pc = "collect" /\ todo # <<>> =>
         IsPartitioned(ranking, [score |-> score[Head(todo)],
                                 position |-> Len(ranking) + 1, id |-> Head(todo)])
    /\ pc = "walk" /\ next <= Len(ranking) =>
         /\ IsPartitioned(window, ranking[next])
         /\ \A u \in DOMAIN tracked : IsPartitioned(leaderboards[u], ranking[next])

\* The leaderboard with the id -1 is the top of the ranking.
TopIsTop ==
    pc = "done" =>
        /\ TopId \in DOMAIN leaderboards
        /\ LET top == leaderboards[TopId]
           IN  /\ Len(top) = IF Count > 0 THEN Min({Count, Cardinality(Users)}) ELSE Cardinality(Users)
               /\ \A i \in 1..Len(top) : top[i] = ranking[i]

=============================================================================
