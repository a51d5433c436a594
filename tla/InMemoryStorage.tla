-------------------------- MODULE InMemoryStorage --------------------------
(***************************************************************************)
(* db::InMemoryStorage: two maps, each with a mutex of its own.  The       *)
(* processor threads register, rename, connect and disconnect users and    *)
(* add deals; the leaderboard loop thread copies the set of connected      *)
(* users, then, under the other mutex, the users with their scores, and    *)
(* then takes the users' mutex again for every leaderboard it titles.      *)
(*                                                                         *)
(* An entry of m_scores that does not exist yet counts as 0: "insert it or *)
(* add to it" is an addition.                                              *)
(***************************************************************************)
EXTENDS StorageCalls, Functions

CONSTANTS
    Recent,    \* the times of the last week
    Loop,      \* the leaderboard loop thread
    Nobody,    \* the owner of a free mutex
    MaxCalls   \* bound: how many calls the clients make in one run

ASSUME RecentAssumption == Recent \subseteq Times
ASSUME MaxCallsAssumption == MaxCalls \in Nat
ASSUME ThreadsAssumption ==
    /\ Nobody \notin Clients
    /\ Loop \notin Clients
    /\ Nobody # Loop

VARIABLES
    names,      \* m_users[id].m_name
    earned,     \* m_users[id].m_scores
    connected,  \* m_connectedUsers
    owner,      \* the owners of m_usersMapGuard and m_connectedUsersGuard
    call,       \* client -> the call it is in, or NoCall
    pc,         \* where each client is in its call
    found,      \* the clients whose find(id) did not return end()
    result,     \* client -> the result its call returns
    calls,      \* how many calls were made
    loopPc,     \* where the loop thread is in getLeaderboards
    seen,       \* its copy of m_connectedUsers
    board,      \* its copy of the users: id -> name and score of the week
    titles,     \* id -> the name its leaderboard is sent under
    known       \* history: the users registered when getLeaderboards was called

dataVars == <<names, earned, connected>>
callVars == <<call, pc, found, result, calls>>
loopVars == <<loopPc, seen, board, titles, known>>
vars == <<dataVars, owner, callVars, loopVars>>

Mutexes == {"users", "connected"}
Registered(u) == names[u] # NoName
RegisteredUsers == {u \in Users : Registered(u)}

\* getWeekScores, of the m_scores of a user
WeekScores(amounts) == FoldFunctionOnSet(+, 0, amounts, Recent)

Row(u) == [name |-> names[u], score |-> WeekScores(earned[u])]

EmptyMap == [u \in {} |-> 0]

TypeOK ==
    /\ names \in [Users -> Names \cup {NoName}]
    /\ earned \in [Users -> [Times -> Int]]
    /\ connected \subseteq Users
    /\ owner \in [Mutexes -> Clients \cup {Loop, Nobody}]
    /\ call \in [Clients -> Requests \cup {NoCall}]
    /\ pc \in [Clients -> {"idle", "lock", "find", "apply", "return"}]
    /\ found \subseteq Clients
    /\ result \in [Clients -> StorageResults \cup {"none"}]
    /\ calls \in 0..MaxCalls
    /\ loopPc \in {"idle", "connected", "users", "copy", "titles"}
    /\ seen \subseteq Users
    /\ known \subseteq Users
    /\ DOMAIN board \subseteq Users
    /\ \A u \in DOMAIN board : board[u].name \in Names
    /\ DOMAIN titles \subseteq Users
    /\ \A u \in DOMAIN titles : titles[u] \in Names

Init ==
    /\ names = [u \in Users |-> NoName]
    /\ earned = [u \in Users |-> [t \in Times |-> 0]]
    /\ connected = {}
    /\ owner = [m \in Mutexes |-> Nobody]
    /\ call = [c \in Clients |-> NoCall]
    /\ pc = [c \in Clients |-> "idle"]
    /\ found = {}
    /\ result = [c \in Clients |-> "none"]
    /\ calls = 0
    /\ loopPc = "idle"
    /\ seen = {}
    /\ board = EmptyMap
    /\ titles = EmptyMap
    /\ known = {}

-----------------------------------------------------------------------------
(* The calls of the processor threads.                                     *)

ConnectedOperations == {"storeConnectedUser", "removeConnectedUser"}
MutexOf(r) == IF r.op \in ConnectedOperations THEN "connected" ELSE "users"

Goto(c, l) == pc' = [pc EXCEPT ![c] = l]

Invoke(c) ==
    /\ pc[c] = "idle"
    /\ calls < MaxCalls
    /\ calls' = calls + 1
    /\ \E r \in Requests : call' = [call EXCEPT ![c] = r]
    /\ Goto(c, "lock")
    /\ UNCHANGED <<dataVars, owner, found, result, loopVars>>

\* Faulty variant of IsFree: std::unique_lock with std::defer_lock.
Deferred(m) == TRUE

IsFree(m) == owner[m] = Nobody

\* std::unique_lock<std::mutex> l(...)
Lock(c) ==
    /\ pc[c] = "lock"
    /\ IsFree(MutexOf(call[c]))
    /\ owner' = [owner EXCEPT ![MutexOf(call[c])] = c]
    /\ Goto(c, "find")
    /\ UNCHANGED <<dataVars, call, found, result, calls, loopVars>>

\* auto it = find(id)
Find(c) ==
    /\ pc[c] = "find"
    /\ found' = IF call[c].id \in IF MutexOf(call[c]) = "users" THEN RegisteredUsers ELSE connected
                THEN found \cup {c}
                ELSE found \ {c}
    /\ Goto(c, "apply")
    /\ UNCHANGED <<dataVars, owner, call, result, calls, loopVars>>

\* The end of the call: its result is fixed and the lock is released.
Finish(c, res) ==
    /\ result' = [result EXCEPT ![c] = res]
    /\ owner' = [owner EXCEPT ![MutexOf(call[c])] = Nobody]
    /\ Goto(c, "return")
    /\ UNCHANGED <<call, found, calls, loopVars>>

StoreUser(c) ==
    /\ call[c].op = "storeUser"
    /\ IF c \in found
         THEN Finish(c, "USER_ALREADY_REG") /\ UNCHANGED names
         ELSE Finish(c, "SUCCESS") /\ names' = [names EXCEPT ![call[c].id] = call[c].name]
    /\ UNCHANGED <<earned, connected>>

RenameUser(c) ==
    /\ call[c].op = "renameUser"
    /\ IF c \in found
         THEN Finish(c, "SUCCESS") /\ names' = [names EXCEPT ![call[c].id] = call[c].name]
         ELSE Finish(c, "USER_NOT_FOUND") /\ UNCHANGED names
    /\ UNCHANGED <<earned, connected>>

StoreUserDeal(c) ==
    /\ call[c].op = "storeUserDeal"
    /\ IF c \in found
         THEN /\ Finish(c, "SUCCESS")
              /\ earned' = [earned EXCEPT ![call[c].id][call[c].time] = @ + call[c].amount]
         ELSE Finish(c, "USER_NOT_FOUND") /\ UNCHANGED earned
    /\ UNCHANGED <<names, connected>>

\* emplace: connecting twice, and connecting an unknown id, are successes.
StoreConnectedUser(c) ==
    /\ call[c].op = "storeConnectedUser"
    /\ Finish(c, "SUCCESS")
    /\ connected' = connected \cup {call[c].id}
    /\ UNCHANGED <<names, earned>>

RemoveConnectedUser(c) ==
    /\ call[c].op = "removeConnectedUser"
    /\ IF c \in found
         THEN Finish(c, "SUCCESS") /\ connected' = connected \ {call[c].id}
         ELSE Finish(c, "USER_NOT_FOUND") /\ UNCHANGED connected
    /\ UNCHANGED <<names, earned>>

Apply(c) ==
    /\ pc[c] = "apply"
    /\ \/ StoreUser(c)
       \/ RenameUser(c)
       \/ StoreUserDeal(c)
       \/ StoreConnectedUser(c)
       \/ RemoveConnectedUser(c)

Return(c) ==
    /\ pc[c] = "return"
    /\ call' = [call EXCEPT ![c] = NoCall]
    /\ result' = [result EXCEPT ![c] = "none"]
    /\ Goto(c, "idle")
    /\ UNCHANGED <<dataVars, owner, found, calls, loopVars>>

-----------------------------------------------------------------------------
(* getLeaderboards, called by the loop thread.                             *)

CallGetLeaderboards ==
    /\ loopPc = "idle"
    /\ loopPc' = "connected"
    /\ known' = RegisteredUsers
    /\ UNCHANGED <<dataVars, owner, callVars, seen, board, titles>>

\* connectedUsers = m_connectedUsers, in a block with a lock of its own
CopyConnected ==
    /\ loopPc = "connected"
    /\ IsFree("connected")
    /\ seen' = connected
    /\ loopPc' = "users"
    /\ UNCHANGED <<dataVars, owner, callVars, board, titles, known>>

LockUsers ==
    /\ loopPc = "users"
    /\ IsFree("users")
    /\ owner' = [owner EXCEPT !["users"] = Loop]
    /\ loopPc' = "copy"
    /\ UNCHANGED <<dataVars, callVars, seen, board, titles, known>>

\* One round of "for (const auto& user : m_users)"; the order is the hash map's.
CopyUser(u) ==
    /\ loopPc = "copy"
    /\ u \in RegisteredUsers \ DOMAIN board
    /\ board' = [v \in DOMAIN board \cup {u} |-> IF v = u THEN Row(u) ELSE board[v]]
    /\ UNCHANGED <<dataVars, owner, callVars, loopPc, seen, titles, known>>

UnlockUsers ==
    /\ loopPc = "copy"
    /\ RegisteredUsers \subseteq DOMAIN board
    /\ owner' = [owner EXCEPT !["users"] = Nobody]
    /\ loopPc' = "titles"
    /\ UNCHANGED <<dataVars, callVars, seen, board, titles, known>>

\* Faulty variant of MustTitle: only users with a score of this week.
MustTitleScorers == {u \in seen \cap DOMAIN board : board[u].score # 0}

\* The connected users the walk through the leaderboard comes across.
MustTitle == seen \cap DOMAIN board

\* getUser for a connected user, under the lock again: the name may be a newer one.
TitleLeaderboard(u) ==
    /\ loopPc = "titles"
    /\ u \in MustTitle \ DOMAIN titles
    /\ IsFree("users")
    /\ titles' = [v \in DOMAIN titles \cup {u} |-> IF v = u THEN names[u] ELSE titles[v]]
    /\ UNCHANGED <<dataVars, owner, callVars, loopPc, seen, board, known>>

ReturnLeaderboards ==
    /\ loopPc = "titles"
    /\ MustTitle \subseteq DOMAIN titles
    /\ loopPc' = "idle"
    /\ seen' = {}
    /\ board' = EmptyMap
    /\ titles' = EmptyMap
    /\ known' = {}
    /\ UNCHANGED <<dataVars, owner, callVars>>

-----------------------------------------------------------------------------

Client(c) == Invoke(c) \/ Lock(c) \/ Find(c) \/ Apply(c) \/ Return(c)

GetLeaderboards ==
    \/ CallGetLeaderboards
    \/ CopyConnected
    \/ LockUsers
    \/ \E u \in Users : CopyUser(u) \/ TitleLeaderboard(u)
    \/ UnlockUsers
    \/ ReturnLeaderboards

Next == (\E c \in Clients : Client(c)) \/ GetLeaderboards

Spec == Init /\ [][Next]_vars

-----------------------------------------------------------------------------
(* Properties                                                              *)

AnswerOf(res) ==
    IF res \in StorageErrors THEN "ERROR" ELSE res

Contract == INSTANCE Storage WITH
    Unreliable <- FALSE,
    reply <- [c \in Clients |-> AnswerOf(result[c])]

\* InMemoryStorage keeps the promise of db::Storage: thanks to its two mutexes
\* every call takes effect at once, and an error is returned only by a call that
\* changed nothing.
ImplementsStorage == Contract!Spec

\* While getLeaderboards copies the users it holds their mutex: what it copied is
\* still what is stored, so the leaderboards show all users at one moment.
SnapshotIsConsistent ==
    loopPc = "copy" => \A u \in DOMAIN board : board[u] = Row(u)

\* Every user that was registered when getLeaderboards was called and that was
\* connected when it looked gets a leaderboard, whatever the processors do between
\* its three locks.  (Under which of its names is not part of the property.)
ConnectedGetLeaderboards ==
    [][ReturnLeaderboards => seen \cap known \subseteq DOMAIN titles]_vars

=============================================================================
