----------------------- MODULE InMemoryStorageProofs -----------------------
(***************************************************************************)
(* InMemoryStorage implements the contract of Storage, for any number of   *)
(* processor threads, users, names, times and calls; its leaderboards show *)
(* all users at one moment, and leave out no connected user.               *)
(***************************************************************************)
EXTENDS InMemoryStorage, TLAPS

-----------------------------------------------------------------------------
(* The inductive invariant.                                                *)

\* The parts of the type invariant the argument needs.
ShapeInv ==
    /\ names \in [Users -> Names \cup {NoName}]
    /\ earned \in [Users -> [Times -> Int]]
    /\ owner \in [Mutexes -> Clients \cup {Loop, Nobody}]
    /\ call \in [Clients -> Requests \cup {NoCall}]
    /\ pc \in [Clients -> {"idle", "lock", "find", "apply", "return"}]
    /\ found \subseteq Clients
    /\ result \in [Clients -> StorageResults \cup {"none"}]

\* A client is in a call iff it is not idle, and has a result iff it is about
\* to return it.
CallInv ==
    \A c \in Clients :
        /\ pc[c] = "idle" <=> call[c] = NoCall
        /\ pc[c] = "return" <=> result[c] # "none"

\* Inside its critical section a thread owns the mutex of the map it works on.
LockInv ==
    /\ \A c \in Clients : pc[c] \in {"find", "apply"} => owner[MutexOf(call[c])] = c
    /\ loopPc = "copy" => owner["users"] = Loop

\* What a client found is still so when it acts on it.
FoundInv ==
    \A c \in Clients : pc[c] = "apply" =>
        /\ MutexOf(call[c]) = "users" => (c \in found <=> Registered(call[c].id))
        /\ MutexOf(call[c]) = "connected" => (c \in found <=> call[c].id \in connected)

\* getLeaderboards starts from an empty copy.
FreshInv == loopPc \in {"idle", "connected", "users"} => board = EmptyMap

IInv == ShapeInv /\ CallInv /\ LockInv /\ FoundInv /\ FreshInv /\ SnapshotIsConsistent

-----------------------------------------------------------------------------

LEMMA InitIInv == Init => IInv
<1> SUFFICES ASSUME Init PROVE IInv
  OBVIOUS
<1> USE DEF Init
<1>1. ShapeInv
  BY DEF ShapeInv
<1>2. CallInv
  BY DEF CallInv
<1>3. LockInv
  BY DEF LockInv
<1>4. FoundInv
  BY DEF FoundInv
<1>5. FreshInv /\ SnapshotIsConsistent
  BY DEF FreshInv, SnapshotIsConsistent
<1> QED
  BY <1>1, <1>2, <1>3, <1>4, <1>5 DEF IInv

LEMMA CallType ==
    ASSUME ShapeInv, CallInv, NEW c \in Clients, pc[c] # "idle"
    PROVE  /\ call[c] \in AllRequests
           /\ MutexOf(call[c]) \in Mutexes
           /\ call[c].id \in Users /\ call[c].name \in Names
           /\ call[c].time \in Times /\ call[c].amount \in Int
<1>1. call[c] \in Requests
  BY DEF ShapeInv, CallInv
<1>2. call[c] \in AllRequests
  BY <1>1, RequestsAssumption
<1> QED
  BY <1>2, RequestsAssumption DEF AllRequests, MutexOf, Mutexes

\* A step of a client's critical section that ends it.
LEMMA ApplyStep ==
    ASSUME IInv, NEW c \in Clients, Apply(c)
    PROVE  IInv'
<1> USE DEF IInv
<1>0. pc[c] = "apply"
  BY DEF Apply
<1>1. /\ call[c].id \in Users /\ call[c].name \in Names
      /\ call[c].time \in Times /\ call[c].amount \in Int
      /\ MutexOf(call[c]) \in Mutexes
      /\ owner[MutexOf(call[c])] = c
  BY <1>0, CallType DEF LockInv
<1>2. PICK res \in StorageResults : Finish(c, res)
  BY DEF Apply, StoreUser, RenameUser, StoreUserDeal, StoreConnectedUser, RemoveConnectedUser,
         StorageResults, StorageErrors
<1>3. /\ MutexOf(call[c]) = "users" => UNCHANGED connected
      /\ MutexOf(call[c]) = "connected" => UNCHANGED <<names, earned>>
  BY DEF Apply, StoreUser, RenameUser, StoreUserDeal, StoreConnectedUser, RemoveConnectedUser,
         MutexOf, ConnectedOperations
<1>4. ShapeInv'
  <2>1. names' \in [Users -> Names \cup {NoName}]
    BY <1>1 DEF ShapeInv, Apply, StoreUser, RenameUser, StoreUserDeal, StoreConnectedUser,
                RemoveConnectedUser
  <2>2. earned' \in [Users -> [Times -> Int]]
    <3>1. CASE UNCHANGED earned
      BY <3>1 DEF ShapeInv
    <3>2. CASE earned' = [earned EXCEPT ![call[c].id][call[c].time] = @ + call[c].amount]
      BY <1>1, <3>2 DEF ShapeInv
    <3> QED
      BY <3>1, <3>2 DEF Apply, StoreUser, RenameUser, StoreUserDeal, StoreConnectedUser,
                        RemoveConnectedUser
  <2> QED
    BY <1>1, <1>2, <2>1, <2>2 DEF ShapeInv, Finish, Goto
<1>5. CallInv'
  BY <1>0, <1>2 DEF ShapeInv, CallInv, Finish, Goto, StorageResults, StorageErrors
<1>6. LockInv'
  BY <1>1, <1>2, ThreadsAssumption DEF ShapeInv, LockInv, Finish, Goto, loopVars
<1>7. \A d \in Clients \ {c} : pc[d] = "apply" => MutexOf(call[d]) # MutexOf(call[c])
  BY <1>1 DEF LockInv
<1>8. FoundInv'
  <2> SUFFICES ASSUME NEW d \in Clients, pc'[d] = "apply"
               PROVE  /\ MutexOf(call[d]) = "users" => (d \in found <=> names'[call[d].id] # NoName)
                      /\ MutexOf(call[d]) = "connected" => (d \in found <=> call[d].id \in connected')
    BY <1>2 DEF FoundInv, Finish, Registered
  <2>1. d # c /\ pc[d] = "apply"
    BY <1>2 DEF Finish, Goto, ShapeInv
  <2> QED
    BY <1>1, <1>3, <1>7, <2>1 DEF FoundInv, Registered, Mutexes
<1>9. SnapshotIsConsistent'
  <2> SUFFICES ASSUME loopPc = "copy"
               PROVE  \A u \in DOMAIN board : board[u] = Row(u)'
    BY <1>2 DEF SnapshotIsConsistent, Finish, loopVars
  <2>1. UNCHANGED <<names, earned>>
    BY <1>1, <1>3, ThreadsAssumption DEF LockInv, Mutexes
  <2> QED
    BY <2>1 DEF SnapshotIsConsistent, Row
<1>10. FreshInv'
  BY <1>2 DEF FreshInv, Finish, loopVars
<1> QED
  BY <1>4, <1>5, <1>6, <1>8, <1>9, <1>10

\* The other steps of a client, and the steps of the loop thread.
LEMMA OtherSteps ==
    ASSUME IInv,
           \/ \E c \in Clients : Invoke(c) \/ Lock(c) \/ Find(c) \/ Return(c)
           \/ GetLeaderboards
           \/ UNCHANGED vars
    PROVE  IInv'
<1> USE DEF IInv
<1>1. ASSUME NEW c \in Clients, Invoke(c) PROVE IInv'
  <2>1. ShapeInv' /\ CallInv'
    BY <1>1, RequestsAssumption DEF Invoke, Goto, ShapeInv, CallInv, dataVars
  <2>2. LockInv' /\ FoundInv'
    BY <1>1 DEF Invoke, Goto, ShapeInv, LockInv, FoundInv, dataVars, loopVars, Registered
  <2>3. FreshInv' /\ SnapshotIsConsistent'
    BY <1>1 DEF Invoke, FreshInv, SnapshotIsConsistent, Row, dataVars, loopVars
  <2> QED
    BY <2>1, <2>2, <2>3
<1>2. ASSUME NEW c \in Clients, Lock(c) PROVE IInv'
  <2>0. MutexOf(call[c]) \in Mutexes
    BY <1>2, CallType DEF Lock
  <2>1. ShapeInv' /\ CallInv'
    BY <1>2, <2>0 DEF Lock, Goto, ShapeInv, CallInv, dataVars
  <2>2. LockInv'
    BY <1>2, <2>0, ThreadsAssumption DEF Lock, Goto, IsFree, ShapeInv, LockInv, dataVars, loopVars
  <2>3. FoundInv'
    BY <1>2 DEF Lock, Goto, ShapeInv, FoundInv, dataVars, Registered
  <2>4. FreshInv' /\ SnapshotIsConsistent'
    BY <1>2 DEF Lock, FreshInv, SnapshotIsConsistent, Row, dataVars, loopVars
  <2> QED
    BY <2>1, <2>2, <2>3, <2>4
<1>3. ASSUME NEW c \in Clients, Find(c) PROVE IInv'
  <2>1. ShapeInv' /\ CallInv'
    BY <1>3 DEF Find, Goto, ShapeInv, CallInv, dataVars
  <2>2. LockInv'
    BY <1>3 DEF Find, Goto, ShapeInv, LockInv, dataVars, loopVars
  <2>3. FoundInv'
    BY <1>3, CallType DEF Find, Goto, ShapeInv, FoundInv, dataVars, Registered, RegisteredUsers,
                          MutexOf
  <2>4. FreshInv' /\ SnapshotIsConsistent'
    BY <1>3 DEF Find, FreshInv, SnapshotIsConsistent, Row, dataVars, loopVars
  <2> QED
    BY <2>1, <2>2, <2>3, <2>4
<1>4. ASSUME NEW c \in Clients, Return(c) PROVE IInv'
  <2>1. ShapeInv' /\ CallInv'
    BY <1>4 DEF Return, Goto, ShapeInv, CallInv, dataVars
  <2>2. LockInv' /\ FoundInv'
    BY <1>4 DEF Return, Goto, ShapeInv, LockInv, FoundInv, dataVars, loopVars, Registered
  <2>3. FreshInv' /\ SnapshotIsConsistent'
    BY <1>4 DEF Return, FreshInv, SnapshotIsConsistent, Row, dataVars, loopVars
  <2> QED
    BY <2>1, <2>2, <2>3
<1>5. CASE GetLeaderboards
  <2>1. UNCHANGED <<dataVars, callVars>>
    BY <1>5 DEF GetLeaderboards, CallGetLeaderboards, CopyConnected, LockUsers, CopyUser,
                UnlockUsers, TitleLeaderboard, ReturnLeaderboards
  <2>2. CallInv' /\ FoundInv'
    BY <2>1 DEF dataVars, callVars, CallInv, FoundInv, Registered
  <2>3. ShapeInv' /\ LockInv'
    <3>1. CASE LockUsers
      BY <2>1, <3>1, ThreadsAssumption
      DEF LockUsers, IsFree, dataVars, callVars, ShapeInv, LockInv, Mutexes
    <3>2. CASE UnlockUsers
      BY <2>1, <3>2, ThreadsAssumption
      DEF UnlockUsers, dataVars, callVars, ShapeInv, LockInv, Mutexes
    <3>3. CASE UNCHANGED owner /\ (loopPc' = "copy" => loopPc = "copy")
      BY <2>1, <3>3 DEF dataVars, callVars, ShapeInv, LockInv
    <3> QED
      BY <1>5, <3>1, <3>2, <3>3 DEF GetLeaderboards, CallGetLeaderboards, CopyConnected,
           CopyUser, TitleLeaderboard, ReturnLeaderboards
  <2>4. FreshInv'
    BY <1>5 DEF FreshInv, GetLeaderboards, CallGetLeaderboards, CopyConnected, LockUsers,
                CopyUser, UnlockUsers, TitleLeaderboard, ReturnLeaderboards
  <2>5. SnapshotIsConsistent'
    <3>1. ASSUME NEW u \in Users, CopyUser(u) PROVE SnapshotIsConsistent'
      BY <2>1, <3>1 DEF CopyUser, SnapshotIsConsistent, Row, dataVars
    <3>2. CASE LockUsers
      BY <3>2 DEF LockUsers, FreshInv, EmptyMap, SnapshotIsConsistent
    <3>3. CASE loopPc' # "copy"
      BY <3>3 DEF SnapshotIsConsistent
    <3> QED
      BY <1>5, <3>1, <3>2, <3>3 DEF GetLeaderboards, CallGetLeaderboards, CopyConnected,
           UnlockUsers, TitleLeaderboard, ReturnLeaderboards
  <2> QED
    BY <2>2, <2>3, <2>4, <2>5
<1>6. CASE UNCHANGED vars
  BY <1>6 DEF vars, dataVars, callVars, loopVars, ShapeInv, CallInv, LockInv, FoundInv,
              FreshInv, SnapshotIsConsistent, Row, Registered
<1> QED
  BY <1>1, <1>2, <1>3, <1>4, <1>5, <1>6

LEMMA NextIInv == IInv /\ [Next]_vars => IInv'
  BY ApplyStep, OtherSteps DEF Next, Client

-----------------------------------------------------------------------------
(* The steps of the implementation as steps of the contract.               *)

LEMMA InitImplements == Init => Contract!Init
<1> SUFFICES ASSUME Init PROVE Contract!Init
  OBVIOUS
<1>1. [c \in Clients |-> AnswerOf(result[c])] = [c \in Clients |-> "none"]
  BY DEF Init, AnswerOf, StorageErrors
<1> QED
  BY <1>1 DEF Init, Contract!Init

LEMMA ApplyImplements ==
    ASSUME IInv, NEW c \in Clients, Apply(c)
    PROVE  Contract!Next
<1> DEFINE reply == [d \in Clients |-> AnswerOf(result[d])]
<1> USE DEF IInv
<1>0. pc[c] = "apply" /\ call[c] # NoCall /\ result[c] = "none"
  BY DEF Apply, CallInv
<1>1. reply[c] = "none"
  BY <1>0 DEF AnswerOf, StorageErrors
<1>2. ASSUME NEW res \in StorageResults, Finish(c, res)
      PROVE  reply' = [reply EXCEPT ![c] = AnswerOf(res)] /\ UNCHANGED call
  BY <1>2 DEF Finish, ShapeInv
<1>3. AnswerOf("SUCCESS") = "SUCCESS"
  BY DEF AnswerOf, StorageErrors
<1>4. AnswerOf("USER_ALREADY_REG") = "ERROR" /\ AnswerOf("USER_NOT_FOUND") = "ERROR"
  BY DEF AnswerOf, StorageErrors
<1> HIDE DEF reply
<1>5. ASSUME Finish(c, "SUCCESS"), Contract!Effect(call[c]) PROVE Contract!Next
  <2>1. Contract!Succeed(c)
    BY <1>0, <1>1, <1>2, <1>3, <1>5 DEF Contract!Succeed, Contract!Answer, StorageResults, reply
  <2> QED
    BY <2>1 DEF Contract!Next
<1>6. ASSUME NEW res \in {"USER_ALREADY_REG", "USER_NOT_FOUND"}, Finish(c, res),
             Contract!Futile(call[c]), UNCHANGED dataVars
      PROVE  Contract!Next
  <2>1. Contract!Refuse(c)
    BY <1>0, <1>1, <1>2, <1>4, <1>6
    DEF Contract!Refuse, Contract!Answer, Contract!dataVars, dataVars, StorageResults,
        StorageErrors, reply
  <2> QED
    BY <2>1 DEF Contract!Next
<1> USE DEF Contract!Effect, Contract!Futile, Contract!Registered, Registered, FoundInv,
            MutexOf, ConnectedOperations, dataVars
<1>7. CASE StoreUser(c)
  BY <1>0, <1>5, <1>6, <1>7 DEF StoreUser
<1>8. CASE RenameUser(c)
  BY <1>0, <1>5, <1>6, <1>8 DEF RenameUser
<1>9. CASE StoreUserDeal(c)
  BY <1>0, <1>5, <1>6, <1>9 DEF StoreUserDeal
<1>10. CASE StoreConnectedUser(c)
  BY <1>0, <1>5, <1>10 DEF StoreConnectedUser
<1>11. CASE RemoveConnectedUser(c)
  BY <1>0, <1>5, <1>6, <1>11 DEF RemoveConnectedUser
<1> QED
  BY <1>7, <1>8, <1>9, <1>10, <1>11 DEF Apply

LEMMA StepImplements == IInv /\ [Next]_vars => [Contract!Next]_(Contract!vars)
<1> SUFFICES ASSUME IInv, [Next]_vars PROVE [Contract!Next]_(Contract!vars)
  OBVIOUS
<1> DEFINE reply == [d \in Clients |-> AnswerOf(result[d])]
<1> USE DEF IInv, dataVars, loopVars, callVars, Contract!dataVars, Contract!vars
<1>1. ASSUME NEW c \in Clients, Apply(c) PROVE Contract!Next
  BY <1>1, ApplyImplements
<1>2. ASSUME NEW c \in Clients, Invoke(c) PROVE Contract!Next
  <2>1. Contract!Invoke(c)
    BY <1>2 DEF Invoke, Contract!Invoke, CallInv
  <2> QED
    BY <2>1 DEF Contract!Next
<1>3. ASSUME NEW c \in Clients, Return(c) PROVE Contract!Next
  <2>1. reply[c] # "none"
    BY <1>3 DEF Return, CallInv, AnswerOf
  <2>2. reply' = [reply EXCEPT ![c] = "none"]
    BY <1>3 DEF Return, ShapeInv, AnswerOf, StorageErrors
  <2>3. Contract!Return(c)
    BY <1>3, <2>1, <2>2 DEF Return, Contract!Return
  <2> QED
    BY <2>3 DEF Contract!Next
<1>4. ASSUME \/ \E c \in Clients : Lock(c) \/ Find(c)
             \/ GetLeaderboards
             \/ UNCHANGED vars
      PROVE  UNCHANGED Contract!vars
  <2>1. UNCHANGED <<dataVars, call, result>>
    BY <1>4 DEF Lock, Find, vars, GetLeaderboards, CallGetLeaderboards, CopyConnected, LockUsers,
                CopyUser, UnlockUsers, TitleLeaderboard, ReturnLeaderboards
  <2> QED
    BY <2>1
<1> QED
  BY <1>1, <1>2, <1>3, <1>4 DEF Next, Client

-----------------------------------------------------------------------------
(* The theorems.                                                           *)

THEOREM InvariantHolds == Spec => []IInv
  BY InitIInv, NextIInv, PTL DEF Spec

\* What is copied stays registered, so that the loop thread finds a name for each title.
KnownInv ==
    /\ DOMAIN board \subseteq RegisteredUsers
    /\ DOMAIN titles \subseteq DOMAIN board

\* The client's steps leave a registered user registered and the loop's variables alone.
LEMMA ClientType ==
    ASSUME IInv, TypeOK, KnownInv, NEW c \in Clients, Client(c)
    PROVE  TypeOK' /\ KnownInv'
<1> USE DEF IInv, ShapeInv, TypeOK, KnownInv, RegisteredUsers, Registered
<1>1. CASE Invoke(c)
  <2>1. calls' \in 0..MaxCalls
    BY <1>1, MaxCallsAssumption DEF Invoke
  <2> QED
    BY <1>1, <2>1 DEF Invoke, Goto, dataVars, loopVars
<1>2. CASE Lock(c)
  <2>1. MutexOf(call[c]) \in Mutexes
    BY DEF MutexOf, Mutexes
  <2> QED
    BY <1>2, <2>1 DEF Lock, Goto, dataVars, loopVars
<1>3. CASE Find(c)
  BY <1>3 DEF Find, Goto, dataVars, loopVars
<1>4. CASE Apply(c)
  <2>1. call[c] \in AllRequests
    BY <1>4, CallType, SMTT(60) DEF Apply
  <2>2. ShapeInv' /\ UNCHANGED <<calls, loopVars>>
    BY <1>4, NextIInv
    DEF Apply, StoreUser, RenameUser, StoreUserDeal, StoreConnectedUser, RemoveConnectedUser, Finish, Next, Client, loopVars
  <2>3. connected' \subseteq Users
    BY <1>4, <2>1
    DEF Apply, StoreUser, RenameUser, StoreUserDeal, StoreConnectedUser, RemoveConnectedUser, AllRequests
  <2>4. \A u \in Users : names[u] # NoName => names'[u] # NoName
    BY <1>4, <2>1, RequestsAssumption
    DEF Apply, StoreUser, RenameUser, StoreUserDeal, StoreConnectedUser, RemoveConnectedUser, AllRequests
  <2> QED
    BY <2>2, <2>3, <2>4 DEF loopVars
<1>5. CASE Return(c)
  BY <1>5 DEF Return, Goto, dataVars, loopVars
<1> QED
  BY <1>1, <1>2, <1>3, <1>4, <1>5 DEF Client

LEMMA LoopType ==
    ASSUME IInv, TypeOK, KnownInv, GetLeaderboards
    PROVE  TypeOK' /\ KnownInv'
<1> USE DEF IInv, ShapeInv, TypeOK, KnownInv, RegisteredUsers, Registered, dataVars, callVars
<1>1. CASE CallGetLeaderboards
  BY <1>1 DEF CallGetLeaderboards
<1>2. CASE CopyConnected
  BY <1>2 DEF CopyConnected
<1>3. CASE LockUsers
  BY <1>3 DEF LockUsers, Mutexes
<1>4. ASSUME NEW u \in Users, CopyUser(u) PROVE TypeOK' /\ KnownInv'
  BY <1>4 DEF CopyUser, Row
<1>5. ASSUME NEW u \in Users, TitleLeaderboard(u) PROVE TypeOK' /\ KnownInv'
  BY <1>5 DEF TitleLeaderboard, MustTitle
<1>6. CASE UnlockUsers
  BY <1>6 DEF UnlockUsers, Mutexes
<1>7. CASE ReturnLeaderboards
  BY <1>7 DEF ReturnLeaderboards, EmptyMap
<1> QED
  BY <1>1, <1>2, <1>3, <1>4, <1>5, <1>6, <1>7 DEF GetLeaderboards

\* InMemoryStorage's variables keep their types.  In particular the loop thread has a name
\* for every leaderboard it titles: whoever was copied is still there under the second lock.
THEOREM TypeCorrect == Spec => []TypeOK
<1>1. Init => TypeOK /\ KnownInv
  BY MaxCallsAssumption DEF Init, TypeOK, KnownInv, EmptyMap
<1>2. IInv /\ TypeOK /\ KnownInv /\ [Next]_vars => TypeOK' /\ KnownInv'
  <2>1. ASSUME IInv, TypeOK, KnownInv, UNCHANGED vars PROVE TypeOK' /\ KnownInv'
    BY <2>1 DEF vars, dataVars, callVars, loopVars, TypeOK, KnownInv, RegisteredUsers, Registered
  <2> QED
    BY <2>1, ClientType, LoopType DEF Next
<1> QED
  BY <1>1, <1>2, InvariantHolds, PTL DEF Spec

\* While getLeaderboards copies the users, its copy is what is stored: the
\* leaderboards of one call show all users at one moment.
THEOREM SnapshotHolds == Spec => []SnapshotIsConsistent
  BY InvariantHolds, PTL DEF IInv

\* InMemoryStorage implements db::Storage: each call takes effect at once, and an
\* error means that nothing was changed.
THEOREM Implementation == Spec => ImplementsStorage
  BY InitImplements, StepImplements, InvariantHolds, PTL
  DEF Spec, ImplementsStorage, Contract!Spec

-----------------------------------------------------------------------------
(* Who gets a leaderboard                                                  *)

\* Who was registered when getLeaderboards was called still is, and is in its copy.
KeptInv ==
    /\ known \subseteq RegisteredUsers
    /\ loopPc = "titles" => known \subseteq DOMAIN board

\* No call removes a user.
LEMMA RegisteredStay ==
    ASSUME IInv, NEW c \in Clients, Client(c)
    PROVE  RegisteredUsers \subseteq RegisteredUsers' /\ UNCHANGED loopVars
<1> USE DEF RegisteredUsers, Registered
<1>1. CASE Invoke(c) \/ Lock(c) \/ Find(c) \/ Return(c)
  BY <1>1 DEF Invoke, Lock, Find, Return, dataVars
<1>2. CASE Apply(c)
  <2>1. call[c] \in AllRequests
    BY <1>2, CallType DEF IInv, Apply
  <2>2. \A u \in Users : names[u] # NoName => names'[u] # NoName
    BY <1>2, <2>1, RequestsAssumption
    DEF IInv, ShapeInv, Apply, StoreUser, RenameUser, StoreUserDeal, StoreConnectedUser, RemoveConnectedUser, AllRequests
  <2>3. UNCHANGED loopVars
    BY <1>2
    DEF Apply, StoreUser, RenameUser, StoreUserDeal, StoreConnectedUser, RemoveConnectedUser, Finish
  <2> QED
    BY <2>2, <2>3
<1> QED
  BY <1>1, <1>2 DEF Client

LEMMA KeptStays == IInv /\ KeptInv /\ [Next]_vars => KeptInv'
<1> SUFFICES ASSUME IInv, KeptInv, [Next]_vars PROVE KeptInv'
  OBVIOUS
<1>1. ASSUME NEW c \in Clients, Client(c) PROVE KeptInv'
  BY <1>1, RegisteredStay DEF KeptInv, loopVars
<1>2. CASE GetLeaderboards
  <2> USE DEF KeptInv, RegisteredUsers, Registered, dataVars
  <2>1. CASE CallGetLeaderboards \/ CopyConnected \/ LockUsers
    BY <2>1 DEF CallGetLeaderboards, CopyConnected, LockUsers
  <2>2. ASSUME NEW u \in Users, CopyUser(u) \/ TitleLeaderboard(u) PROVE KeptInv'
    BY <2>2 DEF CopyUser, TitleLeaderboard
  <2>3. CASE UnlockUsers \/ ReturnLeaderboards
    BY <2>3 DEF UnlockUsers, ReturnLeaderboards
  <2> QED
    BY <1>2, <2>1, <2>2, <2>3 DEF GetLeaderboards
<1>3. CASE UNCHANGED vars
  BY <1>3 DEF vars, dataVars, loopVars, KeptInv, RegisteredUsers, Registered
<1> QED
  BY <1>1, <1>2, <1>3 DEF Next

\* Whatever the processors do between the three locks of getLeaderboards: every user that was
\* registered when it was called, and connected when it looked, gets a leaderboard.
THEOREM ConnectedAreServed == Spec => ConnectedGetLeaderboards
<1>1. Init => KeptInv
  BY DEF Init, KeptInv
<1>2. KeptInv => [ReturnLeaderboards => seen \cap known \subseteq DOMAIN titles]_vars
  BY DEF KeptInv, ReturnLeaderboards, MustTitle
<1> QED
  BY <1>1, <1>2, KeptStays, InvariantHolds, PTL DEF Spec, ConnectedGetLeaderboards

=============================================================================
