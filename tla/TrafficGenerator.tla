-------------------------- MODULE TrafficGenerator --------------------------
(***************************************************************************)
(* tg::Generator::writeData: registers users, makes their deals, connects  *)
(* them and disconnects most of them, in transactions of a Publisher.      *)
(***************************************************************************)
EXTENDS Publisher

CONSTANTS
    UsersCount,      \* m_usersCount
    DealsPerUser,    \* m_dealsPerUser
    TransactionSize, \* m_transactionSize
    MaxFailures      \* bound: the messages of a transaction that fail on a working channel

ASSUME TrafficGeneratorAssumption ==
    /\ {UsersCount, TransactionSize, MaxFailures} \subseteq Nat
    /\ DealsPerUser \in Nat \ {0}

VARIABLES
    next,      \* the next message: its user, its command and its deal
    finishing  \* the last commit was begun

writeVars == <<next, finishing>>

\* Where the body of the loop over the users begins
User(u) == [user |-> u, command |-> "user_registered", deal |-> 1]

WriteInit == next = User(1) /\ finishing = FALSE

At(command) == [next EXCEPT !.command = command]

NextUser == User(next.user + 1)

\* The next deal of the user, or what follows the loop over the deals
NextDeal ==
    IF next.deal < DealsPerUser
      THEN [next EXCEPT !.command = "user_deal", !.deal = @ + 1]
      ELSE At("user_connected")

\* What may follow a message that was published; "commit" is the test of the
\* transaction's size.  One user of five stays connected.
AfterPublished ==
    CASE next.command = "user_registered"   -> {At("user_deal")}
      [] next.command = "user_deal"         -> {At("user_deal_won")}
      [] next.command = "user_deal_won"     -> {NextDeal}
      [] next.command = "user_connected"    -> {At("user_disconnected"), At("commit")}
      [] next.command = "user_disconnected" -> {At("commit")}

\* Faulty variant of AfterFailed: no continue after the registration.
DealsWithoutUser ==
    CASE next.command = "user_registered"                       -> At("user_deal")
      [] next.command \in {"user_deal", "user_deal_won"}         -> NextDeal
      [] next.command \in {"user_connected", "user_disconnected"} -> NextUser

\* continue: of the loop over the deals, or of that over the users
AfterFailed ==
    IF next.command \in {"user_deal", "user_deal_won"} THEN NextDeal ELSE NextUser

StartWriting == StartTransaction /\ UNCHANGED writeVars

\* Tried again until it succeeds
WritingStarted ==
    /\ Returns("select")
    /\ IF ResultOf = "SUCCESS" THEN Goto("publish") ELSE End("rollback")
    /\ UNCHANGED writeVars

PublishNext ==
    /\ next.user <= UsersCount
    /\ next.command # "commit"
    /\ Publish(next)
    /\ next' \in AfterPublished
    /\ UNCHANGED finishing

NextFails ==
    /\ next.user <= UsersCount
    /\ next.command # "commit"
    /\ FailToPublish
    /\ connected => transactionMessagesCount - Len(written[transaction]) < MaxFailures
    /\ next' = AfterFailed
    /\ UNCHANGED <<transaction, pc, request, calls, answer, written,
                   channelVars, brokerVars, fate, finishing>>

\* The end of the body of the loop over the users
UserWritten ==
    /\ pc = "publish"
    /\ next.command = "commit"
    /\ IF transactionMessagesCount >= TransactionSize THEN End("commit") ELSE Goto("publish")
    /\ next' = NextUser
    /\ UNCHANGED finishing

LastCommit ==
    /\ pc = "publish"
    /\ next.user > UsersCount
    /\ finishing' = TRUE
    /\ End("commit")
    /\ UNCHANGED next

AfterTransaction == Goto(IF finishing THEN "end" ELSE "idle")

BatchCommitted ==
    /\ Returns("commit")
    /\ IF ResultOf = "SUCCESS" THEN AfterTransaction ELSE End("rollback")
    /\ UNCHANGED writeVars

BatchRolledBack == Returns("rollback") /\ AfterTransaction /\ UNCHANGED writeVars

AttachWriting == Attach /\ UNCHANGED writeVars

WritingThread ==
    \/ StartWriting
    \/ AttachWriting
    \/ WritingStarted
    \/ PublishNext
    \/ NextFails
    \/ UserWritten
    \/ LastCommit
    \/ BatchCommitted
    \/ BatchRolledBack

=============================================================================
