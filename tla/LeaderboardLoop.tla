-------------------------- MODULE LeaderboardLoop --------------------------
(***************************************************************************)
(* Logic::loopFunc: every round of the loop publishes its leaderboards in  *)
(* one transaction of a Publisher.                                         *)
(***************************************************************************)
EXTENDS Publisher

CONSTANT Leaderboards  \* how many leaderboards a round publishes, the top one included

ASSUME LeaderboardLoopAssumption == Leaderboards \in Nat \ {0}

VARIABLE registered    \* registerPublisher was called

loopVars == <<registered>>

LoopInit == registered = FALSE

Register ==
    /\ ~registered
    /\ registered' = TRUE
    /\ UNCHANGED publisherVars

\* The leaderboards were calculated.
BeginRound == registered /\ StartTransaction

RoundStarted == Returns("select") /\ Goto(IF ResultOf = "SUCCESS" THEN "publish" ELSE "idle")

PublishLeaderboard ==
    /\ transactionMessagesCount < Leaderboards
    /\ Publish(transactionMessagesCount + 1)

\* Faulty variant of AfterPublishFailed: return without a rollback.
GiveUpRound ==
    /\ pc' = "idle"
    /\ UNCHANGED <<transaction, request, calls, answer, written, channelVars, brokerVars, fate>>

\* "Cannot publish message. Rollback transaction": what the loop does next
AfterPublishFailed == UNCHANGED <<transaction, written>> /\ Request("rollback")

LeaderboardFails ==
    /\ FailToPublish
    /\ transactionMessagesCount < Leaderboards
    /\ AfterPublishFailed

CommitRound == pc = "publish" /\ transactionMessagesCount = Leaderboards /\ End("commit")

RoundCommitted ==
    /\ Returns("commit")
    /\ IF ResultOf = "SUCCESS" THEN Goto("idle") ELSE End("rollback")

RoundRolledBack == Returns("rollback") /\ Goto("idle")

LoopThread ==
    /\ \/ BeginRound
       \/ Attach
       \/ RoundStarted
       \/ PublishLeaderboard
       \/ LeaderboardFails
       \/ CommitRound
       \/ RoundCommitted
       \/ RoundRolledBack
    /\ UNCHANGED loopVars

=============================================================================
