----------------------------- MODULE Publishing -----------------------------
(***************************************************************************)
(* The two programs that publish in transactions, each with its Publisher: *)
(* the leaderboard loop of the service, or the traffic generator.          *)
(***************************************************************************)
EXTENDS LeaderboardLoop, TrafficGenerator

VARIABLE program  \* the one that runs

vars == <<publisherVars, loopVars, writeVars, program>>

Programs == {"loopFunc", "writeData"}

Init == PublisherInit /\ LoopInit /\ WriteInit /\ program \in Programs

Loop == program = "loopFunc" /\ LoopThread /\ UNCHANGED <<writeVars, program>>

Write == program = "writeData" /\ WritingThread /\ UNCHANGED <<loopVars, program>>

Next ==
    /\ fate # "crashed"
    /\ \/ program = "loopFunc" /\ Register /\ UNCHANGED <<writeVars, program>>
       \/ Loop
       \/ Write
       \/ Surroundings /\ UNCHANGED <<loopVars, writeVars, program>>

Spec == Init /\ [][Next]_vars

\* The loop thread runs.  Neither the broker nor the network owes it an answer.
FairSpec == Spec /\ WF_vars(fate # "crashed" /\ Loop)

-----------------------------------------------------------------------------
(* Properties                                                              *)

\* Subscribers get what a transaction has published all together or not at all, no
\* transaction twice and none before an earlier one: whatever times out, fails or is
\* answered late, neither program leaves a part of a transaction to the next commit.
\* A round of the loop is complete as well.
CommitsAreWhole ==
    /\ \A i \in DOMAIN delivered :
         /\ \E t \in 1..transaction : delivered[i] = written[t]
         /\ program = "loopFunc" => Len(delivered[i]) = Leaderboards
    /\ \A i, j \in DOMAIN delivered : i < j =>
         \A f \in Range(delivered[i]), g \in Range(delivered[j]) : f.transaction < g.transaction

\* When commitTransactionSync returns SUCCESS what was published is delivered, unless a
\* late callback of an earlier call has been taken for the answer.
SuccessMeansDelivered ==
    [][Returns("commit") /\ pc' \in {"idle", "end"} =>
         fate # "fine" \/ \E i \in DOMAIN delivered : delivered[i] = written[transaction]]_vars

\* Every round ends, whatever the broker does: loopFunc cannot keep Logic::stop
\* from joining the loop thread.
EveryRoundEnds ==
    program = "loopFunc" /\ pc # "idle" ~> pc = "idle" \/ fate = "crashed"

\* What the traffic generator delivers of a user it delivers in one commit, the
\* registration first: writeData may leave out messages and lose transactions, but it
\* never makes a deal of somebody who is not registered.
UsersAreWhole ==
    program = "writeData" =>
        \A i, j \in DOMAIN delivered :
            \A m \in DOMAIN delivered[i], n \in DOMAIN delivered[j] :
                delivered[i][m].content.user = delivered[j][n].content.user =>
                    /\ i = j
                    /\ \E k \in 1..m :
                         delivered[i][k].content = User(delivered[i][m].content.user)

=============================================================================
