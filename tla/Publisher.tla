----------------------------- MODULE Publisher -----------------------------
(***************************************************************************)
(* rabbitmq::Publisher: transactions on one AMQP channel, for a program's  *)
(* thread that publishes.  LeaderboardLoop and TrafficGenerator have the   *)
(* two programs that do.                                                   *)
(*                                                                         *)
(* Starting, committing and rolling back a transaction are synchronous     *)
(* calls built from asynchronous ones: the thread sends the request, then  *)
(* hands the library two callbacks that refer to a SyncObj on its stack,   *)
(* and waits for them at most five times one second; the event loop thread *)
(* calls them when the answer comes, which may be before they are there    *)
(* and after the wait is over.                                             *)
(*                                                                         *)
(* The AMQP library and the broker are external: requests are sent and     *)
(* answered in order, what is published in a transaction is delivered by   *)
(* its commit, and a lost connection is never opened again.                *)
(***************************************************************************)
EXTENDS Integers, Sequences, SequencesExt

CONSTANT MaxTransactions  \* bound: how many transactions are begun

ASSUME PublisherAssumption == MaxTransactions \in Nat

VARIABLES
    transaction, \* how many transactions were begun: the last one's number
    pc,          \* where the publishing thread is
    request,     \* the request of its last synchronous call
    calls,       \* how many synchronous calls were made: the last one's number
    answer,      \* m_value of the SyncObj of that call, "none" before m_flag is set
    transactionMessagesCount,
    connected,   \* whether the channel works
    deferreds,   \* the unanswered requests in order: their call, and whether the
                 \* callbacks were attached
    toBroker,    \* the frames on the way to the broker
    answers,     \* how many answers are on the way back
    selected,    \* the broker: the channel is transactional
    pending,     \* the broker: published in the transaction, not committed
    delivered,   \* the broker: what was delivered, commit by commit
    written,     \* history: what each transaction published
    fate         \* "fine"; "strayed" after a callback ran on a dead SyncObj;
                 \* "crashed" after that brought the process down

threadVars == <<transaction, pc, request, calls, answer, transactionMessagesCount, written>>
channelVars == <<connected, deferreds, toBroker, answers>>
brokerVars == <<selected, pending, delivered>>
publisherVars == <<threadVars, channelVars, brokerVars, fate>>

PublisherInit ==
    /\ transaction = 0
    /\ pc = "idle"
    /\ request = "none"
    /\ calls = 0
    /\ answer = "none"
    /\ transactionMessagesCount = 0
    /\ connected = TRUE
    /\ deferreds = <<>>
    /\ toBroker = <<>>
    /\ answers = 0
    /\ selected = FALSE
    /\ pending = <<>>
    /\ delivered = <<>>
    /\ written = <<>>
    /\ fate = "fine"

-----------------------------------------------------------------------------
(* The thread that publishes                                               *)

RequestFrame(op) == [op |-> op, transaction |-> transaction']
MessageFrame(content) == [op |-> "publish", transaction |-> transaction, content |-> content]

\* startTransaction(), commitTransaction() and rollbackTransaction() of the
\* channel.  On a dead channel the call fails as soon as onError is attached.
Request(op) ==
    /\ request' = op
    /\ calls' = calls + 1
    /\ IF connected
         THEN /\ toBroker' = Append(toBroker, RequestFrame(op))
              /\ deferreds' = Append(deferreds, [call |-> calls + 1, heard |-> FALSE])
              /\ answer' = "none"
              /\ pc' = "attach"
         ELSE /\ UNCHANGED <<toBroker, deferreds>>
              /\ answer' = "FAILED"
              /\ pc' = "wait"
    /\ UNCHANGED <<connected, answers, brokerVars, fate>>

\* startTransactionSync()
StartTransaction ==
    /\ pc = "idle"
    /\ transaction < MaxTransactions
    /\ transaction' = transaction + 1
    /\ written' = Append(written, <<>>)
    /\ transactionMessagesCount' = 0
    /\ Request("select")

\* commitTransactionSync() and rollbackTransactionSync()
End(op) ==
    /\ op \in {"commit", "rollback"}
    /\ UNCHANGED <<transaction, written, transactionMessagesCount>>
    /\ Request(op)

\* .onSuccess(...).onError(...): too late if the answer is already there
Attach ==
    /\ pc = "attach"
    /\ deferreds' = [i \in DOMAIN deferreds |->
                       IF deferreds[i].call = calls THEN [deferreds[i] EXCEPT !.heard = TRUE]
                                                    ELSE deferreds[i]]
    /\ pc' = "wait"
    /\ UNCHANGED <<transaction, request, calls, answer, transactionMessagesCount, written,
                   connected, toBroker, answers, brokerVars, fate>>

\* Faulty variant of GivesUp: SyncObj's default, the number of waits is unlimited.
WaitsForEver == FALSE

\* m_waitTimes waits are over and m_flag is not set
GivesUp == answer = "none"

\* Faulty variant of ResultOf: SyncObj<Result> result(Result::SUCCESS, 1, 5).
ResultOrSuccess == IF answer = "none" THEN "SUCCESS" ELSE answer

\* result.get(), with SyncObj<Result> result(Result::FAILED, 1, 5)
ResultOf == IF answer = "none" THEN "FAILED" ELSE answer

\* result.wait() is over
Returns(op) == pc = "wait" /\ request = op /\ (answer # "none" \/ GivesUp)

Goto(l) ==
    /\ pc' = l
    /\ UNCHANGED <<transaction, request, calls, answer, transactionMessagesCount, written,
                   channelVars, brokerVars, fate>>

\* publish(): channel().publish returns true ...
Publish(content) ==
    /\ pc = "publish"
    /\ connected
    /\ transactionMessagesCount' = transactionMessagesCount + 1
    /\ toBroker' = Append(toBroker, MessageFrame(content))
    /\ written' = [written EXCEPT ![transaction] = Append(@, MessageFrame(content))]
    /\ UNCHANGED <<transaction, pc, request, calls, answer,
                   connected, deferreds, answers, brokerVars, fate>>

\* ... or false, on a dead channel in any case.  The message is counted nevertheless.
FailToPublish ==
    /\ pc = "publish"
    /\ transactionMessagesCount' = transactionMessagesCount + 1

-----------------------------------------------------------------------------
(* The event loop thread and the AMQP library                              *)

IsOver(call) == call # calls \/ pc # "wait"

\* What a callback does that refers to the SyncObj of a call that has returned:
\* nothing that is seen, or it sets the SyncObj of the call that is now at that
\* place of the stack, or the process crashes.
Stray(value) ==
    \/ fate' = "strayed" /\ UNCHANGED answer
    \/ fate' = "strayed" /\ pc \in {"attach", "wait"} /\ answer' = value
    \/ fate' = "crashed" /\ UNCHANGED answer

\* The oldest request is answered.  Without a callback nobody hears of it.
Answer ==
    /\ answers > 0
    /\ answers' = answers - 1
    /\ deferreds' = Tail(deferreds)
    /\ LET d == Head(deferreds)
       IN  IF ~d.heard THEN UNCHANGED <<answer, fate>>
           ELSE IF IsOver(d.call) THEN Stray("SUCCESS")
           ELSE answer' = "SUCCESS" /\ UNCHANGED fate
    /\ UNCHANGED <<transaction, pc, request, calls, transactionMessagesCount, written,
                   connected, toBroker, brokerVars>>

\* The connection is lost, and with it what was on the way and not committed; all
\* requests get an error.  So does the channel's own callback, which refers to a
\* SyncObj of Handler::start.
LoseConnection ==
    /\ connected
    /\ connected' = FALSE
    /\ toBroker' = <<>>
    /\ answers' = 0
    /\ pending' = <<>>
    /\ deferreds' = <<>>
    /\ answer' = IF pc = "wait" /\ answer = "none"
                    /\ \E i \in DOMAIN deferreds : deferreds[i].heard /\ ~IsOver(deferreds[i].call)
                 THEN "FAILED"
                 ELSE answer
    /\ fate' \in {"strayed", "crashed"}
    /\ UNCHANGED <<transaction, pc, request, calls, transactionMessagesCount, written,
                   selected, delivered>>

-----------------------------------------------------------------------------
(* The broker                                                              *)

\* A published message is not answered.
IsAnswered(frame) == frame.op # "publish"

Receive ==
    /\ toBroker # <<>>
    /\ toBroker' = Tail(toBroker)
    /\ LET frame == Head(toBroker)
       IN  /\ answers' = answers + (IF IsAnswered(frame) THEN 1 ELSE 0)
           /\ \/ /\ frame.op = "select"
                 /\ selected' = TRUE
                 /\ UNCHANGED <<pending, delivered>>
              \/ /\ frame.op = "publish"
                 /\ IF selected
                      THEN pending' = Append(pending, frame) /\ UNCHANGED delivered
                      ELSE delivered' = Append(delivered, <<frame>>) /\ UNCHANGED pending
                 /\ UNCHANGED selected
              \/ /\ frame.op = "commit"
                 /\ delivered' = Append(delivered, pending)
                 /\ pending' = <<>>
                 /\ UNCHANGED selected
              \/ /\ frame.op = "rollback"
                 /\ pending' = <<>>
                 /\ UNCHANGED <<selected, delivered>>
    /\ UNCHANGED <<threadVars, connected, deferreds, fate>>

Surroundings == Answer \/ LoseConnection \/ Receive

=============================================================================
