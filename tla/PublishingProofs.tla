-------------------------- MODULE PublishingProofs --------------------------
(***************************************************************************)
(* What both programs publish is delivered transaction by transaction, for *)
(* any number of transactions, leaderboards, users and deals, and whatever *)
(* is lost, late or answered by mistake.                                   *)
(***************************************************************************)
EXTENDS Publishing, SequenceTheorems, FunctionTheorems, FiniteSetTheorems, TLAPS

-----------------------------------------------------------------------------
(* The inductive invariant                                                 *)

Commands == {"user_registered", "user_deal", "user_deal_won", "user_connected",
             "user_disconnected", "commit"}
Positions == [user : Nat, command : Commands, deal : Nat]
Messages == [op : {"publish"}, transaction : Nat, content : Nat \cup Positions]
Requests == [op : {"select", "commit", "rollback"}, transaction : Nat]
Frames == Messages \cup Requests

\* The parts of a type invariant the argument needs.
ShapeInv ==
    /\ transaction \in Nat
    /\ pc \in {"idle", "attach", "wait", "publish", "end"}
    /\ transactionMessagesCount \in Nat
    /\ connected \in BOOLEAN
    /\ selected \in BOOLEAN
    /\ toBroker \in Seq(Frames)
    /\ pending \in Seq(Messages)
    /\ written \in Seq(Seq(Messages))
    /\ delivered \in Seq(Seq(Messages))
    /\ next \in Positions

\* The frames of the open transaction, then those on the way
Stream == pending \o toBroker

\* The messages of a transaction can still become more.
IsOpen == pc = "publish" \/ (pc \in {"attach", "wait"} /\ request = "select")

\* Before position k the messages of transaction t are complete, in order and alone.
Closes(k, t) ==
    LET first == k - Len(written[t])
    IN  /\ first > 0
        /\ \A m \in 1..Len(written[t]) : Stream[first + m - 1] = written[t][m]
        /\ first > 1 => Stream[first - 1].op # "publish"

IsCommit(k) == Stream[k].op = "commit"

WrittenInv ==
    /\ Len(written) = transaction
    /\ transaction = 0 => pc = "idle"
    /\ \A t \in 1..transaction : \A m \in 1..Len(written[t]) : written[t][m].transaction = t
    /\ program = "loopFunc" /\ IsOpen => transactionMessagesCount = Len(written[transaction])

\* Only the broker's answer is waited for: what was sent first arrives first.
BrokerInv ==
    /\ ~connected => Stream = <<>>
    /\ ~selected => pending = <<>> /\ delivered = <<>>
    /\ ~selected /\ connected =>
         IF toBroker = <<>> THEN transaction = 0 ELSE Head(toBroker).op = "select"

\* A commit frame comes after the messages of its transaction and closes it.
CommitInv ==
    /\ \A k \in 1..Len(Stream) : IsCommit(k) =>
         LET t == Stream[k].transaction
         IN  /\ t \in 1..transaction
             /\ IsOpen => t # transaction
             /\ Closes(k, t)
             /\ program = "loopFunc" => Len(written[t]) = Leaderboards
    /\ \A j, k \in 1..Len(Stream) : IsCommit(j) /\ IsCommit(k) /\ j < k =>
         Stream[j].transaction < Stream[k].transaction

\* A transaction is begun after the one before it was ended.
OpenInv ==
    /\ connected /\ IsOpen => Closes(Len(Stream) + 1, transaction)
    /\ \A k \in 1..Len(Stream) : Stream[k].op = "publish" =>
         \/ k = Len(Stream) /\ pc = "publish"
         \/ k < Len(Stream) /\ Stream[k + 1].op # "select"

\* What was delivered is a transaction that is closed,
WholeInv ==
    \A i \in 1..Len(delivered) :
        /\ \E t \in 1..transaction : delivered[i] = written[t] /\ (IsOpen => t # transaction)
        /\ program = "loopFunc" => Len(delivered[i]) = Leaderboards

\* of before those on the way,
BeforeInv ==
    \A i \in 1..Len(delivered) : \A m \in 1..Len(delivered[i]), k \in 1..Len(Stream) :
        IsCommit(k) => delivered[i][m].transaction < Stream[k].transaction

\* and of before those delivered later.
InOrderInv ==
    \A i, j \in 1..Len(delivered) : i < j =>
        \A m \in 1..Len(delivered[i]), n \in 1..Len(delivered[j]) :
            delivered[i][m].transaction < delivered[j][n].transaction

DeliveredInv == WholeInv /\ BeforeInv /\ InOrderInv

IInv ==
    ShapeInv /\ WrittenInv /\ BrokerInv /\ CommitInv /\ OpenInv /\ DeliveredInv

-----------------------------------------------------------------------------
(* Facts about the stream of frames                                        *)

\* The stream position by position.
LEMMA StreamElements ==
    ASSUME ShapeInv
    PROVE  /\ Stream \in Seq(Frames)
           /\ Len(Stream) = Len(pending) + Len(toBroker)
           /\ Len(pending) \in Nat /\ Len(toBroker) \in Nat
           /\ \A k \in 1..Len(pending) : Stream[k] = pending[k]
           /\ \A k \in 1..Len(toBroker) : Stream[Len(pending) + k] = toBroker[k]
<1>1. pending \in Seq(Frames) /\ toBroker \in Seq(Frames)
  BY DEF ShapeInv, Frames
<1> QED
  BY <1>1, ConcatProperties DEF Stream

\* What is sent comes last.
LEMMA StreamGrows ==
    ASSUME ShapeInv, NEW f \in Frames, UNCHANGED pending, toBroker' = Append(toBroker, f)
    PROVE  /\ Len(Stream') = Len(Stream) + 1
           /\ \A k \in 1..Len(Stream) : Stream'[k] = Stream[k]
           /\ Stream'[Len(Stream) + 1] = f
           /\ toBroker' \in Seq(Frames)
<1>1. pending \in Seq(Frames) /\ toBroker \in Seq(Frames) /\ toBroker' \in Seq(Frames)
  BY DEF ShapeInv, Frames
<1>2. /\ Len(toBroker') = Len(toBroker) + 1
      /\ \A k \in 1..Len(toBroker) : toBroker'[k] = toBroker[k]
      /\ toBroker'[Len(toBroker) + 1] = f
  BY <1>1
<1>3. /\ Len(Stream') = Len(pending) + Len(toBroker')
      /\ \A k \in 1..Len(pending) + Len(toBroker') :
            Stream'[k] = IF k <= Len(pending) THEN pending[k] ELSE toBroker'[k - Len(pending)]
  BY <1>1, ConcatProperties DEF Stream
<1>4. /\ Len(Stream) = Len(pending) + Len(toBroker)
      /\ \A k \in 1..Len(pending) + Len(toBroker) :
            Stream[k] = IF k <= Len(pending) THEN pending[k] ELSE toBroker[k - Len(pending)]
  BY <1>1, ConcatProperties DEF Stream
<1>5. Len(pending) \in Nat /\ Len(toBroker) \in Nat
  BY <1>1
<1>6. Len(Stream') = Len(Stream) + 1 /\ Stream'[Len(Stream) + 1] = f
  BY <1>2, <1>3, <1>4, <1>5, SMTT(60)
<1>7. ASSUME NEW k \in 1..Len(Stream) PROVE Stream'[k] = Stream[k]
  <2>1. CASE k <= Len(pending)
    BY <2>1, <1>2, <1>3, <1>4, <1>5
  <2>2. CASE k > Len(pending)
    <3>1. k - Len(pending) \in 1..Len(toBroker)
      BY <2>2, <1>4, <1>5
    <3>2. Stream'[k] = toBroker'[k - Len(pending)]
      BY <2>2, <1>2, <1>3, <1>4, <1>5, SMTT(60)
    <3>3. Stream[k] = toBroker[k - Len(pending)]
      BY <2>2, <1>4, <1>5
    <3> QED
      BY <3>1, <3>2, <3>3, <1>2
  <2> QED
    BY <2>1, <2>2, <1>4, <1>5
<1> QED
  BY <1>1, <1>6, <1>7

\* What is sent does not change what the broker receives next.
LEMMA HeadStays ==
    ASSUME ShapeInv, toBroker # <<>>, NEW f \in Frames, toBroker' = Append(toBroker, f)
    PROVE  toBroker' # <<>> /\ Head(toBroker') = Head(toBroker)
<1>1. toBroker \in Seq(Frames)
  BY DEF ShapeInv
<1>2. Head(Append(toBroker, f)) = Head(toBroker)
  BY <1>1, HeadTailAppend
<1>3. Append(toBroker, f) # <<>>
  BY <1>1, AppendProperties
<1> QED
  BY <1>2, <1>3

\* The broker takes up a message of the transaction: nothing overtakes it.
LEMMA StreamStays ==
    ASSUME ShapeInv, toBroker # <<>>, Head(toBroker) \in Messages,
           pending' = Append(pending, Head(toBroker)), toBroker' = Tail(toBroker)
    PROVE  /\ Stream' = Stream
           /\ pending' \in Seq(Messages) /\ toBroker' \in Seq(Frames)
<1>1. pending \in Seq(Frames) /\ toBroker \in Seq(Frames)
  BY DEF ShapeInv, Frames
<1>2. pending' \in Seq(Messages)
  BY DEF ShapeInv
<1>3. pending' \in Seq(Frames) /\ toBroker' \in Seq(Frames)
  BY <1>1, <1>2 DEF Frames
<1>4. /\ Len(pending') = Len(pending) + 1
      /\ \A k \in 1..Len(pending) : pending'[k] = pending[k]
      /\ pending'[Len(pending) + 1] = toBroker[1]
  BY <1>1
<1>5. /\ Len(toBroker) \in Nat \ {0}
      /\ Len(toBroker') = Len(toBroker) - 1
      /\ \A k \in 1..Len(toBroker') : toBroker'[k] = toBroker[k + 1]
  BY <1>1
<1>6. /\ Stream' \in Seq(Frames)
      /\ Len(Stream') = Len(pending') + Len(toBroker')
      /\ \A k \in 1..Len(pending') + Len(toBroker') :
            Stream'[k] = IF k <= Len(pending') THEN pending'[k] ELSE toBroker'[k - Len(pending')]
  BY <1>3, ConcatProperties DEF Stream
<1>7. /\ Stream \in Seq(Frames)
      /\ Len(Stream) = Len(pending) + Len(toBroker)
      /\ \A k \in 1..Len(pending) + Len(toBroker) :
            Stream[k] = IF k <= Len(pending) THEN pending[k] ELSE toBroker[k - Len(pending)]
  BY <1>1, ConcatProperties DEF Stream
<1>8. Len(pending) \in Nat
  BY <1>1
<1>9. Len(Stream') = Len(Stream)
  BY <1>4, <1>5, <1>6, <1>7, <1>8
<1>10. ASSUME NEW k \in 1..Len(Stream) PROVE Stream'[k] = Stream[k]
  <2>1. CASE k <= Len(pending)
    <3>1. k \in 1..Len(pending) /\ k <= Len(pending')
      BY <2>1, <1>4, <1>8
    <3>2. Stream[k] = pending[k]
      BY <2>1, <1>7
    <3>3. k \in 1..Len(pending') + Len(toBroker')
      BY <3>1, <1>4, <1>5, <1>8
    <3>4. Stream'[k] = pending'[k]
      BY <3>1, <3>3, <1>6
    <3> QED
      BY <3>1, <3>2, <3>4, <1>4
  <2>2. CASE k = Len(pending) + 1
    BY <2>2, <1>4, <1>5, <1>6, <1>7, <1>8, SMTT(60)
  <2>3. CASE k > Len(pending) + 1
    <3>1. k - Len(pending') \in 1..Len(toBroker')
      BY <2>3, <1>4, <1>5, <1>7, <1>8
    <3> QED
      BY <3>1, <2>3, <1>4, <1>5, <1>6, <1>7, <1>8
  <2> QED
    BY <2>1, <2>2, <2>3, <1>7, <1>8
<1> QED
  BY <1>2, <1>3, <1>6, <1>7, <1>9, <1>10, SeqEqual

\* The broker ends a transaction, or begins one with nothing open: the stream loses its
\* frames up to that one.
LEMMA StreamIsCut ==
    ASSUME ShapeInv, toBroker # <<>>, pending' = <<>>, toBroker' = Tail(toBroker)
    PROVE  LET cut == Len(pending) + 1
           IN  /\ Stream[cut] = Head(toBroker) /\ cut \in 1..Len(Stream)
               /\ Len(Stream') = Len(Stream) - cut
               /\ \A k \in 1..Len(Stream') : Stream'[k] = Stream[k + cut]
               /\ toBroker' \in Seq(Frames)
<1> DEFINE cut == Len(pending) + 1
<1>1. pending \in Seq(Frames) /\ toBroker \in Seq(Frames) /\ toBroker' \in Seq(Frames)
  BY DEF ShapeInv, Frames
<1>2. Stream' = toBroker'
  BY <1>1, ConcatEmptySeq DEF Stream
<1>3. /\ Len(toBroker) \in Nat \ {0}
      /\ Len(toBroker') = Len(toBroker) - 1
      /\ \A k \in 1..Len(toBroker') : toBroker'[k] = toBroker[k + 1]
      /\ Head(toBroker) = toBroker[1]
  BY <1>1
<1>4. /\ Len(pending) \in Nat
      /\ Len(Stream) = Len(pending) + Len(toBroker)
      /\ \A k \in 1..Len(toBroker) : Stream[Len(pending) + k] = toBroker[k]
  BY StreamElements
<1>5. cut \in 1..Len(Stream) /\ Stream[cut] = Head(toBroker)
  BY <1>3, <1>4
<1>6. Len(Stream') = Len(Stream) - cut
  BY <1>2, <1>3, <1>4
<1>7. ASSUME NEW k \in 1..Len(Stream') PROVE Stream'[k] = Stream[k + cut]
  <2>1. k + 1 \in 1..Len(toBroker)
    BY <1>2, <1>3
  <2>2. k + cut = Len(pending) + (k + 1)
    BY <1>3, <1>4, <1>2
  <2> QED
    BY <2>1, <2>2, <1>2, <1>3, <1>4
<1> QED
  BY <1>1, <1>5, <1>6, <1>7

-----------------------------------------------------------------------------
(* Initial states                                                          *)

\* At the start nothing is written, sent or delivered.
LEMMA InitIInv == Init => IInv
<1> SUFFICES ASSUME Init PROVE IInv
  OBVIOUS
<1> USE DEF Init, PublisherInit, LoopInit, WriteInit, User
<1>1. ShapeInv
  <2>1. next \in Positions
    BY DEF Positions, Commands
  <2>2. <<>> \in Seq(Frames) /\ <<>> \in Seq(Messages) /\ <<>> \in Seq(Seq(Messages))
    BY EmptySeq
  <2> QED
    BY <2>1, <2>2 DEF ShapeInv
<1>2. Stream = <<>>
  BY ConcatEmptySeq DEF Stream
<1>3. WrittenInv /\ BrokerInv
  BY <1>2 DEF WrittenInv, BrokerInv, IsOpen
<1>4. CommitInv /\ OpenInv /\ DeliveredInv
  BY <1>2 DEF CommitInv, OpenInv, DeliveredInv, WholeInv, BeforeInv, InOrderInv, IsOpen
<1> QED
  BY <1>1, <1>3, <1>4 DEF IInv

-----------------------------------------------------------------------------
(* The publishing thread                                                   *)

\* What is said of the stream stays true while it, and what was written and delivered, does.
LEMMA StreamSame ==
    ASSUME CommitInv, OpenInv, DeliveredInv,
           Stream' = Stream, UNCHANGED <<transaction, written, connected, delivered, program>>,
           IsOpen' => IsOpen, pc = "publish" => pc' = "publish"
    PROVE  CommitInv' /\ OpenInv' /\ DeliveredInv'
<1>1. \A k : IsCommit(k)' <=> IsCommit(k)
  BY DEF IsCommit
<1>2. \A k, t : Closes(k, t)' <=> Closes(k, t)
  BY DEF Closes
<1>3. CommitInv'
  BY <1>1, <1>2 DEF CommitInv
<1>4. OpenInv'
  BY <1>2 DEF OpenInv
<1>5. WholeInv' /\ BeforeInv' /\ InOrderInv'
  <2>1. WholeInv'
    BY DEF DeliveredInv, WholeInv
  <2>2. BeforeInv'
    BY <1>1 DEF DeliveredInv, BeforeInv
  <2>3. InOrderInv'
    BY DEF DeliveredInv, InOrderInv
  <2> QED
    BY <2>1, <2>2, <2>3
<1> QED
  BY <1>3, <1>4, <1>5 DEF DeliveredInv

\* A step that sends nothing
LEMMA QuietStep ==
    ASSUME IInv, ShapeInv',
           UNCHANGED <<transaction, written, connected, toBroker, brokerVars, program>>,
           IsOpen' => IsOpen,
           pc = "publish" => pc' = "publish",
           transaction = 0 => pc' = "idle",
           program = "loopFunc" /\ IsOpen' => UNCHANGED transactionMessagesCount
    PROVE  IInv'
<1>1. Stream' = Stream /\ UNCHANGED <<selected, pending, delivered>>
  BY DEF Stream, brokerVars
<1>2. WrittenInv' /\ BrokerInv'
  BY <1>1 DEF IInv, WrittenInv, BrokerInv
<1>3. CommitInv' /\ OpenInv' /\ DeliveredInv'
  BY <1>1, StreamSame DEF IInv
<1> QED
  BY <1>2, <1>3 DEF IInv

\* A closed piece of the stream stays closed when more is sent.
LEMMA ClosesStays ==
    ASSUME ShapeInv, ShapeInv', NEW t \in 1..Len(written), NEW k \in 1..(Len(Stream) + 1),
           Closes(k, t), written'[t] = written[t],
           \A j \in 1..Len(Stream) : Stream'[j] = Stream[j]
    PROVE  Closes(k, t)'
<1>1. Len(Stream) \in Nat
  BY StreamElements
<1>2. Len(written[t]) \in Nat
  BY SMTT(60) DEF ShapeInv
<1> DEFINE first == k - Len(written[t])
<1>3. /\ first > 0
      /\ \A m \in 1..Len(written[t]) : Stream[first + m - 1] = written[t][m]
      /\ first > 1 => Stream[first - 1].op # "publish"
  BY DEF Closes
<1>4. ASSUME NEW m \in 1..Len(written[t]) PROVE Stream'[first + m - 1] = written[t][m]
  <2>1. first + m - 1 \in 1..Len(Stream)
    BY <1>1, <1>2, <1>3
  <2> QED
    BY <1>3, <2>1
<1>5. first > 1 => Stream'[first - 1].op # "publish"
  <2>1. first > 1 => first - 1 \in 1..Len(Stream)
    BY <1>1, <1>2, <1>3
  <2> QED
    BY <1>3, <2>1
<1> QED
  BY <1>3, <1>4, <1>5 DEF Closes

\* The request for the end of a transaction
LEMMA EndStep ==
    ASSUME IInv, ShapeInv', NEW op \in {"commit", "rollback"}, Request(op),
           UNCHANGED <<transaction, written, program>>,
           transaction > 0,
           op = "commit" => pc = "publish",
           op = "commit" /\ program = "loopFunc" => Len(written[transaction]) = Leaderboards
    PROVE  IInv'
<1> USE DEF IInv
<1> DEFINE frame == [op |-> op, transaction |-> transaction]
<1>1. ~IsOpen' /\ pc' \in {"attach", "wait"}
  BY DEF Request, IsOpen
<1>2. UNCHANGED <<connected, selected, pending, delivered>>
  BY DEF Request, brokerVars
<1>3. CASE ~connected
  <2>1. Stream' = Stream /\ UNCHANGED toBroker
    BY <1>2, <1>3 DEF Request, Stream
  <2>2. Stream = <<>>
    BY <1>3 DEF BrokerInv
  <2>3. WrittenInv' /\ BrokerInv'
    BY <1>1, <1>2, <2>1 DEF WrittenInv, BrokerInv
  <2>4. CommitInv' /\ OpenInv' /\ DeliveredInv'
    BY <1>1, <1>2, <2>1, <2>2 DEF CommitInv, OpenInv, DeliveredInv, WholeInv, BeforeInv, InOrderInv, IsCommit
  <2> QED
    BY <2>3, <2>4
<1>4. CASE connected
  <2>1. toBroker' = Append(toBroker, frame) /\ frame \in Frames
    BY <1>4 DEF Request, RequestFrame, ShapeInv, Frames, Requests
  <2>2. /\ Len(Stream') = Len(Stream) + 1
        /\ \A k \in 1..Len(Stream) : Stream'[k] = Stream[k]
        /\ Stream'[Len(Stream) + 1] = frame
    BY <1>2, <2>1, StreamGrows
  <2>3. Len(Stream) \in Nat /\ transaction \in Nat
    BY StreamElements DEF ShapeInv
  <2>4. WrittenInv'
    BY <1>1, <2>3 DEF WrittenInv
  <2>5. BrokerInv'
    <3>1. ~selected => toBroker # <<>>
      BY <1>4 DEF BrokerInv
    <3>2. toBroker # <<>> => Head(toBroker') = Head(toBroker) /\ toBroker' # <<>>
      BY <2>1, HeadStays
    <3> QED
      BY <1>2, <1>4, <3>1, <3>2 DEF BrokerInv
  <2>6. ASSUME NEW k \in 1..Len(Stream'), IsCommit(k)', NEW t, Stream'[k].transaction = t
        PROVE  /\ t \in 1..transaction
               /\ Closes(k, t)'
               /\ program = "loopFunc" => Len(written[t]) = Leaderboards
               /\ \A j \in 1..(k - 1) : IsCommit(j)' => Stream'[j].transaction < t
    <3>1. CASE k = Len(Stream) + 1
      <4>1. IsOpen /\ op = "commit" /\ t = transaction
        BY <2>2, <2>6, <3>1 DEF IsCommit, IsOpen
      <4>2. Closes(k, t)
        BY <1>4, <3>1, <4>1 DEF OpenInv
      <4>3. t \in 1..transaction /\ t \in 1..Len(written)
        BY <2>3, <4>1 DEF WrittenInv
      <4>4. Closes(k, t)'
        BY <2>2, <2>3, <3>1, <4>2, <4>3, ClosesStays
      <4>5. ASSUME NEW j \in 1..(k - 1), IsCommit(j)' PROVE Stream'[j].transaction < t
        <5>1. j \in 1..Len(Stream) /\ IsCommit(j)
          BY <2>2, <2>3, <3>1, <4>5 DEF IsCommit
        <5> QED
          BY <2>2, <2>3, <4>1, <5>1 DEF CommitInv
      <4> QED
        BY <4>1, <4>3, <4>4, <4>5
    <3>2. CASE k # Len(Stream) + 1
      <4>1. k \in 1..Len(Stream) /\ IsCommit(k) /\ Stream[k].transaction = t
        BY <2>2, <2>3, <2>6, <3>2 DEF IsCommit
      <4>2. t \in 1..transaction /\ Closes(k, t) /\ (program = "loopFunc" => Len(written[t]) = Leaderboards)
        BY <4>1 DEF CommitInv
      <4>3. Closes(k, t)'
        BY <2>2, <2>3, <4>1, <4>2, ClosesStays DEF WrittenInv
      <4>4. ASSUME NEW j \in 1..(k - 1), IsCommit(j)'
            PROVE  Stream'[j].transaction < t
        <5>1. j \in 1..Len(Stream) /\ IsCommit(j) /\ j < k
          BY <2>2, <2>3, <4>1, <4>4 DEF IsCommit
        <5> QED
          BY <2>2, <4>1, <5>1 DEF CommitInv
      <4> QED
        BY <4>2, <4>3, <4>4
    <3> QED
      BY <3>1, <3>2
  <2>7. CommitInv'
    <3>1. Len(Stream') \in Nat
      BY <2>2, <2>3
    <3> QED
      BY <1>1, <2>6, <3>1 DEF CommitInv
  <2>8. OpenInv'
    <3> SUFFICES ASSUME NEW k \in 1..Len(Stream'), Stream'[k].op = "publish"
                 PROVE  k < Len(Stream') /\ Stream'[k + 1].op # "select"
      BY <1>1 DEF OpenInv
    <3>1. k \in 1..Len(Stream) /\ Stream[k].op = "publish"
      BY <2>2, <2>3
    <3>2. CASE k = Len(Stream)
      BY <2>2, <2>3, <3>2
    <3>3. CASE k # Len(Stream)
      <4>1. k + 1 \in 1..Len(Stream) /\ Stream[k + 1].op # "select"
        BY <2>3, <3>1, <3>3 DEF OpenInv
      <4> QED
        BY <2>2, <2>3, <3>1, <4>1
    <3> QED
      BY <3>2, <3>3
  <2>9. DeliveredInv'
    <3>1. ASSUME NEW i \in 1..Len(delivered), NEW m \in 1..Len(delivered[i]),
                 NEW k \in 1..Len(Stream'), IsCommit(k)'
          PROVE  delivered[i][m].transaction < Stream'[k].transaction
      <4>1. CASE k = Len(Stream) + 1
        <5>1. IsOpen /\ Stream'[k].transaction = transaction
          BY <2>2, <3>1, <4>1 DEF IsCommit, IsOpen
        <5>2. PICK t \in 1..transaction : delivered[i] = written[t] /\ t # transaction
          BY <5>1 DEF DeliveredInv, WholeInv
        <5>3. delivered[i][m].transaction = t
          BY <5>2 DEF WrittenInv
        <5> QED
          BY <2>3, <5>1, <5>2, <5>3
      <4>2. CASE k # Len(Stream) + 1
        <5>1. k \in 1..Len(Stream) /\ IsCommit(k) /\ Stream'[k] = Stream[k]
          BY <2>2, <2>3, <3>1, <4>2 DEF IsCommit
        <5> QED
          BY <5>1 DEF DeliveredInv, BeforeInv
      <4> QED
        BY <4>1, <4>2
    <3> QED
      <4>1. WholeInv' /\ InOrderInv'
        BY <1>1, <1>2 DEF DeliveredInv, WholeInv, InOrderInv
      <4>2. BeforeInv'
        BY <1>2, <3>1 DEF BeforeInv
      <4> QED
        BY <4>1, <4>2 DEF DeliveredInv
  <2> QED
    BY <2>4, <2>5, <2>7, <2>8, <2>9
<1> QED
  BY <1>3, <1>4 DEF ShapeInv

\* A frame that is not a commit leaves alone what is closed.
LEMMA GrowStep ==
    ASSUME IInv, ShapeInv', NEW f \in Frames, f.op # "commit",
           toBroker' = Append(toBroker, f), UNCHANGED <<brokerVars, program>>,
           transaction <= transaction',
           IsOpen' => IsOpen \/ transaction < transaction',
           Len(written') = transaction',
           \A t \in 1..transaction : (IsOpen' => t # transaction') => written'[t] = written[t]
    PROVE  CommitInv' /\ DeliveredInv'
<1> USE DEF IInv
<1>1. UNCHANGED <<selected, pending, delivered>>
  BY DEF brokerVars
<1>2. /\ Len(Stream') = Len(Stream) + 1
      /\ \A k \in 1..Len(Stream) : Stream'[k] = Stream[k]
      /\ Stream'[Len(Stream) + 1] = f
  BY <1>1, StreamGrows
<1>3. Len(Stream) \in Nat /\ Len(Stream') \in Nat /\ transaction \in Nat /\ transaction' \in Nat
  BY <1>2, StreamElements DEF ShapeInv
<1>4. ASSUME NEW k \in 1..Len(Stream'), IsCommit(k)'
      PROVE  k \in 1..Len(Stream) /\ IsCommit(k) /\ Stream'[k] = Stream[k]
  BY <1>2, <1>3, <1>4 DEF IsCommit
<1>5. ASSUME NEW t \in 1..transaction, IsOpen => t # transaction
      PROVE  t \in 1..transaction' /\ (IsOpen' => t # transaction') /\ written'[t] = written[t]
  BY <1>3, <1>5
<1>6. CommitInv'
  <2>1. ASSUME NEW k \in 1..Len(Stream'), IsCommit(k)', NEW t, Stream'[k].transaction = t
        PROVE  /\ t \in 1..transaction'
               /\ IsOpen' => t # transaction'
               /\ Closes(k, t)'
               /\ program = "loopFunc" => Len(written'[t]) = Leaderboards
    <3>1. k \in 1..Len(Stream) /\ IsCommit(k) /\ Stream[k].transaction = t
      BY <1>4, <2>1
    <3>2. /\ t \in 1..transaction /\ (IsOpen => t # transaction) /\ Closes(k, t)
          /\ program = "loopFunc" => Len(written[t]) = Leaderboards
      BY <3>1 DEF CommitInv
    <3>3. Closes(k, t)'
      BY <1>2, <1>3, <1>5, <3>1, <3>2, ClosesStays DEF WrittenInv
    <3> QED
      BY <1>5, <3>2, <3>3
  <2>2. ASSUME NEW j \in 1..Len(Stream'), NEW k \in 1..Len(Stream'),
               IsCommit(j)', IsCommit(k)', j < k
        PROVE  Stream'[j].transaction < Stream'[k].transaction
    BY <1>4, <2>2 DEF CommitInv
  <2> QED
    BY <2>1, <2>2 DEF CommitInv
<1>7. DeliveredInv'
  <2>1. ASSUME NEW i \in 1..Len(delivered)
        PROVE  \E t \in 1..transaction' : delivered[i] = written'[t] /\ (IsOpen' => t # transaction')
    <3>1. PICK t \in 1..transaction : delivered[i] = written[t] /\ (IsOpen => t # transaction)
      BY DEF DeliveredInv, WholeInv
    <3> QED
      BY <1>5, <3>1
  <2>2. ASSUME NEW i \in 1..Len(delivered), NEW m \in 1..Len(delivered[i]),
               NEW k \in 1..Len(Stream'), IsCommit(k)'
        PROVE  delivered[i][m].transaction < Stream'[k].transaction
    BY <1>4, <2>2 DEF DeliveredInv, BeforeInv
  <2> QED
    <3>1. WholeInv'
      BY <1>1, <2>1 DEF DeliveredInv, WholeInv
    <3>2. BeforeInv'
      BY <1>1, <2>2 DEF BeforeInv
    <3>3. InOrderInv'
      BY <1>1 DEF DeliveredInv, InOrderInv
    <3> QED
      BY <3>1, <3>2, <3>3 DEF DeliveredInv
<1> QED
  BY <1>6, <1>7

\* StartTransaction: the transaction before was ended, so the new one is closed and empty.
LEMMA BeginStep ==
    ASSUME IInv, ShapeInv', StartTransaction, UNCHANGED program
    PROVE  IInv'
<1> USE DEF IInv
<1> DEFINE frame == [op |-> "select", transaction |-> transaction + 1]
<1>1. /\ pc = "idle" /\ transaction' = transaction + 1 /\ written' = Append(written, <<>>)
      /\ transactionMessagesCount' = 0
      /\ UNCHANGED <<connected, brokerVars, selected, pending, delivered, program>>
  BY DEF StartTransaction, Request, brokerVars
<1>2. transaction \in Nat /\ Len(Stream) \in Nat
  BY StreamElements DEF ShapeInv
<1>3. /\ Len(written') = transaction' /\ written'[transaction'] = <<>>
      /\ \A t \in 1..transaction : written'[t] = written[t]
  BY <1>1, <1>2, AppendProperties DEF WrittenInv, ShapeInv
<1>4. IsOpen' /\ pc' \in {"attach", "wait"} /\ ~IsOpen
  BY <1>1 DEF StartTransaction, Request, IsOpen
<1>5. WrittenInv'
  <2>1. ASSUME NEW t \in 1..transaction', NEW m \in 1..Len(written'[t])
        PROVE  written'[t][m].transaction = t
    BY <1>1, <1>2, <1>3 DEF WrittenInv
  <2> QED
    BY <1>1, <1>2, <1>3, <1>4, <2>1 DEF WrittenInv
<1>6. CASE ~connected
  <2>1. Stream' = Stream /\ UNCHANGED toBroker
    BY <1>1, <1>6 DEF StartTransaction, Request, Stream
  <2>2. Stream = <<>>
    BY <1>6 DEF BrokerInv
  <2>3. BrokerInv' /\ CommitInv' /\ OpenInv'
    BY <1>1, <1>6, <2>1, <2>2 DEF BrokerInv, CommitInv, OpenInv
  <2>4. ASSUME NEW i \in 1..Len(delivered)
        PROVE  \E t \in 1..transaction' : delivered[i] = written'[t] /\ t # transaction'
    <3>1. PICK t \in 1..transaction : delivered[i] = written[t]
      BY DEF DeliveredInv, WholeInv
    <3> QED
      BY <1>1, <1>2, <1>3, <3>1
  <2>5. DeliveredInv'
    <3>1. 1..Len(Stream') = {}
      BY <2>1, <2>2
    <3>2. WholeInv'
      BY <1>1, <2>4 DEF DeliveredInv, WholeInv
    <3>3. BeforeInv'
      BY <3>1 DEF BeforeInv
    <3>4. InOrderInv'
      BY <1>1 DEF DeliveredInv, InOrderInv
    <3> QED
      BY <3>2, <3>3, <3>4 DEF DeliveredInv
  <2> QED
    BY <1>5, <2>3, <2>5
<1>7. CASE connected
  <2>1. toBroker' = Append(toBroker, frame) /\ frame \in Frames
    BY <1>1, <1>2, <1>7 DEF StartTransaction, Request, RequestFrame, Frames, Requests
  <2>2. /\ Len(Stream') = Len(Stream) + 1
        /\ \A k \in 1..Len(Stream) : Stream'[k] = Stream[k]
        /\ Stream'[Len(Stream) + 1] = frame
    BY <1>1, <2>1, StreamGrows
  <2>3. CommitInv' /\ DeliveredInv'
    BY <1>1, <1>2, <1>3, <2>1, GrowStep
  <2>4. BrokerInv'
    <3>1. CASE toBroker = <<>>
      <4>1. toBroker' # <<>> /\ Head(toBroker') = frame
        BY <2>1, <3>1
      <4> QED
        BY <1>1, <1>7, <4>1 DEF BrokerInv
    <3>2. CASE toBroker # <<>>
      BY <1>1, <1>7, <2>1, <3>2, HeadStays DEF BrokerInv
    <3> QED
      BY <3>1, <3>2
  <2>5. OpenInv'
    <3>1. Closes(Len(Stream) + 1, transaction)'
      <4>1. Len(written'[transaction']) = 0
        BY <1>3
      <4>2. Stream'[Len(Stream')].op # "publish" /\ Len(Stream') \in Nat \ {0}
        BY <1>2, <2>2
      <4> QED
        BY <4>1, <4>2 DEF Closes
    <3>2. ASSUME NEW k \in 1..Len(Stream'), Stream'[k].op = "publish"
          PROVE  k < Len(Stream') /\ Stream'[k + 1].op # "select"
      <4>1. k \in 1..Len(Stream) /\ Stream[k].op = "publish"
        BY <1>2, <2>2, <3>2
      <4>2. k + 1 \in 1..Len(Stream) /\ Stream[k + 1].op # "select"
        BY <1>1, <1>2, <4>1 DEF OpenInv
      <4> QED
        BY <1>2, <2>2, <4>1, <4>2
    <3> QED
      BY <3>1, <3>2 DEF OpenInv
  <2> QED
    BY <1>5, <2>3, <2>4, <2>5
<1> QED
  BY <1>6, <1>7 DEF ShapeInv

\* A message that is published is added to its transaction and to the stream alike.
LEMMA PublishStep ==
    ASSUME IInv, ShapeInv', NEW content \in Nat \cup Positions, Publish(content), UNCHANGED program
    PROVE  IInv'
<1> USE DEF IInv
<1> DEFINE frame == MessageFrame(content)
           len == Len(written[transaction])
<1>1. /\ pc = "publish" /\ connected /\ IsOpen /\ IsOpen'
      /\ toBroker' = Append(toBroker, frame)
      /\ written' = [written EXCEPT ![transaction] = Append(@, frame)]
      /\ transactionMessagesCount' = transactionMessagesCount + 1
      /\ UNCHANGED <<transaction, pc, request, connected, brokerVars, selected, pending, delivered>>
  BY DEF Publish, IsOpen, brokerVars
<1>2. transaction \in 1..Len(written) /\ Len(Stream) \in Nat /\ transactionMessagesCount \in Nat
  BY <1>1, StreamElements DEF ShapeInv, WrittenInv
<1>3. frame \in Messages /\ frame \in Frames /\ frame.op = "publish" /\ frame.transaction = transaction
  BY <1>2 DEF MessageFrame, Messages, Frames, ShapeInv
<1>4. written[transaction] \in Seq(Messages)
  BY <1>2 DEF ShapeInv
<1>5. /\ Len(written') = transaction
      /\ written'[transaction] = Append(written[transaction], frame)
      /\ \A t \in 1..transaction : t # transaction => written'[t] = written[t]
  BY <1>1, <1>2 DEF ShapeInv, WrittenInv
<1>6. /\ len \in Nat /\ Len(written'[transaction]) = len + 1
      /\ \A m \in 1..len : written'[transaction][m] = written[transaction][m]
      /\ written'[transaction][len + 1] = frame
  BY <1>3, <1>4, <1>5, AppendProperties
<1>7. WrittenInv'
  <2>1. ASSUME NEW t \in 1..transaction, NEW m \in 1..Len(written'[t])
        PROVE  written'[t][m].transaction = t
    BY <1>3, <1>5, <1>6, SMTT(60) DEF WrittenInv
  <2> QED
    BY <1>1, <1>2, <1>5, <1>6, <2>1 DEF WrittenInv
<1>8. BrokerInv'
  BY <1>1, <1>2, <1>3, HeadStays DEF BrokerInv, WrittenInv
<1>9. CommitInv' /\ DeliveredInv'
  BY <1>1, <1>2, <1>3, <1>5, GrowStep DEF ShapeInv
<1>10. /\ Len(Stream') = Len(Stream) + 1
       /\ \A k \in 1..Len(Stream) : Stream'[k] = Stream[k]
       /\ Stream'[Len(Stream) + 1] = frame
  BY <1>1, <1>3, StreamGrows
<1>11. OpenInv'
  <2> DEFINE first == (Len(Stream) + 1) - len
  <2>1. /\ first > 0
        /\ \A m \in 1..len : Stream[first + m - 1] = written[transaction][m]
        /\ first > 1 => Stream[first - 1].op # "publish"
    BY <1>1 DEF OpenInv, Closes
  <2>2. first = (Len(Stream') + 1) - Len(written'[transaction]) /\ first \in Nat
    <3> HIDE DEF len
    <3>1. Len(Stream) \in Int /\ len \in Int
      BY <1>2, <1>6
    <3>2. Len(Stream') + 1 = (Len(Stream) + 1) + 1 /\ Len(written'[transaction]) = len + 1
      BY <1>2, <1>6, <1>10
    <3>3. first = (Len(Stream') + 1) - Len(written'[transaction])
      BY <3>1, <3>2
    <3>4. first \in Int
      BY <3>1
    <3> QED
      <4>1. first > 0
        BY <2>1
      <4>2. first \in Nat
        <5> HIDE DEF first
        <5> QED
          BY <3>4, <4>1
      <4> QED
        BY <3>3, <4>2
  <2> HIDE DEF first, len
  <2>3. ASSUME NEW m \in 1..(len + 1) PROVE Stream'[first + m - 1] = written'[transaction][m]
    <3>1. CASE m = len + 1
      <4>1. first + m - 1 = Len(Stream) + 1
        BY <1>2, <1>6, <3>1 DEF first
      <4> QED
        BY <1>6, <1>10, <3>1, <4>1
    <3>2. CASE m # len + 1
      <4>1. m \in 1..len /\ first + m - 1 \in 1..Len(Stream)
        BY <1>2, <1>6, <2>1, <2>2, <3>2 DEF first
      <4> QED
        BY <1>6, <1>10, <2>1, <4>1
    <3> QED
      BY <3>1, <3>2
  <2>4. first > 1 => Stream'[first - 1].op # "publish"
    <3>1. first > 1 => first - 1 \in 1..Len(Stream)
      BY <1>2, <1>6, <2>2 DEF first
    <3> QED
      BY <1>10, <2>1, <3>1
  <2>5. Closes(Len(Stream) + 1, transaction)'
    BY <1>1, <1>6, <2>1, <2>2, <2>3, <2>4 DEF Closes
  <2>6. ASSUME NEW k \in 1..Len(Stream'), Stream'[k].op = "publish", k # Len(Stream')
        PROVE  k < Len(Stream') /\ Stream'[k + 1].op # "select"
    <3>1. k \in 1..Len(Stream) /\ Stream[k].op = "publish"
      BY <1>2, <1>10, <2>6
    <3>2. CASE k = Len(Stream)
      BY <1>2, <1>3, <1>10, <3>2
    <3>3. CASE k # Len(Stream)
      <4>1. k + 1 \in 1..Len(Stream) /\ Stream[k + 1].op # "select"
        BY <1>2, <3>1, <3>3 DEF OpenInv
      <4> QED
        BY <1>2, <1>10, <3>1, <4>1
    <3> QED
      BY <3>2, <3>3
  <2> QED
    BY <1>1, <2>5, <2>6 DEF OpenInv
<1> QED
  BY <1>7, <1>8, <1>9, <1>11

-----------------------------------------------------------------------------
(* The network and the broker                                              *)

\* With the connection the whole stream is lost.
LEMMA LoseConnectionStep ==
    ASSUME IInv, ShapeInv', LoseConnection, UNCHANGED program
    PROVE  IInv'
<1> USE DEF IInv
<1>1. /\ UNCHANGED <<transaction, pc, request, transactionMessagesCount, written, selected, delivered>>
      /\ ~connected'
  BY DEF LoseConnection
<1>2. Stream' = <<>> /\ pending' = <<>>
  BY ConcatEmptySeq DEF LoseConnection, Stream
<1>3. 1..Len(Stream') = {}
  BY <1>2
<1>4. IsOpen' = IsOpen
  BY <1>1 DEF IsOpen
<1>5. WrittenInv' /\ BrokerInv'
  BY <1>1, <1>2, <1>4 DEF WrittenInv, BrokerInv
<1>6. CommitInv' /\ OpenInv'
  BY <1>1, <1>3 DEF CommitInv, OpenInv
<1>7. DeliveredInv'
  <2>1. WholeInv'
    BY <1>1, <1>4 DEF DeliveredInv, WholeInv
  <2>2. BeforeInv'
    BY <1>3 DEF BeforeInv
  <2>3. InOrderInv'
    BY <1>1 DEF DeliveredInv, InOrderInv
  <2> QED
    BY <2>1, <2>2, <2>3 DEF DeliveredInv
<1> QED
  BY <1>5, <1>6, <1>7

\* What is closed behind the frame that the broker receives stays closed.
LEMMA ClosesShifts ==
    ASSUME ShapeInv, toBroker # <<>>, Head(toBroker).op # "publish",
           pending' = <<>>, toBroker' = Tail(toBroker), written' = written,
           NEW t \in 1..Len(written), NEW k \in 1..(Len(Stream') + 1),
           Closes(k + Len(pending) + 1, t)
    PROVE  Closes(k, t)'
<1> DEFINE cut == Len(pending) + 1
           len == Len(written[t])
           first == (k + Len(pending) + 1) - len
<1>1. /\ Stream[cut] = Head(toBroker) /\ cut \in 1..Len(Stream)
      /\ Len(Stream') = Len(Stream) - cut
      /\ \A j \in 1..Len(Stream') : Stream'[j] = Stream[j + cut]
  BY StreamIsCut
<1>2. Len(Stream) \in Nat /\ Len(pending) \in Nat /\ Len(Stream') \in Nat /\ k \in Nat \ {0}
  BY <1>1, StreamElements
<1>3. len \in Nat /\ \A m \in 1..len : written[t][m].op = "publish"
  <2>1. written[t] \in Seq(Messages)
    BY DEF ShapeInv
  <2>2. \A m \in 1..len : written[t][m] \in Messages
    BY <2>1
  <2> QED
    BY <2>1, <2>2 DEF Messages
<1>4. /\ first > 0
      /\ \A m \in 1..len : Stream[first + m - 1] = written[t][m]
      /\ first > 1 => Stream[first - 1].op # "publish"
  BY DEF Closes
<1> HIDE DEF len
<1>5. first > cut
  <2> SUFFICES ASSUME first <= cut PROVE FALSE
    BY <1>2, <1>3
  <2>1. cut - first + 1 \in 1..len
    BY <1>2, <1>3
  <2>2. Stream[first + (cut - first + 1) - 1] = written[t][cut - first + 1]
    BY <1>4, <2>1
  <2>3. first + (cut - first + 1) - 1 = cut
    BY <1>2, <1>3
  <2> QED
    BY <1>1, <1>3, <2>1, <2>2, <2>3
<1>6. ASSUME NEW m \in 1..len PROVE Stream'[first - cut + m - 1] = written[t][m]
  <2>1. first - cut + m - 1 \in 1..Len(Stream')
    BY <1>1, <1>2, <1>3, <1>5
  <2>2. first - cut + m - 1 + cut = first + m - 1
    BY <1>2, <1>3
  <2> QED
    BY <1>1, <1>4, <2>1, <2>2
<1>7. first - cut > 1 => Stream'[first - cut - 1].op # "publish"
  <2> SUFFICES ASSUME first - cut > 1 PROVE Stream'[first - cut - 1].op # "publish"
    OBVIOUS
  <2>1. first - cut - 1 \in 1..Len(Stream') /\ first > 1
    BY <1>1, <1>2, <1>3, <1>5, SMTT(60)
  <2>2. first - cut - 1 + cut = first - 1
    BY <1>2, <1>3
  <2> QED
    BY <1>1, <1>4, <2>1, <2>2
<1>8. first - cut = k - len /\ first - cut > 0
  BY <1>2, <1>3, <1>5
<1> QED
  BY <1>6, <1>7, <1>8 DEF Closes, len

\* Where the broker receives a commit it has all of its transaction, and nothing else.
LEMMA CommitTakesAll ==
    ASSUME IInv, toBroker # <<>>, Head(toBroker).op = "commit"
    PROVE  /\ Head(toBroker).transaction \in 1..transaction
           /\ pending = written[Head(toBroker).transaction]
<1> USE DEF IInv
<1> DEFINE cut == Len(pending) + 1
<1>1. /\ Len(Stream) \in Nat /\ Len(pending) \in Nat
      /\ \A j \in 1..Len(pending) : Stream[j] = pending[j]
      /\ cut \in 1..Len(Stream) /\ Stream[cut] = Head(toBroker)
  <2>1. 1 \in 1..Len(toBroker) /\ Head(toBroker) = toBroker[1]
    BY DEF ShapeInv
  <2> QED
    BY <2>1, StreamElements
<1>2. PICK t : Head(toBroker).transaction = t
  OBVIOUS
<1>3. t \in 1..transaction /\ Closes(cut, t)
  BY <1>1, <1>2 DEF CommitInv, IsCommit
<1>4. written[t] \in Seq(Messages) /\ pending \in Seq(Messages) /\ Len(written[t]) \in Nat
  BY <1>3 DEF ShapeInv, WrittenInv
<1>5. cut - Len(written[t]) = 1
  <2>1. PICK first : first = cut - Len(written[t])
    OBVIOUS
  <2>2. first \in Int
    <3>1. cut \in Int
      BY <1>1
    <3> HIDE DEF cut
    <3> QED
      BY <1>4, <2>1, <3>1
  <2>3. first > 0 /\ (first > 1 => Stream[first - 1].op # "publish")
    BY <1>3, <2>1 DEF Closes
  <2>4. first <= Len(pending) + 1
    <3>1. cut \in Int
      BY <1>1
    <3>2. first <= cut
      <4> HIDE DEF cut
      <4> QED
        BY <1>4, <2>1, <3>1
    <3> QED
      BY <3>2
  <2>5. ASSUME first > 1 PROVE FALSE
    <3>1. first - 1 \in 1..Len(pending)
      BY <1>1, <2>2, <2>4, <2>5
    <3>2. Stream[first - 1] = pending[first - 1]
      BY <1>1, <3>1
    <3>3. pending[first - 1] \in Messages
      BY <1>4, <3>1, ElementOfSeq
    <3> QED
      BY <2>3, <2>5, <3>2, <3>3 DEF Messages
  <2>6. first = 1
    BY <2>2, <2>3, <2>5
  <2> QED
    BY <2>1, <2>6
<1>6. Len(pending) = Len(written[t])
  BY <1>1, <1>4, <1>5
<1>7. ASSUME NEW m \in 1..Len(written[t]) PROVE pending[m] = written[t][m]
  <2>1. Stream[1 + m - 1] = written[t][m]
    BY <1>3, <1>5 DEF Closes
  <2>2. 1 + m - 1 = m
    BY <1>4
  <2> QED
    BY <1>1, <1>6, <2>1, <2>2
<1>8. pending = written[t]
  BY <1>4, <1>6, <1>7, SeqEqual
<1> QED
  BY <1>2, <1>3, <1>8

\* The broker receives a frame that is not a message.
LEMMA CutStep ==
    ASSUME IInv, ShapeInv', toBroker # <<>>, Head(toBroker).op # "publish",
           Head(toBroker).op = "select" => pending = <<>> /\ selected',
           Head(toBroker).op # "select" => selected' = selected,
           delivered' = IF Head(toBroker).op = "commit" THEN Append(delivered, pending)
                                                        ELSE delivered,
           pending' = <<>>, toBroker' = Tail(toBroker),
           UNCHANGED <<transaction, pc, request, transactionMessagesCount, written, connected, program>>
    PROVE  IInv'
<1> USE DEF IInv
<1> DEFINE cut == Len(pending) + 1
<1>1. /\ Stream[cut] = Head(toBroker) /\ cut \in 1..Len(Stream)
      /\ Len(Stream') = Len(Stream) - cut
      /\ \A j \in 1..Len(Stream') : Stream'[j] = Stream[j + cut]
  BY StreamIsCut
<1>2. /\ Len(Stream) \in Nat /\ Len(pending) \in Nat /\ Len(Stream') \in Nat
      /\ \A j \in 1..Len(pending) : Stream[j] = pending[j]
  BY <1>1, StreamElements
<1>3. /\ IsOpen' = IsOpen
      /\ connected
  <2>1. Stream # <<>>
    BY <1>1, <1>2
  <2> QED
    BY <2>1 DEF IsOpen, BrokerInv, ShapeInv
<1>4. WrittenInv'
  BY <1>3 DEF WrittenInv
<1>5. BrokerInv'
  BY <1>3 DEF BrokerInv
<1>6. ASSUME NEW j \in 1..Len(Stream')
      PROVE  /\ j + cut \in 1..Len(Stream) /\ Stream'[j] = Stream[j + cut]
             /\ IsCommit(j)' => IsCommit(j + cut)
  <2>1. j + cut \in 1..Len(Stream) /\ Stream'[j] = Stream[j + cut]
    <3>1. Stream'[j] = Stream[j + cut]
      BY <1>1
    <3>2. cut \in Nat \ {0} /\ Len(Stream') = Len(Stream) - cut
      BY <1>1, <1>2
    <3> HIDE DEF cut
    <3> QED
      BY <1>2, <3>1, <3>2
  <2> QED
    BY <2>1 DEF IsCommit
<1>7. ASSUME NEW t \in 1..Len(written), NEW k \in 1..(Len(Stream') + 1), Closes(k + cut, t)
      PROVE  Closes(k, t)'
  <2>1. k \in Nat
    <3>1. Len(Stream') + 1 \in Nat
      BY <1>2
    <3> QED
      BY <3>1
  <2>2. k + cut = k + Len(pending) + 1
    BY <1>2, <2>1
  <2> QED
    BY <1>7, <2>2, ClosesShifts
<1>8. CommitInv'
  <2>1. ASSUME NEW k \in 1..Len(Stream'), IsCommit(k)', NEW t, Stream'[k].transaction = t
        PROVE  /\ t \in 1..transaction
               /\ IsOpen => t # transaction
               /\ Closes(k, t)'
               /\ program = "loopFunc" => Len(written[t]) = Leaderboards
    <3>1. k + cut \in 1..Len(Stream) /\ IsCommit(k + cut) /\ Stream[k + cut].transaction = t
      BY <1>6, <2>1
    <3>2. /\ t \in 1..transaction /\ (IsOpen => t # transaction) /\ Closes(k + cut, t)
          /\ program = "loopFunc" => Len(written[t]) = Leaderboards
      BY <3>1 DEF CommitInv
    <3>3. k \in 1..(Len(Stream') + 1) /\ t \in 1..Len(written)
      BY <1>2, <3>2 DEF WrittenInv
    <3> QED
      BY <1>7, <3>2, <3>3
  <2>2. ASSUME NEW j \in 1..Len(Stream'), NEW k \in 1..Len(Stream'),
               IsCommit(j)', IsCommit(k)', j < k
        PROVE  Stream'[j].transaction < Stream'[k].transaction
    <3>1. j + cut < k + cut
      BY <1>2, <2>2
    <3> QED
      BY <1>6, <2>2, <3>1 DEF CommitInv
  <2> QED
    BY <1>3, <2>1, <2>2 DEF CommitInv
<1>9. OpenInv'
  <2>1. ASSUME IsOpen PROVE Closes(Len(Stream) + 1, transaction)'
    <3>1. transaction \in 1..Len(written)
      BY <2>1 DEF WrittenInv, IsOpen, ShapeInv
    <3>2. Closes(Len(Stream) + 1, transaction)
      BY <1>3, <2>1 DEF OpenInv
    <3>3. ASSUME NEW k \in 1..(Len(Stream') + 1), k = Len(Stream') + 1, NEW t, t = transaction
          PROVE  Closes(k, t)'
      <4>1. k + cut = Len(Stream) + 1
        BY <1>1, <1>2, <3>3
      <4> QED
        BY <1>7, <3>1, <3>2, <3>3, <4>1
    <3> QED
      BY <1>2, <3>3
  <2>2. ASSUME NEW k \in 1..Len(Stream'), Stream'[k].op = "publish"
        PROVE  \/ k = Len(Stream') /\ pc = "publish"
               \/ k < Len(Stream') /\ Stream'[k + 1].op # "select"
    <3>1. k + cut \in 1..Len(Stream) /\ Stream[k + cut].op = "publish"
      BY <1>6, <2>2
    <3>2. CASE k = Len(Stream')
      <4>1. k + cut = Len(Stream)
        BY <1>1, <1>2, <3>2
      <4> QED
        BY <3>1, <3>2, <4>1 DEF OpenInv
    <3>3. CASE k # Len(Stream')
      <4>1. k \in Nat /\ cut \in Nat /\ k + 1 \in 1..Len(Stream')
        BY <1>2, <3>3
      <4>2. (k + 1) + cut = (k + cut) + 1 /\ k + cut # Len(Stream)
        <5> HIDE DEF cut
        <5> QED
          BY <1>1, <1>2, <3>3, <4>1
      <4>3. Stream'[k + 1] = Stream[(k + cut) + 1]
        BY <1>6, <4>1, <4>2
      <4>4. Stream[(k + cut) + 1].op # "select"
        BY <3>1, <4>2 DEF OpenInv
      <4> QED
        BY <3>3, <4>1, <4>3, <4>4
    <3> QED
      BY <3>2, <3>3
  <2> QED
    BY <1>3, <2>1, <2>2 DEF OpenInv
<1>10. ASSUME NEW i \in 1..Len(delivered), NEW m \in 1..Len(delivered[i]),
              NEW k \in 1..Len(Stream'), IsCommit(k)'
       PROVE  delivered[i][m].transaction < Stream'[k].transaction
  BY <1>6, <1>10, ZenonT(60) DEF DeliveredInv, BeforeInv
<1>11. CASE Head(toBroker).op # "commit"
  <2>1. DeliveredInv'
    BY <1>3, <1>10, <1>11 DEF DeliveredInv, WholeInv, BeforeInv, InOrderInv
  <2> QED
    BY <1>4, <1>5, <1>8, <1>9, <2>1
<1>12. CASE Head(toBroker).op = "commit"
  <2>0. PICK t : Head(toBroker).transaction = t
    OBVIOUS
  <2>1. /\ t \in 1..transaction /\ (IsOpen => t # transaction)
        /\ program = "loopFunc" => Len(written[t]) = Leaderboards
    BY <1>1, <1>12, <2>0 DEF CommitInv, IsCommit
  <2>2. pending \in Seq(Messages)
    BY DEF ShapeInv
  <2>4. pending = written[t]
    BY <1>12, <2>0, CommitTakesAll
  <2>5. /\ Len(delivered') = Len(delivered) + 1
        /\ \A i \in 1..Len(delivered) : delivered'[i] = delivered[i]
        /\ delivered'[Len(delivered) + 1] = pending
        /\ Len(delivered) \in Nat
    BY <1>12, <2>2, AppendProperties DEF ShapeInv
  <2>6. \A m \in 1..Len(pending) : pending[m].transaction = t
    BY <2>1, <2>4 DEF WrittenInv
  <2>7. ASSUME NEW i \in 1..Len(delivered')
        PROVE  /\ \E u \in 1..transaction : delivered'[i] = written[u] /\ (IsOpen => u # transaction)
               /\ program = "loopFunc" => Len(delivered'[i]) = Leaderboards
    BY <2>1, <2>4, <2>5 DEF DeliveredInv, WholeInv, BeforeInv
  <2>8. ASSUME NEW i \in 1..Len(delivered'), NEW m \in 1..Len(delivered'[i]),
               NEW k \in 1..Len(Stream'), IsCommit(k)'
        PROVE  delivered'[i][m].transaction < Stream'[k].transaction
    <3>1. CASE i = Len(delivered) + 1
      <4>1. delivered'[i][m].transaction = t
        BY <2>5, <2>6, <3>1
      <4>2. cut < k + cut /\ IsCommit(cut)
        BY <1>1, <1>2, <1>12 DEF IsCommit
      <4> QED
        BY <1>1, <1>6, <2>0, <2>8, <4>1, <4>2 DEF CommitInv
    <3>2. CASE i # Len(delivered) + 1
      BY <1>10, <2>5, <2>8, <3>2
    <3> QED
      BY <3>1, <3>2
  <2>9. ASSUME NEW i \in 1..Len(delivered'), NEW j \in 1..Len(delivered'), i < j,
               NEW m \in 1..Len(delivered'[i]), NEW n \in 1..Len(delivered'[j])
        PROVE  delivered'[i][m].transaction < delivered'[j][n].transaction
    <3>1. i \in 1..Len(delivered) /\ delivered'[i] = delivered[i]
      BY <2>5, <2>9
    <3>2. CASE j = Len(delivered) + 1
      <4>1. delivered'[j][n].transaction = t
        BY <2>5, <2>6, <3>2
      <4>2. IsCommit(cut)
        BY <1>1, <1>12 DEF IsCommit
      <4> QED
        BY <1>1, <2>0, <2>9, <3>1, <4>1, <4>2 DEF DeliveredInv, BeforeInv
    <3>3. CASE j # Len(delivered) + 1
      BY <2>5, <2>9, <3>1, <3>3, SMTT(60) DEF DeliveredInv, InOrderInv
    <3> QED
      BY <3>2, <3>3
  <2>10. DeliveredInv'
    <3>1. WholeInv'
      BY <1>3, <2>7 DEF WholeInv
    <3>2. BeforeInv'
      BY <2>8 DEF BeforeInv
    <3>3. InOrderInv'
      BY <2>9 DEF InOrderInv
    <3> QED
      BY <3>1, <3>2, <3>3 DEF DeliveredInv
  <2> QED
    BY <1>4, <1>5, <1>8, <1>9, <2>10
<1> QED
  BY <1>11, <1>12

-----------------------------------------------------------------------------
(* Types                                                                   *)

\* Each kind of step keeps the types: a request,
LEMMA RequestShape ==
    ASSUME ShapeInv, NEW op \in {"select", "commit", "rollback"}, Request(op),
           transaction' \in Nat, written' \in Seq(Seq(Messages)),
           transactionMessagesCount' \in Nat, next' \in Positions
    PROVE  ShapeInv'
<1>1. RequestFrame(op) \in Frames
  BY DEF RequestFrame, Frames, Requests
<1>2. toBroker' \in Seq(Frames)
  <2>1. toBroker \in Seq(Frames) /\ Append(toBroker, RequestFrame(op)) \in Seq(Frames)
    BY <1>1, AppendProperties DEF ShapeInv
  <2>2. toBroker' = Append(toBroker, RequestFrame(op)) \/ toBroker' = toBroker
    BY DEF Request
  <2> QED
    BY <2>1, <2>2
<1>3. UNCHANGED <<connected, selected, pending, delivered>> /\ pc' \in {"attach", "wait"}
  BY DEF Request, brokerVars
<1> QED
  BY <1>2, <1>3 DEF ShapeInv

\* a published message,
LEMMA PublishShape ==
    ASSUME ShapeInv, WrittenInv, NEW content \in Nat \cup Positions, Publish(content),
           next' \in Positions
    PROVE  ShapeInv'
<1>1. transaction \in 1..Len(written)
  BY DEF Publish, ShapeInv, WrittenInv
<1>2. MessageFrame(content) \in Messages /\ MessageFrame(content) \in Frames
  BY DEF MessageFrame, Messages, Frames, ShapeInv
<1>3. written' \in Seq(Seq(Messages))
  <2>1. Append(written[transaction], MessageFrame(content)) \in Seq(Messages)
    BY <1>1, <1>2 DEF ShapeInv
  <2> QED
    BY <1>1, <2>1, ExceptSeq DEF Publish, ShapeInv
<1>4. toBroker' \in Seq(Frames)
  BY <1>2 DEF Publish, ShapeInv
<1> QED
  BY <1>3, <1>4 DEF Publish, ShapeInv, brokerVars

\* a step of the thread alone,
LEMMA GotoShape ==
    ASSUME ShapeInv, NEW l \in {"idle", "publish", "end"}, Goto(l), next' \in Positions
    PROVE  ShapeInv'
  BY DEF ShapeInv, Goto, channelVars, brokerVars

\* What is published next is a message of the loop over the users.
LEMMA NextShape ==
    ASSUME ShapeInv
    PROVE  /\ NextUser \in Positions
           /\ next.command # "commit" => AfterPublished \subseteq Positions /\ AfterFailed \in Positions
<1>1. /\ next.user \in Nat /\ next.deal \in Nat /\ next.command \in Commands
      /\ next = [user |-> next.user, command |-> next.command, deal |-> next.deal]
  BY DEF ShapeInv, Positions
<1>2. NextUser \in Positions
  BY <1>1 DEF NextUser, User, Positions, Commands
<1>3. \A c \in Commands : At(c) \in Positions
  BY <1>1 DEF At, ShapeInv, Positions
<1>4. NextDeal \in Positions
  <2>1. [next EXCEPT !.command = "user_deal", !.deal = @ + 1] \in Positions
    <3>1. next.deal + 1 \in Nat /\ "user_deal" \in Commands
      BY <1>1 DEF Commands
    <3>2. \A n \in Nat, c \in Commands : [next EXCEPT !.command = c, !.deal = n] \in Positions
      BY DEF ShapeInv, Positions
    <3> QED
      BY <3>1, <3>2
  <2> QED
    BY <1>1, <1>3, <2>1 DEF NextDeal, Positions, Commands
<1> QED
  BY <1>1, <1>2, <1>3, <1>4 DEF AfterPublished, AfterFailed, Commands

\* and what broker, library and network do.
LEMMA SurroundingsShape ==
    ASSUME IInv, Surroundings, UNCHANGED next
    PROVE  ShapeInv'
<1> USE DEF IInv
<1>1. CASE Answer
  BY <1>1 DEF Answer, ShapeInv, brokerVars
<1>2. CASE LoseConnection
  BY <1>2, EmptySeq DEF LoseConnection, ShapeInv
<1>3. CASE Receive
  <2>1. toBroker \in Seq(Frames) /\ toBroker # <<>>
    BY <1>3 DEF Receive, ShapeInv
  <2>2. Head(toBroker) \in Frames /\ toBroker' \in Seq(Frames)
    BY <1>3, <2>1 DEF Receive
  <2>3. Head(toBroker).op = "publish" => Head(toBroker) \in Messages
    BY <2>2 DEF Frames, Requests
  <2>4. pending' \in Seq(Messages) /\ delivered' \in Seq(Seq(Messages)) /\ selected' \in BOOLEAN
    <3>1. CASE Head(toBroker).op = "publish"
      <4>1. Append(pending, Head(toBroker)) \in Seq(Messages) /\ <<Head(toBroker)>> \in Seq(Messages)
        BY <2>3, <3>1, AppendProperties DEF ShapeInv
      <4>2. Append(delivered, <<Head(toBroker)>>) \in Seq(Seq(Messages))
        BY <4>1, AppendProperties DEF ShapeInv
      <4> QED
        BY <1>3, <3>1, <4>1, <4>2 DEF Receive, ShapeInv
    <3>2. CASE Head(toBroker).op # "publish"
      <4>1. Append(delivered, pending) \in Seq(Seq(Messages)) /\ <<>> \in Seq(Messages)
        BY AppendProperties, EmptySeq DEF ShapeInv
      <4> QED
        BY <1>3, <3>2, <4>1 DEF Receive, ShapeInv
    <3> QED
      BY <3>1, <3>2
  <2> QED
    BY <1>3, <2>2, <2>4 DEF Receive, ShapeInv, threadVars
<1> QED
  BY <1>1, <1>2, <1>3 DEF Surroundings

-----------------------------------------------------------------------------
(* The steps of both programs                                              *)

\* The parts of the invariant that a step which sends nothing needs
LEMMA GotoStep ==
    ASSUME IInv, NEW l \in {"idle", "publish", "end"}, Goto(l), UNCHANGED program, next' \in Positions,
           transaction > 0,
           l = "publish" => IsOpen,
           pc = "publish" => l = "publish"
    PROVE  IInv'
<1>1. ShapeInv'
  BY GotoShape DEF IInv
<1>2. /\ UNCHANGED <<transaction, request, transactionMessagesCount, written, connected, toBroker, brokerVars>>
      /\ pc' = l
  BY DEF Goto, channelVars
<1>3. transaction # 0 /\ (IsOpen' => IsOpen)
  BY <1>2 DEF IsOpen, IInv, ShapeInv
<1> QED
  BY <1>1, <1>2, <1>3, QuietStep

\* The callbacks are attached: nothing is sent.
LEMMA AttachStep ==
    ASSUME IInv, Attach, UNCHANGED <<program, next>>
    PROVE  IInv'
<1>1. /\ UNCHANGED <<transaction, request, transactionMessagesCount, written, connected, toBroker,
                     brokerVars, selected, pending, delivered>>
      /\ pc = "attach" /\ pc' = "wait"
  BY DEF Attach, brokerVars
<1>2. ShapeInv'
  BY <1>1 DEF IInv, ShapeInv
<1>3. transaction # 0 /\ (IsOpen' => IsOpen)
  BY <1>1 DEF IsOpen, IInv, WrittenInv
<1> QED
  BY <1>1, <1>2, <1>3, QuietStep

\* Commit and rollback, with the thread's conditions for them
LEMMA RequestEndStep ==
    ASSUME IInv, NEW op \in {"commit", "rollback"}, End(op), UNCHANGED program, next' \in Positions,
           transaction > 0,
           op = "commit" => pc = "publish",
           op = "commit" /\ program = "loopFunc" => Len(written[transaction]) = Leaderboards
    PROVE  IInv'
<1>1. Request(op) /\ UNCHANGED <<transaction, written, transactionMessagesCount>>
  BY DEF End
<1>2. ShapeInv'
  BY <1>1, RequestShape DEF IInv, ShapeInv
<1> QED
  BY <1>1, <1>2, EndStep

\* StartTransaction, with the types it keeps
LEMMA BeginTransactionStep ==
    ASSUME IInv, StartTransaction, UNCHANGED <<program, next>>
    PROVE  IInv'
<1>1. transaction' \in Nat /\ written' \in Seq(Seq(Messages)) /\ transactionMessagesCount' \in Nat
  BY EmptySeq, AppendProperties DEF StartTransaction, IInv, ShapeInv
<1>2. ShapeInv'
  BY <1>1, RequestShape DEF StartTransaction, IInv, ShapeInv
<1> QED
  BY <1>2, BeginStep

\* A thread that is in a transaction has begun one.
LEMMA Begun ==
    ASSUME IInv, pc # "idle"
    PROVE  transaction > 0
  BY DEF IInv, WrittenInv, ShapeInv

\* The steps of Logic's loop thread
LEMMA LoopStep ==
    ASSUME IInv, Loop
    PROVE  IInv'
<1> USE DEF Loop
<1>0. program = "loopFunc" /\ UNCHANGED <<program, next>> /\ next' \in Positions
  BY DEF writeVars, IInv, ShapeInv
<1>1. CASE BeginRound
  BY <1>0, <1>1, BeginTransactionStep DEF BeginRound
<1>2. CASE Attach
  BY <1>0, <1>2, AttachStep
<1>3. CASE RoundStarted
  <2>1. pc = "wait" /\ request = "select" /\ IsOpen
    BY <1>3 DEF RoundStarted, Returns, IsOpen
  <2> QED
    BY <1>0, <1>3, <2>1, Begun, GotoStep DEF RoundStarted
<1>4. CASE PublishLeaderboard
  <2>1. transactionMessagesCount + 1 \in Nat \cup Positions /\ Publish(transactionMessagesCount + 1)
    BY <1>4 DEF PublishLeaderboard, IInv, ShapeInv
  <2>2. ShapeInv'
    BY <1>0, <2>1, PublishShape DEF IInv
  <2> QED
    BY <1>0, <2>1, <2>2, PublishStep
<1>5. CASE LeaderboardFails
  <2>1. pc = "publish" /\ Request("rollback") /\ UNCHANGED <<transaction, written>>
    BY <1>5 DEF LeaderboardFails, FailToPublish, AfterPublishFailed
  <2>2. transactionMessagesCount' \in Nat
    BY <1>5 DEF LeaderboardFails, FailToPublish, IInv, ShapeInv
  <2>3. ShapeInv'
    BY <1>0, <2>1, <2>2, RequestShape DEF IInv, ShapeInv
  <2> QED
    BY <1>0, <2>1, <2>3, Begun, EndStep
<1>6. CASE CommitRound
  <2>1. pc = "publish" /\ End("commit") /\ Len(written[transaction]) = Leaderboards
    BY <1>0, <1>6 DEF CommitRound, IInv, WrittenInv, IsOpen
  <2> QED
    BY <1>0, <2>1, Begun, RequestEndStep
<1>7. CASE RoundCommitted
  <2>1. pc = "wait" /\ (Goto("idle") \/ End("rollback"))
    BY <1>7 DEF RoundCommitted, Returns
  <2> QED
    BY <1>0, <2>1, Begun, GotoStep, RequestEndStep
<1>8. CASE RoundRolledBack
  <2>1. pc = "wait" /\ Goto("idle")
    BY <1>8 DEF RoundRolledBack, Returns
  <2> QED
    BY <1>0, <2>1, Begun, GotoStep
<1> QED
  BY <1>1, <1>2, <1>3, <1>4, <1>5, <1>6, <1>7, <1>8 DEF LoopThread

\* The steps of the traffic generator
LEMMA WriteStep ==
    ASSUME IInv, Write
    PROVE  IInv'
<1> USE DEF Write
<1>0. program # "loopFunc" /\ UNCHANGED program /\ next \in Positions
  BY DEF IInv, ShapeInv
<1>1. CASE StartWriting
  BY <1>0, <1>1, BeginTransactionStep DEF StartWriting, writeVars
<1>2. CASE AttachWriting
  BY <1>0, <1>2, AttachStep DEF AttachWriting, writeVars
<1>3. CASE WritingStarted
  <2>1. pc = "wait" /\ request = "select" /\ IsOpen
    BY <1>3 DEF WritingStarted, Returns, IsOpen
  <2> QED
    BY <1>0, <1>3, <2>1, Begun, GotoStep, RequestEndStep DEF WritingStarted, writeVars
<1>4. CASE PublishNext
  <2>1. next' \in Positions
    BY <1>4, NextShape DEF PublishNext, IInv
  <2>2. ShapeInv'
    BY <1>0, <1>4, <2>1, PublishShape DEF PublishNext, IInv
  <2> QED
    BY <1>0, <1>4, <2>2, PublishStep DEF PublishNext
<1>5. CASE NextFails
  <2>1. next' \in Positions
    BY <1>5, NextShape DEF NextFails, IInv
  <2>2. /\ UNCHANGED <<transaction, pc, request, written, connected, toBroker, brokerVars,
                       selected, pending, delivered>>
        /\ transactionMessagesCount' = transactionMessagesCount + 1
        /\ pc = "publish"
    BY <1>5 DEF NextFails, FailToPublish, channelVars, brokerVars
  <2>3. ShapeInv'
    BY <2>1, <2>2 DEF IInv, ShapeInv
  <2>4. IsOpen' = IsOpen /\ transaction # 0
    BY <2>2, Begun DEF IsOpen, IInv, ShapeInv
  <2> QED
    BY <1>0, <2>2, <2>3, <2>4, QuietStep
<1>6. CASE UserWritten
  <2>1. next' \in Positions
    BY <1>6, NextShape DEF UserWritten, IInv
  <2>2. pc = "publish" /\ IsOpen
    BY <1>6 DEF UserWritten, IsOpen
  <2>3. End("commit") \/ Goto("publish")
    BY <1>6 DEF UserWritten
  <2> QED
    BY <1>0, <2>1, <2>2, <2>3, Begun, GotoStep, RequestEndStep
<1>7. CASE LastCommit
  <2>1. pc = "publish" /\ End("commit") /\ next' \in Positions
    BY <1>0, <1>7 DEF LastCommit
  <2> QED
    BY <1>0, <2>1, Begun, RequestEndStep
<1>8. CASE BatchCommitted
  <2>1. pc = "wait" /\ (Goto("end") \/ Goto("idle") \/ End("rollback")) /\ next' \in Positions
    BY <1>0, <1>8 DEF BatchCommitted, Returns, AfterTransaction, writeVars
  <2> QED
    BY <1>0, <2>1, Begun, GotoStep, RequestEndStep
<1>9. CASE BatchRolledBack
  <2>1. pc = "wait" /\ (Goto("end") \/ Goto("idle")) /\ next' \in Positions
    BY <1>0, <1>9 DEF BatchRolledBack, Returns, AfterTransaction, writeVars
  <2> QED
    BY <1>0, <2>1, Begun, GotoStep
<1> QED
  BY <1>1, <1>2, <1>3, <1>4, <1>5, <1>6, <1>7, <1>8, <1>9 DEF WritingThread

\* The broker receives a frame: a message moves from the way into the transaction, the
\* others cut the stream.
LEMMA ReceiveStep ==
    ASSUME IInv, Receive, UNCHANGED <<program, next>>
    PROVE  IInv'
<1>1. ShapeInv'
  BY SurroundingsShape DEF Surroundings
<1>2. /\ UNCHANGED <<transaction, pc, request, transactionMessagesCount, written, connected>>
      /\ toBroker # <<>> /\ toBroker' = Tail(toBroker)
  BY DEF Receive, threadVars
<1>3. /\ pending \in Seq(Messages) /\ toBroker \in Seq(Frames) /\ Head(toBroker) \in Frames
      /\ connected
  <2>1. toBroker \in Seq(Frames) /\ Head(toBroker) \in Frames
    BY <1>2 DEF IInv, ShapeInv
  <2>2. Len(toBroker) > 0
    BY <1>2, <2>1
  <2>3. Len(Stream) # 0
    BY <2>2, StreamElements DEF IInv
  <2>4. Stream # <<>>
    BY <2>3
  <2> QED
    BY <2>1, <2>4 DEF IInv, BrokerInv, ShapeInv
<1>4. CASE Head(toBroker).op = "publish"
  <2>1. selected /\ Head(toBroker) \in Messages
    BY <1>2, <1>3, <1>4 DEF IInv, BrokerInv, Frames, Requests
  <2>2. UNCHANGED <<selected, delivered>> /\ pending' = Append(pending, Head(toBroker))
    BY <1>4, <2>1 DEF Receive
  <2>3. Stream' = Stream
    BY <1>2, <2>1, <2>2, StreamStays DEF IInv
  <2>4. IsOpen' = IsOpen
    BY <1>2 DEF IsOpen
  <2>5. WrittenInv' /\ BrokerInv'
    BY <1>2, <1>3, <2>1, <2>2, <2>3, <2>4 DEF IInv, WrittenInv, BrokerInv
  <2>6. CommitInv' /\ OpenInv' /\ DeliveredInv'
    BY <1>2, <2>2, <2>3, <2>4, StreamSame DEF IInv
  <2> QED
    BY <1>1, <2>5, <2>6 DEF IInv
<1>5. CASE Head(toBroker).op # "publish"
  <2>1. Head(toBroker).op = "select" => pending = <<>> /\ selected'
    <3> SUFFICES ASSUME Head(toBroker).op = "select" PROVE pending = <<>> /\ selected'
      OBVIOUS
    <3>1. selected'
      BY DEF Receive
    <3>2. ASSUME pending # <<>> PROVE FALSE
      <4> DEFINE n == Len(pending)
      <4>1. n \in Nat \ {0} /\ pending[n] \in Messages
        BY <1>3, <3>2, EmptySeq, ElementOfSeq
      <4>2. /\ Stream[n] = pending[n] /\ Stream[n + 1] = Head(toBroker)
            /\ n + 1 \in 1..Len(Stream) /\ Len(Stream) \in Nat
        <5>1. 1 \in 1..Len(toBroker) /\ Head(toBroker) = toBroker[1]
          BY <1>2, <1>3
        <5> QED
          BY <4>1, <5>1, StreamElements DEF IInv
      <4>3. Stream[n].op = "publish" /\ n \in 1..Len(Stream) /\ n # Len(Stream)
        BY <4>1, <4>2 DEF Messages
      <4> QED
        BY <4>2, <4>3 DEF IInv, OpenInv
    <3> QED
      BY <3>1, <3>2
  <2>2. /\ Head(toBroker).op # "select" => selected' = selected
        /\ delivered' = IF Head(toBroker).op = "commit" THEN Append(delivered, pending)
                                                        ELSE delivered
        /\ pending' = <<>>
    BY <1>5, <2>1 DEF Receive
  <2> QED
    BY <1>1, <1>2, <1>5, <2>1, <2>2, CutStep
<1> QED
  BY <1>4, <1>5

\* The invariant is inductive.
LEMMA NextIInv == IInv /\ [Next]_vars => IInv'
<1> SUFFICES ASSUME IInv, [Next]_vars PROVE IInv'
  OBVIOUS
<1> USE DEF loopVars, writeVars
<1>1. CASE Loop
  BY <1>1, LoopStep
<1>2. CASE Write
  BY <1>2, WriteStep
<1>3. CASE Register /\ UNCHANGED <<writeVars, program>>
  <2>1. UNCHANGED <<transaction, pc, request, transactionMessagesCount, written, connected, toBroker,
                    brokerVars, selected, pending, delivered, program, next>>
    BY <1>3 DEF Register, publisherVars, threadVars, channelVars, brokerVars
  <2>2. ShapeInv' /\ IsOpen' = IsOpen
    BY <2>1 DEF IInv, ShapeInv, IsOpen
  <2>3. transaction = 0 => pc' = "idle"
    BY <2>1 DEF IInv, WrittenInv
  <2> QED
    BY <2>1, <2>2, <2>3, QuietStep
<1>4. CASE Answer /\ UNCHANGED <<loopVars, writeVars, program>>
  <2>1. UNCHANGED <<transaction, pc, request, transactionMessagesCount, written, connected, toBroker,
                    brokerVars, selected, pending, delivered, program, next>>
    BY <1>4 DEF Answer, brokerVars
  <2>2. ShapeInv' /\ IsOpen' = IsOpen
    BY <2>1 DEF IInv, ShapeInv, IsOpen
  <2>3. transaction = 0 => pc' = "idle"
    BY <2>1 DEF IInv, WrittenInv
  <2> QED
    BY <2>1, <2>2, <2>3, QuietStep
<1>5. CASE LoseConnection /\ UNCHANGED <<loopVars, writeVars, program>>
  <2>1. ShapeInv'
    BY <1>5, SurroundingsShape DEF Surroundings
  <2> QED
    BY <1>5, <2>1, LoseConnectionStep
<1>6. CASE Receive /\ UNCHANGED <<loopVars, writeVars, program>>
  BY <1>6, ReceiveStep
<1>7. CASE UNCHANGED vars
  <2>1. UNCHANGED <<transaction, pc, request, transactionMessagesCount, written, connected, toBroker,
                    brokerVars, selected, pending, delivered, program, next>>
    BY <1>7 DEF vars, publisherVars, threadVars, channelVars, brokerVars
  <2>2. ShapeInv' /\ IsOpen' = IsOpen
    BY <2>1 DEF IInv, ShapeInv, IsOpen
  <2>3. transaction = 0 => pc' = "idle"
    BY <2>1 DEF IInv, WrittenInv
  <2> QED
    BY <2>1, <2>2, <2>3, QuietStep
<1> QED
  BY <1>1, <1>2, <1>3, <1>4, <1>5, <1>6, <1>7 DEF Next, Surroundings

\* Every reachable state of either program satisfies the invariant: broker, wire and
\* transaction never mix what different transactions published.
THEOREM InvariantHolds == Spec => []IInv
<1> QED
  BY InitIInv, NextIInv, PTL DEF Spec

\* Subscribers get each transaction of either program whole or not at all, in order and
\* at most once, whatever times out, fails or is answered late.
THEOREM CommitsAreWholeAlways == Spec => []CommitsAreWhole
<1>1. IInv => CommitsAreWhole
  <2> SUFFICES ASSUME IInv PROVE CommitsAreWhole
    OBVIOUS
  <2>1. DOMAIN delivered = 1..Len(delivered) /\ \A i \in DOMAIN delivered : DOMAIN delivered[i] = 1..Len(delivered[i])
    BY DEF IInv, ShapeInv
  <2>2. ASSUME NEW i \in DOMAIN delivered
        PROVE  /\ \E t \in 1..transaction : delivered[i] = written[t]
               /\ program = "loopFunc" => Len(delivered[i]) = Leaderboards
    BY <2>1 DEF IInv, DeliveredInv, WholeInv
  <2>3. ASSUME NEW i \in DOMAIN delivered, NEW j \in DOMAIN delivered, i < j,
               NEW f \in Range(delivered[i]), NEW g \in Range(delivered[j])
        PROVE  f.transaction < g.transaction
    <3>1. PICK m \in 1..Len(delivered[i]) : f = delivered[i][m]
      BY <2>1 DEF Range
    <3>2. PICK n \in 1..Len(delivered[j]) : g = delivered[j][n]
      BY <2>1 DEF Range
    <3> QED
      BY <2>1, <2>3, <3>1, <3>2 DEF IInv, DeliveredInv, InOrderInv
  <2> QED
    BY <2>2, <2>3 DEF CommitsAreWhole
<1> QED
  BY <1>1, InvariantHolds, PTL

-----------------------------------------------------------------------------
(* The users of the traffic generator                                      *)

\* A user's messages are behind the registration,
RegisteredInv ==
    \A t \in 1..transaction : \A m \in 1..Len(written[t]) :
        /\ written[t][m].content \in Positions
        /\ written[t][m].content.user <= next.user
        /\ \E k \in 1..m : written[t][k].content = User(written[t][m].content.user)

\* and all in one transaction.
TogetherInv ==
    \A t, u \in 1..transaction : \A m \in 1..Len(written[t]), n \in 1..Len(written[u]) :
        written[t][m].content.user = written[u][n].content.user => t = u

\* Between two users nothing of the next one is written.
BetweenInv ==
    next.command = "user_registered" =>
        /\ next = User(next.user)
        /\ \A t \in 1..transaction : \A m \in 1..Len(written[t]) :
             written[t][m].content.user < next.user

\* Those of the user that is being written are in the transaction that is open.
WithinInv ==
    next.command # "user_registered" =>
        /\ pc = "publish"
        /\ next.user <= UsersCount
        /\ \E k \in 1..Len(written[transaction]) :
             written[transaction][k].content = User(next.user)

UsersInv == program = "writeData" => RegisteredInv /\ TogetherInv /\ BetweenInv /\ WithinInv

\* A step that writes nothing, and does not leave the body of the loop over the users
LEMMA UsersStay ==
    ASSUME UsersInv, UNCHANGED <<transaction, written, next, program>>,
           program = "writeData" /\ next.command # "user_registered" => pc' = "publish"
    PROVE  UsersInv'
<1>1. (RegisteredInv => RegisteredInv') /\ (TogetherInv => TogetherInv') /\ (BetweenInv => BetweenInv')
  BY DEF RegisteredInv, TogetherInv, BetweenInv
<1>2. program = "writeData" /\ WithinInv => WithinInv'
  BY DEF WithinInv
<1> QED
  BY <1>1, <1>2 DEF UsersInv

\* The loop over the users comes to the next one.
LEMMA UserEnds ==
    ASSUME IInv, UsersInv, UNCHANGED <<transaction, written, program>>, next' = NextUser
    PROVE  UsersInv'
<1> SUFFICES ASSUME program = "writeData" PROVE UsersInv'
  BY DEF UsersInv
<1>1. next.user \in Nat
  BY DEF IInv, ShapeInv, Positions
<1>2. next'.user = next.user + 1 /\ next'.command = "user_registered" /\ next' = User(next'.user)
  BY DEF NextUser, User
<1>3. ASSUME NEW t \in 1..transaction, NEW m \in 1..Len(written[t])
      PROVE  written[t][m].content.user <= next'.user /\ written[t][m].content.user < next'.user
  <2>1. written[t][m].content.user \in Nat /\ written[t][m].content.user <= next.user
    BY DEF UsersInv, RegisteredInv, Positions
  <2> QED
    BY <1>1, <1>2, <2>1
<1> QED
  <2>1. RegisteredInv'
    BY <1>3 DEF UsersInv, RegisteredInv
  <2>2. TogetherInv'
    BY DEF UsersInv, TogetherInv
  <2>3. BetweenInv' /\ WithinInv'
    BY <1>2, <1>3 DEF BetweenInv, WithinInv
  <2> QED
    BY <2>1, <2>2, <2>3 DEF UsersInv

\* Where a transaction is begun no user is being written.
LEMMA UsersBegin ==
    ASSUME IInv, UsersInv, StartTransaction, UNCHANGED <<next, program>>
    PROVE  UsersInv'
<1> SUFFICES ASSUME program = "writeData" PROVE UsersInv'
  BY DEF UsersInv
<1>1. /\ pc = "idle" /\ transaction' = transaction + 1 /\ written' = Append(written, <<>>)
      /\ transaction \in Nat /\ written \in Seq(Seq(Messages)) /\ Len(written) = transaction
  BY DEF StartTransaction, IInv, ShapeInv, WrittenInv
<1>2. /\ Len(written'[transaction']) = 0
      /\ \A t \in 1..transaction : written'[t] = written[t]
  BY <1>1, AppendProperties
<1>3. ASSUME NEW t \in 1..transaction', NEW m \in 1..Len(written'[t])
      PROVE  t \in 1..transaction /\ m \in 1..Len(written[t]) /\ written'[t] = written[t]
  BY <1>1, <1>2
<1>4. next.command = "user_registered"
  BY <1>1 DEF UsersInv, WithinInv
<1>5. ASSUME NEW t \in 1..transaction', NEW m \in 1..Len(written'[t])
      PROVE  /\ written'[t][m].content \in Positions
             /\ written'[t][m].content.user <= next.user
             /\ written'[t][m].content.user < next.user
             /\ \E k \in 1..m : written'[t][k].content = User(written'[t][m].content.user)
  BY <1>3, <1>4 DEF UsersInv, RegisteredInv, BetweenInv
<1>6. ASSUME NEW t \in 1..transaction', NEW u \in 1..transaction',
             NEW m \in 1..Len(written'[t]), NEW n \in 1..Len(written'[u]),
             written'[t][m].content.user = written'[u][n].content.user
      PROVE  t = u
  <2>1. /\ t \in 1..transaction /\ m \in 1..Len(written[t]) /\ written'[t] = written[t]
        /\ u \in 1..transaction /\ n \in 1..Len(written[u]) /\ written'[u] = written[u]
    BY <1>3
  <2>2. written[t][m].content.user = written[u][n].content.user
    BY <1>6, <2>1
  <2> QED
    BY <2>1, <2>2, ZenonT(60) DEF UsersInv, TogetherInv
<1> QED
  <2>1. RegisteredInv'
    BY <1>5 DEF RegisteredInv
  <2>2. TogetherInv'
    BY <1>6 DEF TogetherInv
  <2>3. next = User(next.user)
    BY <1>4 DEF UsersInv, BetweenInv
  <2>4. BetweenInv' /\ WithinInv'
    BY <1>4, <1>5, <2>3 DEF BetweenInv, WithinInv
  <2> QED
    BY <2>1, <2>2, <2>4 DEF UsersInv

\* A message of a user is published, behind the registration or as the first one.
LEMMA UserGrows ==
    ASSUME IInv, UsersInv, PublishNext, UNCHANGED program
    PROVE  UsersInv'
<1> SUFFICES ASSUME program = "writeData" PROVE UsersInv'
  BY DEF UsersInv
<1> DEFINE frame == MessageFrame(next)
<1>1. /\ pc = "publish" /\ pc' = pc /\ transaction' = transaction
      /\ written' = [written EXCEPT ![transaction] = Append(@, frame)]
      /\ next.user <= UsersCount /\ next.command # "commit" /\ next' \in AfterPublished
  BY DEF PublishNext, Publish
<1>2. /\ transaction \in 1..Len(written) /\ transaction \in 1..transaction /\ Len(written) = transaction
      /\ written[transaction] \in Seq(Messages) /\ written \in Seq(Seq(Messages))
      /\ next \in Positions
  BY <1>1, Begun DEF IInv, ShapeInv, WrittenInv
<1>3. frame \in Messages /\ frame.content = next
  BY <1>2 DEF MessageFrame, Messages, IInv, ShapeInv
<1>4. PICK len \in Nat : len = Len(written[transaction])
  BY <1>2
<1>5. /\ \A t \in 1..transaction : t # transaction => written'[t] = written[t]
      /\ Len(written'[transaction]) = len + 1
      /\ \A m \in 1..len : written'[transaction][m] = written[transaction][m]
      /\ written'[transaction][len + 1] = frame
  <2>1. /\ \A t \in 1..transaction : t # transaction => written'[t] = written[t]
        /\ written'[transaction] = Append(written[transaction], frame)
    BY <1>1, <1>2
  <2> QED
    BY <1>2, <1>3, <1>4, <2>1, AppendProperties
<1>6. next'.user = next.user /\ next'.command # "user_registered"
  BY <1>1, <1>2 DEF AfterPublished, NextDeal, At, Positions, Commands
<1>7. ASSUME NEW t \in 1..transaction, NEW m \in 1..Len(written'[t])
      PROVE  \/ t = transaction /\ m = len + 1 /\ written'[t][m].content = next
             \/ m \in 1..Len(written[t]) /\ written'[t][m] = written[t][m]
  BY <1>3, <1>4, <1>5
<1>8. \E k \in 1..(len + 1) : written'[transaction][k].content = User(next.user)
  <2>1. CASE next.command = "user_registered"
    BY <1>3, <1>5, <2>1 DEF UsersInv, BetweenInv
  <2>2. CASE next.command # "user_registered"
    BY <1>4, <1>5, <2>2 DEF UsersInv, WithinInv
  <2> QED
    BY <2>1, <2>2
<1>9. ASSUME NEW t \in 1..transaction, NEW m \in 1..Len(written'[t])
      PROVE  /\ written'[t][m].content \in Positions
             /\ written'[t][m].content.user <= next.user
             /\ \E k \in 1..m : written'[t][k].content = User(written'[t][m].content.user)
  <2>1. CASE t = transaction /\ m = len + 1 /\ written'[t][m].content = next
    BY <1>2, <1>8, <2>1 DEF Positions
  <2>2. CASE m \in 1..Len(written[t]) /\ written'[t][m] = written[t][m]
    <3>1. PICK k \in 1..m : written[t][k].content = User(written[t][m].content.user)
      BY <2>2 DEF UsersInv, RegisteredInv
    <3>2. k \in 1..Len(written[t])
      <4>1. Len(written[t]) \in Nat
        BY <1>2
      <4> QED
        BY <2>2, <4>1
    <3>3. written'[t][k] = written[t][k]
      BY <1>4, <1>5, <3>2
    <3> QED
      BY <2>2, <3>1, <3>3 DEF UsersInv, RegisteredInv
  <2> QED
    BY <1>7, <2>1, <2>2
<1>10. ASSUME NEW t \in 1..transaction, NEW m \in 1..Len(written[t]),
              written[t][m].content.user = next.user
       PROVE  t = transaction
  <2>1. next.command # "user_registered"
    BY <1>2, <1>10 DEF UsersInv, BetweenInv, Positions
  <2>2. PICK k \in 1..Len(written[transaction]) : written[transaction][k].content = User(next.user)
    BY <2>1 DEF UsersInv, WithinInv
  <2>3. written[transaction][k].content.user = next.user
    BY <2>2 DEF User
  <2> QED
    BY <1>2, <1>10, <2>3 DEF UsersInv, TogetherInv
<1>11. ASSUME NEW t \in 1..transaction, NEW u \in 1..transaction,
              NEW m \in 1..Len(written'[t]), NEW n \in 1..Len(written'[u]),
              written'[t][m].content.user = written'[u][n].content.user
       PROVE  t = u
  <2>1. CASE m \in 1..Len(written[t]) /\ written'[t][m] = written[t][m]
    <3>1. CASE n \in 1..Len(written[u]) /\ written'[u][n] = written[u][n]
      BY <1>11, <2>1, <3>1 DEF UsersInv, TogetherInv
    <3>2. CASE u = transaction /\ written'[u][n].content = next
      BY <1>10, <1>11, <2>1, <3>2
    <3> QED
      BY <1>7, <3>1, <3>2
  <2>2. CASE t = transaction /\ written'[t][m].content = next
    <3>1. CASE n \in 1..Len(written[u]) /\ written'[u][n] = written[u][n]
      BY <1>10, <1>11, <2>2, <3>1
    <3> QED
      BY <1>7, <2>2, <3>1
  <2> QED
    BY <1>7, <2>1, <2>2
<1>12. \E k \in 1..Len(written'[transaction']) : written'[transaction'][k].content = User(next'.user)
  BY <1>1, <1>5, <1>6, <1>8
<1>13. next'.user <= UsersCount /\ next'.command # "user_registered" /\ pc' = "publish"
  BY <1>1, <1>6
<1>14. \A t \in 1..transaction' : \A m \in 1..Len(written'[t]) :
         /\ written'[t][m].content \in Positions
         /\ written'[t][m].content.user <= next'.user
         /\ \E k \in 1..m : written'[t][k].content = User(written'[t][m].content.user)
  BY <1>1, <1>6, <1>9
<1>15. \A t, u \in 1..transaction' : \A m \in 1..Len(written'[t]), n \in 1..Len(written'[u]) :
         written'[t][m].content.user = written'[u][n].content.user => t = u
  BY <1>1, <1>11
<1> QED
  BY <1>12, <1>13, <1>14, <1>15 DEF UsersInv, RegisteredInv, TogetherInv, BetweenInv, WithinInv

\* UsersInv is inductive with the invariant.
LEMMA UsersNext == IInv /\ UsersInv /\ [Next]_vars => UsersInv'
<1> SUFFICES ASSUME IInv, UsersInv, [Next]_vars PROVE UsersInv'
  OBVIOUS
<1>1. CASE Loop
  BY <1>1 DEF Loop, UsersInv
<1>2. CASE Write
  <2> USE DEF Write, writeVars
  <2>1. CASE StartWriting
    BY <1>2, <2>1, UsersBegin DEF StartWriting
  <2>2. CASE AttachWriting
    BY <1>2, <2>2, UsersStay DEF AttachWriting, Attach, UsersInv, WithinInv
  <2>3. CASE WritingStarted
    BY <1>2, <2>3, UsersStay DEF WritingStarted, Returns, Goto, End, UsersInv, WithinInv
  <2>4. CASE PublishNext
    BY <1>2, <2>4, UserGrows
  <2>5. CASE NextFails
    <3>1. /\ UNCHANGED <<transaction, written, program, pc>> /\ next' = AfterFailed
          /\ next.user <= UsersCount
      BY <1>2, <2>5 DEF NextFails
    <3>2. CASE next.command \in {"user_deal", "user_deal_won"}
      <4>1. next'.user = next.user /\ next'.command # "user_registered"
        BY <3>1, <3>2 DEF AfterFailed, NextDeal, At, IInv, ShapeInv, Positions
      <4> QED
        BY <3>1, <3>2, <4>1 DEF UsersInv, RegisteredInv, TogetherInv, BetweenInv, WithinInv
    <3>3. CASE next.command \notin {"user_deal", "user_deal_won"}
      BY <3>1, <3>3, UserEnds DEF AfterFailed
    <3> QED
      BY <3>2, <3>3
  <2>6. CASE UserWritten
    BY <1>2, <2>6, UserEnds DEF UserWritten, End, Goto
  <2>7. CASE LastCommit
    <3>1. next.user \in Nat /\ UsersCount \in Nat
      BY TrafficGeneratorAssumption DEF IInv, ShapeInv, Positions
    <3>2. next.command = "user_registered"
      BY <1>2, <2>7, <3>1 DEF LastCommit, UsersInv, WithinInv
    <3> QED
      BY <1>2, <2>7, <3>2, UsersStay DEF LastCommit, End
  <2>8. CASE BatchCommitted
    BY <1>2, <2>8, UsersStay DEF BatchCommitted, Returns, AfterTransaction, Goto, End, UsersInv, WithinInv
  <2>9. CASE BatchRolledBack
    BY <1>2, <2>9, UsersStay DEF BatchRolledBack, Returns, AfterTransaction, Goto, UsersInv, WithinInv
  <2> QED
    BY <1>2, <2>1, <2>2, <2>3, <2>4, <2>5, <2>6, <2>7, <2>8, <2>9 DEF WritingThread
<1>3. CASE Register /\ UNCHANGED <<writeVars, program>>
  BY <1>3, UsersStay DEF Register, publisherVars, threadVars, writeVars, UsersInv, WithinInv
<1>4. CASE Surroundings /\ UNCHANGED <<loopVars, writeVars, program>>
  <2>1. UNCHANGED <<transaction, written, next, program, pc>>
    BY <1>4 DEF Surroundings, Answer, LoseConnection, Receive, threadVars, writeVars
  <2> QED
    BY <2>1, UsersStay DEF UsersInv, WithinInv
<1>5. CASE UNCHANGED vars
  BY <1>5, UsersStay DEF vars, publisherVars, threadVars, writeVars, UsersInv, WithinInv
<1> QED
  BY <1>1, <1>2, <1>3, <1>4, <1>5 DEF Next

\* The traffic generator never delivers a message of a user without the registration, or
\* in another commit: whatever it leaves out, loses or rolls back.
THEOREM UsersAreWholeAlways == Spec => []UsersAreWhole
<1>1. Init => UsersInv
  BY DEF Init, PublisherInit, WriteInit, UsersInv, RegisteredInv, TogetherInv, BetweenInv, WithinInv, User
<1>2. IInv /\ UsersInv => UsersAreWhole
  <2> SUFFICES ASSUME IInv, UsersInv, program = "writeData",
                      NEW i \in DOMAIN delivered, NEW j \in DOMAIN delivered,
                      NEW m \in DOMAIN delivered[i], NEW n \in DOMAIN delivered[j],
                      delivered[i][m].content.user = delivered[j][n].content.user
               PROVE  /\ i = j
                      /\ \E k \in 1..m : delivered[i][k].content = User(delivered[i][m].content.user)
    BY DEF UsersAreWhole
  <2>1. /\ i \in 1..Len(delivered) /\ m \in 1..Len(delivered[i])
        /\ j \in 1..Len(delivered) /\ n \in 1..Len(delivered[j])
    BY SMTT(60) DEF IInv, ShapeInv
  <2>2. PICK t \in 1..transaction : delivered[i] = written[t]
    BY <2>1 DEF IInv, DeliveredInv, WholeInv
  <2>3. PICK u \in 1..transaction : delivered[j] = written[u]
    BY <2>1 DEF IInv, DeliveredInv, WholeInv
  <2>4. t = u
    BY <2>1, <2>2, <2>3, SMTT(60) DEF UsersInv, TogetherInv
  <2>5. delivered[i][m].transaction = t /\ delivered[j][n].transaction = t /\ t \in Nat
    <3>1. m \in 1..Len(written[t]) /\ n \in 1..Len(written[t])
      BY <2>1, <2>2, <2>3, <2>4
    <3> QED
      BY <2>2, <2>3, <2>4, <3>1 DEF IInv, WrittenInv
  <2>6. ~(i < j) /\ ~(j < i)
    BY <2>1, <2>5 DEF IInv, DeliveredInv, InOrderInv
  <2>7. i = j
    BY <2>1, <2>6 DEF IInv, ShapeInv
  <2>8. \E k \in 1..m : delivered[i][k].content = User(delivered[i][m].content.user)
    BY <2>1, <2>2 DEF UsersInv, RegisteredInv
  <2> QED
    BY <2>7, <2>8
<1>3. Spec => []UsersInv
  BY <1>1, InvariantHolds, UsersNext, PTL DEF Spec
<1> QED
  BY <1>2, <1>3, InvariantHolds, PTL

-----------------------------------------------------------------------------
(* What the answers mean                                                   *)

\* The frames on the way that the broker will answer
RequestsOnTheWay == {k \in 1..Len(toBroker) : IsAnswered(toBroker[k])}

\* The unanswered requests are those whose answer is on the way and, behind them, those
\* that are themselves on the way; the last call's is the last one.
AnswersInv ==
    /\ fate = "fine" => connected
    /\ calls \in Nat
    /\ answers \in Nat
    /\ deferreds \in Seq([call : Nat, heard : BOOLEAN])
    /\ Len(deferreds) = answers + Cardinality(RequestsOnTheWay)
    /\ \A i \in 1..Len(deferreds) : deferreds[i].call <= calls
    /\ \A i, j \in 1..Len(deferreds) : i < j => deferreds[i].call < deferreds[j].call

\* A commit that is waited for is on the way or has been received, and has been received
\* when it is answered.
SuccessInv ==
    fate = "fine" /\ request = "commit" /\ pc \in {"attach", "wait"} =>
        \/ \E i \in 1..Len(delivered) : delivered[i] = written[transaction]
        \/ /\ answer # "SUCCESS"
           /\ \E k \in 1..Len(toBroker) :
                toBroker[k].op = "commit" /\ toBroker[k].transaction = transaction

\* Sending a frame adds to the requests on the way if it is one.
LEMMA RequestsGrow ==
    ASSUME ShapeInv, NEW f \in Frames, toBroker' = Append(toBroker, f)
    PROVE  /\ Cardinality(RequestsOnTheWay) \in Nat
           /\ Cardinality(RequestsOnTheWay') =
                Cardinality(RequestsOnTheWay) + (IF IsAnswered(f) THEN 1 ELSE 0)
<1>1. PICK n \in Nat : n = Len(toBroker)
  BY DEF ShapeInv
<1>2. /\ Len(toBroker') = n + 1 /\ toBroker'[n + 1] = f
      /\ \A k \in 1..n : toBroker'[k] = toBroker[k]
  BY <1>1, AppendProperties DEF ShapeInv
<1>3. IsFiniteSet(RequestsOnTheWay)
  <2>1. IsFiniteSet(1..n) /\ RequestsOnTheWay \in SUBSET (1..n)
    BY <1>1, FS_Interval DEF RequestsOnTheWay
  <2> QED
    BY <2>1, FS_Subset
<1>4. n + 1 \notin RequestsOnTheWay
  BY <1>1 DEF RequestsOnTheWay
<1>5. Cardinality(RequestsOnTheWay) \in Nat
  BY <1>3, FS_CardinalityType
<1>6. CASE IsAnswered(f)
  <2>1. RequestsOnTheWay' = RequestsOnTheWay \cup {n + 1}
    BY <1>1, <1>2, <1>6 DEF RequestsOnTheWay, IsAnswered
  <2> QED
    BY <1>3, <1>4, <1>5, <1>6, <2>1, FS_AddElement
<1>7. CASE ~IsAnswered(f)
  <2>1. RequestsOnTheWay' = RequestsOnTheWay
    BY <1>1, <1>2, <1>7 DEF RequestsOnTheWay, IsAnswered
  <2> QED
    BY <1>5, <1>7, <2>1
<1> QED
  BY <1>6, <1>7

\* Where the broker receives a request there is one less on the way.
LEMMA RequestsFall ==
    ASSUME ShapeInv, toBroker # <<>>, toBroker' = Tail(toBroker)
    PROVE  /\ Cardinality(RequestsOnTheWay') \in Nat
           /\ Cardinality(RequestsOnTheWay) =
                Cardinality(RequestsOnTheWay') + (IF IsAnswered(Head(toBroker)) THEN 1 ELSE 0)
<1>1. PICK n \in Nat : n + 1 = Len(toBroker)
  <2>1. Len(toBroker) \in Nat \ {0}
    BY EmptySeq DEF ShapeInv
  <2>2. Len(toBroker) - 1 \in Nat /\ (Len(toBroker) - 1) + 1 = Len(toBroker)
    BY <2>1
  <2> QED
    BY <2>2, Zenon
<1>2. /\ Len(toBroker') = n /\ Head(toBroker) = toBroker[1]
      /\ \A k \in 1..n : toBroker'[k] = toBroker[k + 1]
  BY <1>1 DEF ShapeInv
<1>3. IsFiniteSet(RequestsOnTheWay')
  <2>1. IsFiniteSet(1..n)
    BY FS_Interval
  <2>2. RequestsOnTheWay' \in SUBSET (1..n)
    BY <1>2 DEF RequestsOnTheWay
  <2> QED
    BY <2>1, <2>2, FS_Subset
<1> DEFINE later == RequestsOnTheWay \ {1}
           shift == [k \in RequestsOnTheWay' |-> k + 1]
<1>4. later = {k \in 2..(n + 1) : IsAnswered(toBroker[k])}
  BY <1>1 DEF RequestsOnTheWay
<1>5. RequestsOnTheWay' = {k \in 1..n : IsAnswered(toBroker[k + 1])}
  BY <1>2 DEF RequestsOnTheWay, IsAnswered
<1>6. shift \in Bijection(RequestsOnTheWay', later)
  <2>1. shift \in [RequestsOnTheWay' -> later]
    BY <1>4, <1>5
  <2>2. \A a, b \in RequestsOnTheWay' : shift[a] = shift[b] => a = b
    BY <1>5
  <2>3. ASSUME NEW k \in later PROVE \E a \in RequestsOnTheWay' : shift[a] = k
    <3>1. k - 1 \in RequestsOnTheWay'
      BY <1>4, <1>5
    <3>2. shift[k - 1] = k
      BY <1>4, <3>1
    <3> QED
      BY <3>1, <3>2
  <2> QED
    BY <2>1, <2>2, <2>3, Fun_IsBij DEF later
<1>7. IsFiniteSet(later) /\ Cardinality(later) = Cardinality(RequestsOnTheWay')
  BY <1>3, <1>6, FS_Bijection DEF ExistsBijection
<1>8. Cardinality(RequestsOnTheWay') \in Nat
  BY <1>3, FS_CardinalityType
<1>9. CASE IsAnswered(Head(toBroker))
  <2>1. RequestsOnTheWay = later \cup {1} /\ 1 \notin later
    BY <1>1, <1>2, <1>9 DEF RequestsOnTheWay
  <2> HIDE DEF later
  <2>2. Cardinality(RequestsOnTheWay) = Cardinality(later) + 1
    BY <1>7, <2>1, FS_AddElement
  <2> QED
    BY <1>7, <1>8, <1>9, <2>2
<1>10. CASE ~IsAnswered(Head(toBroker))
  <2>1. RequestsOnTheWay = later
    BY <1>1, <1>2, <1>10 DEF RequestsOnTheWay
  <2> HIDE DEF later
  <2> QED
    BY <1>7, <1>8, <1>10, <2>1
<1> QED
  BY <1>9, <1>10, SMTT(60)

\* No message is answered.
LEMMA MessagesAreNotAnswered ==
    ASSUME NEW f \in Frames
    PROVE  IsAnswered(f) <=> f \in Requests
  BY DEF Frames, Messages, Requests, IsAnswered

\* No request waits for an answer of a later call.
LEMMA DeferredCalls ==
    ASSUME AnswersInv, NEW i \in 1..Len(deferreds)
    PROVE  deferreds[i].call \in Nat /\ deferreds[i].call <= calls
<1>1. deferreds[i] \in [call : Nat, heard : BOOLEAN]
  BY ElementOfSeq DEF AnswersInv
<1> QED
  BY <1>1 DEF AnswersInv

\* A call adds its request behind those that are unanswered.
LEMMA RequestAnswers ==
    ASSUME IInv, AnswersInv, NEW op \in {"select", "commit", "rollback"}, Request(op),
           transaction' \in Nat
    PROVE  AnswersInv'
<1>1. UNCHANGED <<connected, answers, fate>> /\ calls' = calls + 1
  BY DEF Request
<1>2. CASE ~connected
  <2>1. UNCHANGED <<toBroker, deferreds>>
    BY <1>2 DEF Request
  <2>2. RequestsOnTheWay' = RequestsOnTheWay
    BY <2>1 DEF RequestsOnTheWay, IsAnswered
  <2>3. \A i \in 1..Len(deferreds) : deferreds[i].call <= calls + 1
    BY DeferredCalls DEF AnswersInv
  <2> QED
    BY <1>1, <2>1, <2>2, <2>3 DEF AnswersInv
<1>3. CASE connected
  <2> DEFINE d == [call |-> calls + 1, heard |-> FALSE]
  <2>1. RequestFrame(op) \in Frames /\ IsAnswered(RequestFrame(op))
    BY DEF RequestFrame, Frames, Requests, IsAnswered
  <2>2. toBroker' = Append(toBroker, RequestFrame(op)) /\ deferreds' = Append(deferreds, d)
    BY <1>3 DEF Request
  <2>3. Cardinality(RequestsOnTheWay') = Cardinality(RequestsOnTheWay) + 1
        /\ Cardinality(RequestsOnTheWay) \in Nat
    BY <2>1, <2>2, RequestsGrow DEF IInv
  <2>4. PICK n \in Nat : n = Len(deferreds)
    BY DEF AnswersInv
  <2>5. d \in [call : Nat, heard : BOOLEAN]
    BY DEF AnswersInv
  <2>6. /\ deferreds' \in Seq([call : Nat, heard : BOOLEAN])
        /\ Len(deferreds') = n + 1 /\ deferreds'[n + 1] = d
        /\ \A i \in 1..n : deferreds'[i] = deferreds[i]
    BY <2>2, <2>4, <2>5, AppendProperties DEF AnswersInv
  <2>7. \A i \in 1..n : deferreds[i].call \in Nat /\ deferreds[i].call <= calls
    BY <2>4, DeferredCalls
  <2>8. \A i \in 1..(n + 1) : deferreds'[i].call <= calls + 1
    BY <2>6, <2>7, SMTT(60) DEF AnswersInv
  <2>9. ASSUME NEW i \in 1..(n + 1), NEW j \in 1..(n + 1), i < j
        PROVE  deferreds'[i].call < deferreds'[j].call
    <3>1. i \in 1..n
      BY <2>9
    <3>2. CASE j = n + 1
      BY <2>6, <2>7, <3>1, <3>2 DEF AnswersInv
    <3>3. CASE j # n + 1
      <4>1. j \in 1..n
        BY <3>3
      <4>2. deferreds[i].call < deferreds[j].call
        BY <2>4, <2>9, <3>1, <4>1 DEF AnswersInv
      <4> QED
        BY <2>6, <3>1, <4>1, <4>2
    <3> QED
      BY <3>2, <3>3
  <2>10. n + 1 = answers + Cardinality(RequestsOnTheWay')
    BY <2>3, <2>4 DEF AnswersInv
  <2> HIDE DEF d
  <2> QED
    BY <1>1, <2>6, <2>8, <2>9, <2>10 DEF AnswersInv
<1> QED
  BY <1>2, <1>3

\* The last call's request is heard from now on.
LEMMA AttachAnswers ==
    ASSUME IInv, AnswersInv, Attach
    PROVE  AnswersInv'
<1>1. UNCHANGED <<fate, connected, calls, answers, toBroker>>
  BY DEF Attach
<1>2. PICK n \in Nat : n = Len(deferreds) /\ DOMAIN deferreds = 1..n
  BY DEF AnswersInv
<1>3. deferreds' = [i \in 1..n |-> IF deferreds[i].call = calls THEN [deferreds[i] EXCEPT !.heard = TRUE]
                                                               ELSE deferreds[i]]
  BY <1>2 DEF Attach
<1>4. ASSUME NEW i \in 1..n
      PROVE  deferreds'[i] \in [call : Nat, heard : BOOLEAN] /\ deferreds'[i].call = deferreds[i].call
  <2>1. deferreds[i] \in [call : Nat, heard : BOOLEAN]
    BY <1>2, ElementOfSeq DEF AnswersInv
  <2> QED
    BY <1>3, <2>1
<1>5. deferreds' \in Seq([call : Nat, heard : BOOLEAN]) /\ Len(deferreds') = n
  <2>1. deferreds' \in [1..n -> [call : Nat, heard : BOOLEAN]]
    BY <1>3, <1>4
  <2>2. deferreds' \in Seq([call : Nat, heard : BOOLEAN])
    BY <2>1, SeqDef, ZenonT(60)
  <2>3. Len(deferreds') \in Nat /\ 1..Len(deferreds') = 1..n
    BY <2>1, <2>2, LenProperties
  <2> QED
    BY <2>2, <2>3
<1>6. RequestsOnTheWay' = RequestsOnTheWay
  BY <1>1 DEF RequestsOnTheWay, IsAnswered
<1> QED
  BY <1>1, <1>2, <1>4, <1>5, <1>6 DEF AnswersInv

\* An answer is that of the first unanswered request; where it is the last call's, nothing is
\* left on the way.
LEMMA AnswerAnswers ==
    ASSUME IInv, AnswersInv, Answer
    PROVE  /\ AnswersInv'
           /\ Head(deferreds).call = calls => RequestsOnTheWay = {}
<1>1. /\ UNCHANGED <<connected, calls, toBroker>> /\ answers > 0 /\ answers' = answers - 1
      /\ deferreds' = Tail(deferreds) /\ (fate' = "fine" => fate = "fine")
  BY DEF Answer, Stray
<1>2. IsFiniteSet(RequestsOnTheWay) /\ Cardinality(RequestsOnTheWay) \in Nat
  <2>1. Len(toBroker) \in Nat
    BY DEF IInv, ShapeInv
  <2>2. IsFiniteSet(1..Len(toBroker)) /\ RequestsOnTheWay \in SUBSET (1..Len(toBroker))
    BY <2>1, FS_Interval DEF RequestsOnTheWay
  <2> QED
    BY <2>2, FS_Subset, FS_CardinalityType
<1>3. PICK n \in Nat : n + 1 = Len(deferreds) /\ n = (answers - 1) + Cardinality(RequestsOnTheWay)
  <2>1. Len(deferreds) = answers + Cardinality(RequestsOnTheWay) /\ answers \in Nat \ {0}
    BY <1>1 DEF AnswersInv
  <2>2. (answers - 1) + Cardinality(RequestsOnTheWay) \in Nat
    BY <1>2, <2>1
  <2> QED
    BY <1>2, <2>1, <2>2
<1>4. /\ deferreds' \in Seq([call : Nat, heard : BOOLEAN]) /\ Len(deferreds') = n
      /\ \A i \in 1..n : deferreds'[i] = deferreds[i + 1]
      /\ Head(deferreds) = deferreds[1]
  <2>1. deferreds \in Seq([call : Nat, heard : BOOLEAN]) /\ deferreds # <<>>
    BY <1>3 DEF AnswersInv
  <2> QED
    BY <1>1, <1>3, <2>1
<1>5. RequestsOnTheWay' = RequestsOnTheWay
  BY <1>1 DEF RequestsOnTheWay, IsAnswered
<1>6. \A i \in 1..(n + 1) : deferreds[i].call \in Nat /\ deferreds[i].call <= calls
  BY <1>3, DeferredCalls
<1>7. \A i, j \in 1..(n + 1) : i < j => deferreds[i].call < deferreds[j].call
  BY <1>3 DEF AnswersInv
<1>8. AnswersInv'
  <2>1. \A i \in 1..n : deferreds'[i].call <= calls
    BY <1>4, <1>6
  <2>2. \A i, j \in 1..n : i < j => deferreds'[i].call < deferreds'[j].call
    <3> SUFFICES ASSUME NEW i \in 1..n, NEW j \in 1..n, i < j
                 PROVE  deferreds'[i].call < deferreds'[j].call
      OBVIOUS
    <3>1. i + 1 \in 1..(n + 1) /\ j + 1 \in 1..(n + 1) /\ i + 1 < j + 1
      OBVIOUS
    <3> QED
      BY <1>4, <1>7, <3>1
  <2>3. answers' \in Nat
    BY <1>1 DEF AnswersInv
  <2>4. Len(deferreds') = answers' + Cardinality(RequestsOnTheWay')
    BY <1>1, <1>3, <1>4, <1>5
  <2> QED
    BY <1>1, <1>4, <1>5, <2>1, <2>2, <2>3, <2>4 DEF AnswersInv
<1>9. ASSUME Head(deferreds).call = calls PROVE RequestsOnTheWay = {}
  <2>1. calls \in Nat
    BY DEF AnswersInv
  <2>2. ~(n >= 1)
    <3> SUFFICES ASSUME n >= 1 PROVE FALSE
      OBVIOUS
    <3>1. deferreds[1].call < deferreds[2].call /\ deferreds[2].call <= calls /\ deferreds[2].call \in Nat
      BY <1>6, <1>7
    <3> QED
      BY <1>4, <1>9, <2>1, <3>1
  <2>3. answers - 1 \in Nat
    BY <1>1 DEF AnswersInv
  <2>4. Cardinality(RequestsOnTheWay) = 0
    BY <1>2, <1>3, <2>2, <2>3
  <2> QED
    BY <1>2, <2>4, FS_EmptySet
<1> QED
  BY <1>8, <1>9

\* What a step of a thread does with the publisher
LEMMA ThreadSteps ==
    ASSUME IInv, Loop \/ Write
    PROVE  \/ \E op \in {"select", "commit", "rollback"} :
                Request(op) /\ transaction' \in Nat
                /\ (op = "commit" => UNCHANGED <<transaction, written>>)
           \/ Attach
           \/ \E l \in {"idle", "publish", "end"} : Goto(l)
           \/ \E content \in Nat \cup Positions : Publish(content)
           \/ /\ pc = "publish"
              /\ UNCHANGED <<transaction, pc, request, calls, answer, written,
                             channelVars, brokerVars, fate>>
<1> USE DEF IInv, ShapeInv
<1>1. ASSUME StartTransaction PROVE Request("select") /\ transaction' \in Nat
  BY <1>1 DEF StartTransaction
<1>2. ASSUME NEW op \in {"commit", "rollback"}, End(op)
      PROVE  Request(op) /\ transaction' \in Nat /\ UNCHANGED <<transaction, written>>
  BY <1>2 DEF End
<1>3. CASE Loop
  <2>1. CASE BeginRound
    BY <1>1, <2>1 DEF BeginRound
  <2>2. CASE Attach
    BY <2>2
  <2>3. CASE RoundStarted
    BY <2>3 DEF RoundStarted
  <2>4. CASE PublishLeaderboard
    BY <2>4 DEF PublishLeaderboard
  <2>5. CASE LeaderboardFails
    BY <2>5 DEF LeaderboardFails, AfterPublishFailed
  <2>6. CASE CommitRound
    BY <1>2, <2>6 DEF CommitRound
  <2>7. CASE RoundCommitted
    BY <1>2, <2>7 DEF RoundCommitted
  <2>8. CASE RoundRolledBack
    BY <2>8 DEF RoundRolledBack
  <2> QED
    BY <1>3, <2>1, <2>2, <2>3, <2>4, <2>5, <2>6, <2>7, <2>8 DEF Loop, LoopThread
<1>4. CASE Write
  <2>1. CASE StartWriting
    BY <1>1, <2>1 DEF StartWriting
  <2>2. CASE AttachWriting
    BY <2>2 DEF AttachWriting
  <2>3. CASE WritingStarted
    BY <1>2, <2>3 DEF WritingStarted
  <2>4. CASE PublishNext
    BY <2>4 DEF PublishNext
  <2>5. CASE NextFails
    BY <2>5 DEF NextFails, FailToPublish
  <2>6. CASE UserWritten
    BY <1>2, <2>6 DEF UserWritten
  <2>7. CASE LastCommit
    BY <1>2, <2>7 DEF LastCommit
  <2>8. CASE BatchCommitted
    BY <1>2, <2>8 DEF BatchCommitted, AfterTransaction
  <2>9. CASE BatchRolledBack
    BY <2>9 DEF BatchRolledBack, AfterTransaction
  <2> QED
    BY <1>4, <2>1, <2>2, <2>3, <2>4, <2>5, <2>6, <2>7, <2>8, <2>9 DEF Write, WritingThread
<1> QED
  BY <1>3, <1>4

\* A step that neither sends nor receives
LEMMA QuietAnswers ==
    ASSUME AnswersInv, UNCHANGED <<calls, connected, deferreds, toBroker, answers, fate>>
    PROVE  AnswersInv'
<1>1. RequestsOnTheWay' = RequestsOnTheWay
  BY DEF RequestsOnTheWay, IsAnswered
<1> QED
  BY <1>1 DEF AnswersInv

\* AnswersInv is inductive with the invariant.
LEMMA AnswersNext == IInv /\ AnswersInv /\ [Next]_vars => AnswersInv'
<1> SUFFICES ASSUME IInv, AnswersInv, [Next]_vars PROVE AnswersInv'
  OBVIOUS
<1>1. CASE Loop \/ Write
  <2>1. ASSUME NEW op \in {"select", "commit", "rollback"}, Request(op), transaction' \in Nat
        PROVE  AnswersInv'
    BY <2>1, RequestAnswers
  <2>2. CASE Attach
    BY <2>2, AttachAnswers
  <2>3. ASSUME NEW l \in {"idle", "publish", "end"}, Goto(l) PROVE AnswersInv'
    BY <2>3, QuietAnswers DEF Goto, channelVars
  <2>4. ASSUME NEW content \in Nat \cup Positions, Publish(content) PROVE AnswersInv'
    <3>1. /\ UNCHANGED <<calls, connected, deferreds, answers, fate>>
          /\ toBroker' = Append(toBroker, MessageFrame(content))
      BY <2>4 DEF Publish
    <3>2. MessageFrame(content) \in Frames /\ ~IsAnswered(MessageFrame(content))
      BY DEF MessageFrame, Frames, Messages, IsAnswered, IInv, ShapeInv
    <3>3. Cardinality(RequestsOnTheWay') = Cardinality(RequestsOnTheWay)
      BY <3>1, <3>2, RequestsGrow DEF IInv
    <3> QED
      BY <3>1, <3>3 DEF AnswersInv
  <2>5. CASE UNCHANGED <<transaction, pc, request, calls, answer, written, channelVars, brokerVars, fate>>
    BY <2>5, QuietAnswers DEF channelVars
  <2> QED
    BY <1>1, <2>1, <2>2, <2>3, <2>4, <2>5, ThreadSteps
<1>2. CASE Register
  BY <1>2, QuietAnswers DEF Register, publisherVars, threadVars, channelVars
<1>3. CASE Answer
  BY <1>3, AnswerAnswers
<1>4. CASE LoseConnection
  <2>1. /\ toBroker' = <<>> /\ answers' = 0 /\ deferreds' = <<>> /\ fate' # "fine" /\ calls' = calls
    BY <1>4 DEF LoseConnection
  <2>2. Cardinality(RequestsOnTheWay') = 0
    <3>1. RequestsOnTheWay' = {}
      BY <2>1 DEF RequestsOnTheWay
    <3> QED
      BY <3>1, FS_EmptySet
  <2> QED
    BY <2>1, <2>2, EmptySeq DEF AnswersInv
<1>5. CASE Receive
  <2>1. /\ UNCHANGED <<calls, connected, deferreds, fate>>
        /\ toBroker # <<>> /\ toBroker' = Tail(toBroker)
        /\ answers' = answers + (IF IsAnswered(Head(toBroker)) THEN 1 ELSE 0)
    BY <1>5 DEF Receive, threadVars
  <2>2. /\ Cardinality(RequestsOnTheWay') \in Nat
        /\ Cardinality(RequestsOnTheWay) =
             Cardinality(RequestsOnTheWay') + (IF IsAnswered(Head(toBroker)) THEN 1 ELSE 0)
    BY <2>1, RequestsFall DEF IInv
  <2>3. answers' \in Nat /\ Len(deferreds') = answers' + Cardinality(RequestsOnTheWay')
    BY <2>1, <2>2, SMTT(60) DEF AnswersInv
  <2> QED
    BY <2>1, <2>3 DEF AnswersInv
<1>6. CASE UNCHANGED vars
  BY <1>6, QuietAnswers DEF vars, publisherVars, threadVars, channelVars
<1> QED
  BY <1>1, <1>2, <1>3, <1>4, <1>5, <1>6 DEF Next, Surroundings

\* The broker delivers the commit that is waited for, or it stays on the way.
LEMMA ReceiveSuccess ==
    ASSUME IInv, SuccessInv, Receive
    PROVE  SuccessInv'
<1> SUFFICES ASSUME fate = "fine", request = "commit", pc \in {"attach", "wait"}
             PROVE  \/ \E i \in 1..Len(delivered') : delivered'[i] = written[transaction]
                    \/ /\ answer # "SUCCESS"
                       /\ \E k \in 1..Len(toBroker') :
                            toBroker'[k].op = "commit" /\ toBroker'[k].transaction = transaction
  BY DEF SuccessInv, Receive, threadVars
<1>1. /\ toBroker # <<>> /\ toBroker' = Tail(toBroker)
      /\ \/ delivered' = delivered
         \/ delivered' = Append(delivered, <<Head(toBroker)>>)
         \/ delivered' = Append(delivered, pending)
      /\ Head(toBroker).op = "commit" => delivered' = Append(delivered, pending)
  BY DEF Receive
<1>2. delivered \in Seq(Seq(Messages)) /\ pending \in Seq(Messages)
  BY DEF IInv, ShapeInv
<1>3. PICK n \in Nat : n = Len(delivered)
  BY <1>2
<1>4. Len(delivered') \in {n, n + 1} /\ \A i \in 1..n : delivered'[i] = delivered[i]
  <2>1. CASE delivered' = Append(delivered, <<Head(toBroker)>>)
    <3>1. Len(Append(delivered, <<Head(toBroker)>>)) = Len(delivered) + 1
      BY <1>2
    <3>2. \A i \in 1..Len(delivered) : Append(delivered, <<Head(toBroker)>>)[i] = delivered[i]
      BY <1>2
    <3> QED
      BY <1>3, <2>1, <3>1, <3>2
  <2>2. CASE delivered' = Append(delivered, pending)
    BY <1>2, <1>3, <2>2, AppendProperties
  <2> QED
    BY <1>1, <1>3, <2>1, <2>2
<1>5. CASE \E i \in 1..Len(delivered) : delivered[i] = written[transaction]
  BY <1>3, <1>4, <1>5
<1>6. ASSUME answer # "SUCCESS",
             NEW k \in 1..Len(toBroker), toBroker[k].op = "commit", toBroker[k].transaction = transaction
      PROVE  \/ \E i \in 1..Len(delivered') : delivered'[i] = written[transaction]
             \/ /\ answer # "SUCCESS"
                /\ \E j \in 1..Len(toBroker') :
                     toBroker'[j].op = "commit" /\ toBroker'[j].transaction = transaction
  <2>1. toBroker \in Seq(Frames)
    BY DEF IInv, ShapeInv
  <2>2. CASE k = 1
    <3>1. Head(toBroker) = toBroker[1]
      BY <1>1, <2>1
    <3>2. pending = written[transaction] /\ delivered' = Append(delivered, pending)
      BY <1>1, <1>6, <2>2, <3>1, CommitTakesAll
    <3>3. Len(delivered') = n + 1 /\ delivered'[n + 1] = written[transaction]
      BY <1>2, <1>3, <3>2, AppendProperties
    <3> QED
      BY <3>3
  <2>3. CASE k # 1
    <3>1. k - 1 \in 1..Len(toBroker') /\ toBroker'[k - 1] = toBroker[k]
      BY <1>1, <2>1, <2>3
    <3> QED
      BY <1>6, <3>1
  <2> QED
    BY <2>2, <2>3
<1> QED
  BY <1>5, <1>6 DEF SuccessInv

\* SuccessInv is inductive with the other two.
LEMMA SuccessNext == IInv /\ AnswersInv /\ SuccessInv /\ [Next]_vars => SuccessInv'
<1> SUFFICES ASSUME IInv, AnswersInv, SuccessInv, [Next]_vars PROVE SuccessInv'
  OBVIOUS
<1>1. CASE Loop \/ Write
  <2>1. ASSUME NEW op \in {"select", "commit", "rollback"}, Request(op),
               op = "commit" => UNCHANGED <<transaction, written>>
        PROVE  SuccessInv'
    <3> SUFFICES ASSUME fate' = "fine", op = "commit" PROVE SuccessInv'
      BY <2>1 DEF Request, SuccessInv
    <3>1. connected
      BY <2>1 DEF Request, AnswersInv
    <3>2. /\ toBroker' = Append(toBroker, RequestFrame(op)) /\ answer' = "none"
          /\ RequestFrame(op) = [op |-> "commit", transaction |-> transaction]
          /\ UNCHANGED <<transaction, written>>
      BY <2>1, <3>1 DEF Request, RequestFrame
    <3>3. Len(toBroker) \in Nat /\ Len(toBroker') = Len(toBroker) + 1
          /\ toBroker'[Len(toBroker) + 1] = RequestFrame(op)
      BY <3>2 DEF IInv, ShapeInv
    <3>4. Len(toBroker) + 1 \in 1..Len(toBroker')
      BY <3>3
    <3>5. toBroker'[Len(toBroker) + 1].op = "commit" /\ toBroker'[Len(toBroker) + 1].transaction = transaction'
      BY <3>2, <3>3
    <3> QED
      BY <3>2, <3>4, <3>5 DEF SuccessInv
  <2>2. CASE Attach
    BY <2>2 DEF Attach, SuccessInv, brokerVars
  <2>3. ASSUME NEW l \in {"idle", "publish", "end"}, Goto(l) PROVE SuccessInv'
    BY <2>3 DEF Goto, SuccessInv
  <2>4. ASSUME NEW content \in Nat \cup Positions, Publish(content) PROVE SuccessInv'
    BY <2>4 DEF Publish, SuccessInv
  <2>5. CASE /\ pc = "publish"
             /\ UNCHANGED <<transaction, pc, request, calls, answer, written,
                            channelVars, brokerVars, fate>>
    BY <2>5 DEF SuccessInv
  <2> QED
    BY <1>1, <2>1, <2>2, <2>3, <2>4, <2>5, ThreadSteps
<1>2. CASE Register \/ UNCHANGED vars
  BY <1>2 DEF Register, vars, publisherVars, threadVars, channelVars, brokerVars, SuccessInv
<1>3. CASE Answer
  <2> SUFFICES ASSUME fate' = "fine" PROVE SuccessInv'
    BY DEF SuccessInv
  <2>1. /\ UNCHANGED <<transaction, pc, request, written, toBroker, delivered, fate>>
        /\ fate = "fine"
        /\ answer' # answer => Head(deferreds).call = calls
    BY <1>3 DEF Answer, Stray, IsOver, brokerVars
  <2>2. CASE answer' = answer
    BY <2>1, <2>2 DEF SuccessInv
  <2>3. CASE answer' # answer
    <3>1. RequestsOnTheWay = {}
      BY <1>3, <2>1, <2>3, AnswerAnswers
    <3>2. \A k \in 1..Len(toBroker) : toBroker[k].op # "commit"
      BY <3>1 DEF RequestsOnTheWay, IsAnswered
    <3> QED
      BY <2>1, <3>2 DEF SuccessInv
  <2> QED
    BY <2>2, <2>3
<1>4. CASE LoseConnection
  BY <1>4 DEF LoseConnection, SuccessInv
<1>5. CASE Receive
  BY <1>5, ReceiveSuccess
<1> QED
  BY <1>1, <1>2, <1>3, <1>4, <1>5 DEF Next, Surroundings

\* When a commit returns SUCCESS its transaction is delivered, as long as no late answer was
\* taken for another one: what is answered was received, and what was received whole.
THEOREM SuccessMeansDeliveredAlways == Spec => SuccessMeansDelivered
<1> DEFINE Promise == Returns("commit") /\ pc' \in {"idle", "end"} =>
                        fate # "fine" \/ \E i \in DOMAIN delivered : delivered[i] = written[transaction]
<1>1. Init => AnswersInv /\ SuccessInv
  <2> SUFFICES ASSUME Init PROVE AnswersInv /\ SuccessInv
    OBVIOUS
  <2>1. RequestsOnTheWay = {}
    BY DEF Init, PublisherInit, RequestsOnTheWay
  <2>2. Cardinality(RequestsOnTheWay) = 0
    BY <2>1, FS_EmptySet
  <2> QED
    BY <2>2, EmptySeq DEF Init, PublisherInit, AnswersInv, SuccessInv
<1>2. Spec => [](AnswersInv /\ SuccessInv)
  BY <1>1, InvariantHolds, AnswersNext, SuccessNext, PTL DEF Spec
<1>3. IInv /\ SuccessInv /\ [Next]_vars => Promise
  <2> SUFFICES ASSUME IInv, SuccessInv, [Next]_vars, Returns("commit"), pc' \in {"idle", "end"},
                      fate = "fine"
               PROVE  \E i \in DOMAIN delivered : delivered[i] = written[transaction]
    OBVIOUS
  <2>1. pc = "wait" /\ request = "commit"
    BY DEF Returns
  <2>2. pc' # pc
    BY <2>1
  <2>3. answer = "SUCCESS"
    <3>1. CASE Loop
      <4>1. ResultOf = "SUCCESS"
        BY <2>1, <3>1 DEF Loop, LoopThread, BeginRound, StartTransaction, Attach, RoundStarted, Returns,
           PublishLeaderboard, Publish, LeaderboardFails, FailToPublish, CommitRound,
           RoundCommitted, RoundRolledBack, End, Request
      <4> QED
        BY <4>1 DEF ResultOf
    <3>2. CASE Write
      <4>1. ResultOf = "SUCCESS"
        BY <2>1, <3>2 DEF Write, WritingThread, StartWriting, StartTransaction, AttachWriting, Attach,
           WritingStarted, Returns, PublishNext, Publish, NextFails, FailToPublish, UserWritten,
           LastCommit, BatchCommitted, BatchRolledBack, End, Request
      <4> QED
        BY <4>1 DEF ResultOf
    <3>3. CASE Register
      BY <2>2, <3>3 DEF Register, publisherVars, threadVars
    <3>4. CASE Surroundings
      BY <2>2, <3>4 DEF Surroundings, Answer, LoseConnection, Receive, threadVars
    <3>5. CASE UNCHANGED vars
      BY <2>2, <3>5 DEF vars, publisherVars, threadVars
    <3> QED
      BY <3>1, <3>2, <3>3, <3>4, <3>5 DEF Next
  <2>4. \E i \in 1..Len(delivered) : delivered[i] = written[transaction]
    BY <2>1, <2>3 DEF SuccessInv
  <2> QED
    BY <2>4 DEF IInv, ShapeInv
<1>4. SuccessMeansDelivered <=> [][Promise]_vars
  BY DEF SuccessMeansDelivered
<1> QED
  BY <1>2, <1>3, <1>4, InvariantHolds, PTL DEF Spec

=============================================================================
