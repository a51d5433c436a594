-------------------------- MODULE LifecycleProofs --------------------------
(***************************************************************************)
(* Proofs about Lifecycle.  They follow the calls a thread still has to    *)
(* make: which call comes after which in Main, SignalHandler and           *)
(* Destruction is established once, and the invariants then say what holds *)
(* when a call is no longer ahead.                                         *)
(***************************************************************************)
EXTENDS Lifecycle, SequenceTheorems, TLAPS

-----------------------------------------------------------------------------
(* The rest of a sequence of calls                                         *)

Ops == {"initialize", "configure", "start", "registerCallback", "declareExchange",
        "declareQueue", "bindQueue", "consume", "registerPublisher", "signal", "writeData",
        "stop", "join", "stopped", "deinitialize", "exit", "destroy"}

Calls == (Parts \cup Threads \cup {"main"}) \X Ops

\* What is left of the sequence S from its k-th call on
From(S, k) == SubSeq(S, k, Len(S))

\* s is what is left of the sequence S, and something is.
IsRest(s, S) == \E k \in 1..Len(S) : s = From(S, k)

LEMMA FromIsSequence ==
    ASSUME NEW S \in Seq(Calls), NEW k \in 1..Len(S)
    PROVE  /\ From(S, k) \in Seq(Calls) /\ From(S, k) # <<>> /\ Head(From(S, k)) = S[k]
           /\ Tail(From(S, k)) = From(S, k + 1)
           /\ Range(From(S, k)) = {S[i] : i \in k..Len(S)}
<1> DEFINE s == From(S, k)
           n == Len(S)
<1>0. n \in Nat /\ k \in 1..n /\ k \in Int /\ n \in Int /\ n \in k..n /\ k <= n
  BY LenProperties
<1>1. /\ s \in Seq(Calls) /\ Len(s) = n - k + 1
      /\ \A i \in 1..(n - k + 1) : s[i] = S[k + i - 1]
  <2>1. \A i \in k..n : S[i] \in Calls
    BY <1>0, ElementOfSeq
  <2> QED
    BY <1>0, <2>1, SubSeqProperties DEF From
<1>2. Head(s) = S[k] /\ Tail(s) = From(S, k + 1)
  BY <1>0, HeadTailOfSubSeq DEF From
<1> HIDE DEF s
<1>3. s # <<>>
  BY <1>0, <1>1
<1>4. Range(s) = {S[i] : i \in k..n}
  <2>1. DOMAIN s = 1..(n - k + 1)
    BY <1>1, LenProperties
  <2>2. Range(s) = {s[i] : i \in 1..(n - k + 1)}
    BY <2>1 DEF Range
  <2>3. ASSUME NEW i \in k..n PROVE S[i] \in Range(s)
    <3>1. i - k + 1 \in 1..(n - k + 1) /\ k + (i - k + 1) - 1 = i
      BY <1>0
    <3> QED
      BY <1>1, <2>2, <3>1
  <2>4. ASSUME NEW i \in 1..(n - k + 1) PROVE s[i] \in {S[j] : j \in k..n}
    <3>1. k + i - 1 \in k..n
      BY <1>0
    <3> QED
      BY <1>1, <3>1
  <2> QED
    BY <2>2, <2>3, <2>4
<1> QED
  BY <1>1, <1>2, <1>3, <1>4 DEF s

\* In S the call a is made before b: where both are, a comes first.
Before(S, a, b) == \A i, j \in 1..Len(S) : S[i] = a /\ S[j] = b => i < j

\* In S the call is made once or never.
Once(S, call) == \A i, j \in 1..Len(S) : S[i] = call /\ S[j] = call => i = j

\* In S the call is made at n or, with n = 0, never.
At(S, call, n) == \A k \in 1..Len(S) : S[k] = call => k = n

LEMMA OrderOfPositions ==
    ASSUME NEW S, NEW a, NEW m \in Nat, At(S, a, m)
    PROVE  /\ Once(S, a)
           /\ \A b, n : At(S, b, n) /\ n \in Nat /\ m < n => Before(S, a, b)
           /\ m = 0 => \A b : Before(S, a, b) /\ Before(S, b, a)
<1>1. Once(S, a)
  BY DEF At, Once
<1>2. ASSUME NEW b, NEW n \in Nat, At(S, b, n), m < n PROVE Before(S, a, b)
  BY <1>2 DEF At, Before
<1>3. ASSUME m = 0, NEW b PROVE Before(S, a, b) /\ Before(S, b, a)
  <2>1. \A i \in 1..Len(S) : i # 0
    OBVIOUS
  <2> QED
    BY <1>3, <2>1 DEF At, Before
<1> QED
  BY <1>1, <1>2, <1>3

\* The calls that are left are the next one and those after it.
LEMMA RestGoesOn ==
    ASSUME NEW S \in Seq(Calls), NEW s, IsRest(s, S)
    PROVE  /\ s \in Seq(Calls) /\ s # <<>> /\ Head(s) \in Range(s) /\ Range(s) \subseteq Calls
           /\ Range(s) = {Head(s)} \cup Range(Tail(s))
           /\ S[Len(S)] \in Range(s)
           /\ Tail(s) = <<>> \/ IsRest(Tail(s), S)
           /\ Tail(s) = <<>> => Head(s) = S[Len(S)]
           /\ Once(S, Head(s)) => Head(s) \notin Range(Tail(s))
<1>0. Len(S) \in Nat
  BY LenProperties
<1>1. PICK k \in 1..Len(S) : s = From(S, k)
  BY DEF IsRest
<1>2. /\ s \in Seq(Calls) /\ s # <<>> /\ Head(s) = S[k]
      /\ Tail(s) = From(S, k + 1)
      /\ Range(s) = {S[i] : i \in k..Len(S)}
  BY <1>1, FromIsSequence
<1>3. Head(s) \in Range(s) /\ S[Len(S)] \in Range(s)
  <2>1. k \in k..Len(S) /\ Len(S) \in k..Len(S)
    BY <1>0
  <2> QED
    BY <1>2, <2>1
<1>4. Range(s) \subseteq Calls
  BY <1>0, <1>2, ElementOfSeq
<1>5. CASE k = Len(S)
  <2>1. Tail(s) = <<>>
    BY <1>0, <1>2, <1>5, SubSeqEmpty DEF From
  <2>2. Range(Tail(s)) = {}
    BY <2>1 DEF Range
  <2>3. Range(s) = {S[k]}
    BY <1>0, <1>2, <1>5
  <2> QED
    BY <1>2, <1>3, <1>4, <1>5, <2>1, <2>2, <2>3
<1>6. CASE k # Len(S)
  <2>1. k + 1 \in 1..Len(S)
    BY <1>0, <1>6
  <2>2. IsRest(Tail(s), S)
    BY <1>2, <2>1 DEF IsRest
  <2>3. Range(Tail(s)) = {S[i] : i \in (k + 1)..Len(S)} /\ Tail(s) # <<>>
    BY <1>2, <2>1, FromIsSequence
  <2>4. Range(s) = {S[k]} \cup {S[i] : i \in (k + 1)..Len(S)}
    BY <1>0, <1>2
  <2>5. ASSUME Once(S, S[k]), NEW i \in (k + 1)..Len(S) PROVE S[i] # S[k]
    <3>1. i \in 1..Len(S) /\ i # k
      BY <1>0
    <3> QED
      BY <2>5, <3>1 DEF Once
  <2> QED
    BY <1>2, <1>3, <1>4, <2>2, <2>3, <2>4, <2>5
<1> QED
  BY <1>5, <1>6

\* At the beginning everything is left.
LEMMA AllIsLeft ==
    ASSUME NEW S \in Seq(Calls), Len(S) > 0
    PROVE  IsRest(S, S) /\ Range(S) = {S[i] : i \in 1..Len(S)}
<1>1. 1 \in 1..Len(S) /\ S = From(S, 1)
  BY LenProperties, SubSeqFull DEF From
<1> QED
  BY <1>1, FromIsSequence DEF IsRest

\* What comes before the next call is not left.
LEMMA EarlierIsPast ==
    ASSUME NEW S \in Seq(Calls), NEW s, IsRest(s, S), NEW call, Before(S, call, Head(s))
    PROVE  call \notin Range(s)
<1>1. PICK k \in 1..Len(S) : s = From(S, k)
  BY DEF IsRest
<1>2. Len(S) \in Nat /\ Head(s) = S[k] /\ Range(s) = {S[i] : i \in k..Len(S)}
  BY <1>1, FromIsSequence, LenProperties
<1>3. ASSUME NEW i \in k..Len(S), S[i] = call PROVE FALSE
  <2>1. i \in 1..Len(S) /\ ~(i < k)
    BY <1>2
  <2> QED
    BY <1>2, <1>3, <2>1 DEF Before
<1> QED
  BY <1>2, <1>3

\* The last call comes after every other one.
LEMMA LastIsLast ==
    ASSUME NEW S \in Seq(Calls), NEW s, IsRest(s, S), Once(S, S[Len(S)]), Head(s) = S[Len(S)]
    PROVE  Tail(s) = <<>>
<1>1. S[Len(S)] \notin Range(Tail(s))
  BY RestGoesOn
<1> QED
  BY <1>1, RestGoesOn

-----------------------------------------------------------------------------
(* The order of the calls                                                  *)

\* s is a sequence of n calls.
IsCalls(s, n) == s \in Seq(Calls) /\ n \in Nat /\ Len(s) = n

LEMMA ConcatCalls ==
    \A s, t, m, n : IsCalls(s, m) /\ IsCalls(t, n) => IsCalls(s \o t, m + n)
<1> SUFFICES ASSUME NEW s, NEW t, NEW m, NEW n, IsCalls(s, m), IsCalls(t, n)
             PROVE  IsCalls(s \o t, m + n)
  OBVIOUS
<1>1. s \in Seq(Calls) /\ t \in Seq(Calls) /\ m \in Nat /\ n \in Nat
  BY DEF IsCalls
<1>2. s \o t \in Seq(Calls) /\ Len(s \o t) = Len(s) + Len(t)
  BY <1>1, ConcatProperties
<1>3. m + n \in Nat /\ Len(s) = m /\ Len(t) = n
  BY <1>1 DEF IsCalls
<1> QED
  BY <1>2, <1>3, Zenon DEF IsCalls

LEMMA ShortSequences ==
    /\ \A a \in Calls : IsCalls(<<a>>, 1)
    /\ \A a, b \in Calls : IsCalls(<<a, b>>, 2)
    /\ \A a, b, c \in Calls : IsCalls(<<a, b, c>>, 3)
    /\ \A a, b, c, d \in Calls : IsCalls(<<a, b, c, d>>, 4)
    /\ \A a, b, c, d, e \in Calls : IsCalls(<<a, b, c, d, e>>, 5)
    /\ \A a, b, c, d, e, f \in Calls : IsCalls(<<a, b, c, d, e, f>>, 6)
  BY DEF IsCalls

LEMMA AreCalls ==
    \A p \in Parts \cup Threads \cup {"main"}, op \in Ops : Call(p, op) \in Calls
  BY DEF Call, Calls

\* The pieces of Main
LEMMA StartOfMainIsSequence ==
    /\ IsCalls(StartLogger, 2)
    /\ IsCalls(ApplicationInitialize, 4)
    /\ IsCalls(ApplicationConfigure, 6)
    /\ IsCalls(PrepareExchangeQueue, 3)
    /\ IsCalls(GeneratorInitialize, 2)
    /\ IsCalls(GeneratorConfigure, 2)
    /\ IsCalls(GeneratorStart, 4)
<1>1. IsCalls(StartLogger, 2)
  BY AreCalls, ShortSequences DEF StartLogger, Parts, Threads, Ops
<1>2. IsCalls(ApplicationInitialize, 4)
  BY AreCalls, ShortSequences DEF ApplicationInitialize, Parts, Threads, Ops
<1>3. IsCalls(ApplicationConfigure, 6)
  BY AreCalls, ShortSequences DEF ApplicationConfigure, Parts, Threads, Ops
<1>4. IsCalls(PrepareExchangeQueue, 3)
  BY AreCalls, ShortSequences DEF PrepareExchangeQueue, Parts, Threads, Ops
<1>5. IsCalls(GeneratorInitialize, 2)
  BY AreCalls, ShortSequences DEF GeneratorInitialize, Parts, Threads, Ops
<1>6. IsCalls(GeneratorConfigure, 2)
  BY AreCalls, ShortSequences DEF GeneratorConfigure, Parts, Threads, Ops
<1>7. IsCalls(GeneratorStart, 4)
  BY AreCalls, ShortSequences DEF GeneratorStart, Parts, Threads, Ops
<1> QED
  BY <1>1, <1>2, <1>3, <1>4, <1>5, <1>6, <1>7

\* The pieces of SignalHandler and Destruction
LEMMA StopsAreSequences ==
    /\ IsCalls(LogicStop, 4)
    /\ IsCalls(GeneratorStop, 1)
    /\ IsCalls(StopLoop, 2)
    /\ IsCalls(ApplicationDeinitialize, 2)
    /\ IsCalls(GeneratorDeinitialize, 1)
<1>1. IsCalls(LogicStop, 4)
  BY AreCalls, ShortSequences DEF LogicStop, Parts, Threads, Ops
<1>2. IsCalls(GeneratorStop, 1)
  BY AreCalls, ShortSequences DEF GeneratorStop, Parts, Threads, Ops
<1>3. IsCalls(StopLoop, 2)
  BY AreCalls, ShortSequences DEF StopLoop, Parts, Threads, Ops
<1>4. IsCalls(ApplicationDeinitialize, 2)
  BY AreCalls, ShortSequences DEF ApplicationDeinitialize, Parts, Threads, Ops
<1>5. IsCalls(GeneratorDeinitialize, 1)
  BY AreCalls, ShortSequences DEF GeneratorDeinitialize, Parts, Threads, Ops
<1> QED
  BY <1>1, <1>2, <1>3, <1>4, <1>5

LEMMA ApplicationMainIsSequence ==
    ASSUME IsApplication
    PROVE  IsCalls(Main, 25)
<1> DEFINE before == <<Call("eventLoop", "start"), Call("storage", "start"),
                       Call("logic", "start"), Call("consumer", "start")>>
           after == <<Call("consumer", "consume"), Call("publisher", "start"),
                      Call("publisher", "declareExchange"), Call("logic", "registerPublisher"),
                      Call("application", "start")>>
           last == <<Call("main", "signal")>>
<1>1. IsCalls(before, 4) /\ IsCalls(after, 5) /\ IsCalls(last, 1)
  BY AreCalls, ShortSequences DEF Parts, Threads, Ops
<1>2. /\ ApplicationStart = before \o PrepareExchangeQueue \o after
      /\ Main = StartLogger \o ApplicationInitialize \o ApplicationConfigure
                \o ApplicationStart \o last
  BY DEF ApplicationStart, ApplicationMain, Main
<1> HIDE DEF before, after, last
<1>3. IsCalls(before \o PrepareExchangeQueue, 4 + 3)
  BY <1>1, ConcatCalls, StartOfMainIsSequence, Zenon
<1>4. IsCalls(ApplicationStart, (4 + 3) + 5)
  BY <1>1, <1>2, <1>3, ConcatCalls, Zenon
<1>5. IsCalls(StartLogger \o ApplicationInitialize, 2 + 4)
  BY ConcatCalls, StartOfMainIsSequence, Zenon
<1>6. IsCalls(StartLogger \o ApplicationInitialize \o ApplicationConfigure, (2 + 4) + 6)
  BY <1>5, ConcatCalls, StartOfMainIsSequence, Zenon
<1>7. IsCalls(StartLogger \o ApplicationInitialize \o ApplicationConfigure \o ApplicationStart,
              ((2 + 4) + 6) + ((4 + 3) + 5))
  BY <1>4, <1>6, ConcatCalls, Zenon
<1>8. IsCalls(Main, (((2 + 4) + 6) + ((4 + 3) + 5)) + 1)
  BY <1>1, <1>2, <1>7, ConcatCalls, Zenon
<1> QED
  BY <1>8, SMT

LEMMA GeneratorMainIsSequence ==
    ASSUME ~IsApplication
    PROVE  IsCalls(Main, 12)
<1> DEFINE last == <<Call("main", "writeData"), Call("main", "signal")>>
<1>1. IsCalls(last, 2)
  BY AreCalls, ShortSequences DEF Parts, Threads, Ops
<1>2. Main = StartLogger \o GeneratorInitialize \o GeneratorConfigure \o GeneratorStart \o last
  BY DEF GeneratorMain, Main
<1> HIDE DEF last
<1>3. IsCalls(StartLogger \o GeneratorInitialize, 2 + 2)
  BY ConcatCalls, StartOfMainIsSequence, Zenon
<1>4. IsCalls(StartLogger \o GeneratorInitialize \o GeneratorConfigure, (2 + 2) + 2)
  BY <1>3, ConcatCalls, StartOfMainIsSequence, Zenon
<1>5. IsCalls(StartLogger \o GeneratorInitialize \o GeneratorConfigure \o GeneratorStart,
              ((2 + 2) + 2) + 4)
  BY <1>4, ConcatCalls, StartOfMainIsSequence, Zenon
<1>6. IsCalls(Main, (((2 + 2) + 2) + 4) + 2)
  BY <1>1, <1>2, <1>5, ConcatCalls, Zenon
<1> QED
  BY <1>6, SMT

LEMMA ApplicationHandlerIsSequence ==
    ASSUME IsApplication
    PROVE  IsCalls(SignalHandler, 15)
<1> DEFINE stop == <<Call("application", "stop")>>
           handlers == <<Call("publisher", "stop"), Call("consumer", "stop")>>
           stopped == <<Call("application", "stopped")>>
           downed == <<Call("application", "deinitialize")>>
           exit == <<Call("logger", "stop"), Call("main", "exit")>>
<1>1. /\ IsCalls(stop, 1) /\ IsCalls(handlers, 2) /\ IsCalls(stopped, 1)
      /\ IsCalls(downed, 1) /\ IsCalls(exit, 2)
  BY AreCalls, ShortSequences DEF Parts, Threads, Ops
<1>2. /\ ApplicationStop = LogicStop \o handlers
      /\ BaseStop = stop \o ApplicationStop \o StopLoop \o stopped
      /\ BaseDeinitialize = ApplicationDeinitialize \o downed
      /\ SignalHandler = BaseStop \o BaseDeinitialize \o exit
  BY DEF ApplicationStop, BaseStop, BaseDeinitialize, SignalHandler
<1> HIDE DEF stop, handlers, stopped, downed, exit
<1>3. IsCalls(ApplicationStop, 4 + 2)
  BY <1>1, <1>2, ConcatCalls, StopsAreSequences, Zenon
<1>4. IsCalls(stop \o ApplicationStop, 1 + (4 + 2))
  BY <1>1, <1>3, ConcatCalls, Zenon
<1>5. IsCalls(stop \o ApplicationStop \o StopLoop, (1 + (4 + 2)) + 2)
  BY <1>4, ConcatCalls, StopsAreSequences, Zenon
<1>6. IsCalls(BaseStop, ((1 + (4 + 2)) + 2) + 1)
  BY <1>1, <1>2, <1>5, ConcatCalls, Zenon
<1>7. IsCalls(BaseDeinitialize, 2 + 1)
  BY <1>1, <1>2, ConcatCalls, StopsAreSequences, Zenon
<1>8. IsCalls(BaseStop \o BaseDeinitialize, (((1 + (4 + 2)) + 2) + 1) + (2 + 1))
  BY <1>6, <1>7, ConcatCalls, Zenon
<1>9. IsCalls(SignalHandler, ((((1 + (4 + 2)) + 2) + 1) + (2 + 1)) + 2)
  BY <1>1, <1>2, <1>8, ConcatCalls, Zenon
<1> QED
  BY <1>9, SMT

LEMMA GeneratorHandlerIsSequence ==
    ASSUME ~IsApplication
    PROVE  IsCalls(SignalHandler, 9)
<1> DEFINE stop == <<Call("application", "stop")>>
           stopped == <<Call("application", "stopped")>>
           downed == <<Call("application", "deinitialize")>>
           exit == <<Call("logger", "stop"), Call("main", "exit")>>
<1>1. IsCalls(stop, 1) /\ IsCalls(stopped, 1) /\ IsCalls(downed, 1) /\ IsCalls(exit, 2)
  BY AreCalls, ShortSequences DEF Parts, Threads, Ops
<1>2. /\ BaseStop = stop \o GeneratorStop \o StopLoop \o stopped
      /\ BaseDeinitialize = GeneratorDeinitialize \o downed
      /\ SignalHandler = BaseStop \o BaseDeinitialize \o exit
  BY DEF BaseStop, BaseDeinitialize, SignalHandler
<1> HIDE DEF stop, stopped, downed, exit
<1>3. IsCalls(stop \o GeneratorStop, 1 + 1)
  BY <1>1, ConcatCalls, StopsAreSequences, Zenon
<1>4. IsCalls(stop \o GeneratorStop \o StopLoop, (1 + 1) + 2)
  BY <1>3, ConcatCalls, StopsAreSequences, Zenon
<1>5. IsCalls(BaseStop, ((1 + 1) + 2) + 1)
  BY <1>1, <1>2, <1>4, ConcatCalls, Zenon
<1>6. IsCalls(BaseDeinitialize, 1 + 1)
  BY <1>1, <1>2, ConcatCalls, StopsAreSequences, Zenon
<1>7. IsCalls(BaseStop \o BaseDeinitialize, (((1 + 1) + 2) + 1) + (1 + 1))
  BY <1>5, <1>6, ConcatCalls, Zenon
<1>8. IsCalls(SignalHandler, ((((1 + 1) + 2) + 1) + (1 + 1)) + 2)
  BY <1>1, <1>2, <1>7, ConcatCalls, Zenon
<1> QED
  BY <1>8, SMT

LEMMA DestructionIsSequence ==
    IsCalls(Destruction, IF IsApplication THEN 8 ELSE 2)
<1> DEFINE members == <<Call("logic", "destroy"), Call("publisher", "destroy"),
                        Call("consumer", "destroy")>>
           publisher == <<Call("publisher", "destroy")>>
           base == <<Call("eventLoop", "destroy")>>
<1>1. IsCalls(members, 3) /\ IsCalls(publisher, 1) /\ IsCalls(base, 1)
  BY AreCalls, ShortSequences DEF Parts, Threads, Ops
<1>2. /\ IsApplication => Destruction = LogicStop \o members \o base
      /\ ~IsApplication => Destruction = publisher \o base
  BY DEF Destruction
<1> HIDE DEF members, publisher, base
<1>3. IsCalls(LogicStop \o members, 4 + 3)
  BY <1>1, ConcatCalls, StopsAreSequences, Zenon
<1>4. IsApplication => IsCalls(Destruction, (4 + 3) + 1)
  BY <1>1, <1>2, <1>3, ConcatCalls, Zenon
<1>5. ~IsApplication => IsCalls(Destruction, 1 + 1)
  BY <1>1, <1>2, ConcatCalls, Zenon
<1> QED
  BY <1>4, <1>5, SMT

LEMMA LengthOfMain ==
    /\ Main \in Seq(Calls) /\ Len(Main) = IF IsApplication THEN 25 ELSE 12
    /\ Main[Len(Main)] = Call("main", "signal")
<1>1. Main \in Seq(Calls) /\ Len(Main) = IF IsApplication THEN 25 ELSE 12
  BY ApplicationMainIsSequence, GeneratorMainIsSequence DEF IsCalls
<1>2. ASSUME IsApplication PROVE Main[25] = Call("main", "signal")
  BY <1>2 DEF Main, ApplicationMain, StartLogger, ApplicationInitialize, ApplicationConfigure,
              ApplicationStart, PrepareExchangeQueue
<1>3. ASSUME ~IsApplication PROVE Main[12] = Call("main", "signal")
  BY <1>3 DEF Main, GeneratorMain, StartLogger, GeneratorInitialize, GeneratorConfigure,
              GeneratorStart
<1> QED
  BY <1>1, <1>2, <1>3

LEMMA LengthOfHandler ==
    /\ SignalHandler \in Seq(Calls) /\ Len(SignalHandler) = IF IsApplication THEN 15 ELSE 9
    /\ SignalHandler[Len(SignalHandler)] = Call("main", "exit")
<1>1. SignalHandler \in Seq(Calls) /\ Len(SignalHandler) = IF IsApplication THEN 15 ELSE 9
  BY ApplicationHandlerIsSequence, GeneratorHandlerIsSequence DEF IsCalls
<1>2. ASSUME IsApplication PROVE SignalHandler[15] = Call("main", "exit")
  BY <1>2 DEF SignalHandler, BaseStop, ApplicationStop, LogicStop, StopLoop, BaseDeinitialize,
              ApplicationDeinitialize
<1>3. ASSUME ~IsApplication PROVE SignalHandler[9] = Call("main", "exit")
  BY <1>3 DEF SignalHandler, BaseStop, GeneratorStop, StopLoop, BaseDeinitialize,
              GeneratorDeinitialize
<1> QED
  BY <1>1, <1>2, <1>3

LEMMA LengthOfDestruction ==
    /\ Destruction \in Seq(Calls) /\ Len(Destruction) = IF IsApplication THEN 8 ELSE 2
    /\ Destruction[Len(Destruction)] = Call("eventLoop", "destroy")
<1>1. Destruction \in Seq(Calls) /\ Len(Destruction) = IF IsApplication THEN 8 ELSE 2
  BY DestructionIsSequence DEF IsCalls
<1>2. IF IsApplication THEN Destruction[8] = Call("eventLoop", "destroy")
                       ELSE Destruction[2] = Call("eventLoop", "destroy")
  BY DEF Destruction, LogicStop
<1> QED
  BY <1>1, <1>2

\* Where the calls of the generator's and of the application's main are
LEMMA ApplicationMainPositions ==
    ASSUME IsApplication
    PROVE  /\ At(Main, Call("logger", "start"), 2)
           /\ At(Main, Call("consumer", "start"), 16)
           /\ At(Main, Call("consumer", "consume"), 20)
           /\ At(Main, Call("publisher", "start"), 21)
           /\ At(Main, Call("logic", "registerPublisher"), 23)
           /\ At(Main, Call("main", "signal"), 25)
           /\ \A k \in 1..25 : Main[k][1] # "logger" => k > 2
<1>1. Len(Main) = 25
  BY LengthOfMain
<1>2. ASSUME NEW k \in 1..25
      PROVE  /\ Main[k] = Call("logger", "start") => k = 2
             /\ Main[k][1] # "logger" => k > 2
             /\ Main[k] = Call("consumer", "start") => k = 16
             /\ Main[k] = Call("consumer", "consume") => k = 20
             /\ Main[k] = Call("publisher", "start") => k = 21
             /\ Main[k] = Call("logic", "registerPublisher") => k = 23
             /\ Main[k] = Call("main", "signal") => k = 25
  BY DEF Main, ApplicationMain, StartLogger, ApplicationInitialize, ApplicationConfigure,
         ApplicationStart, PrepareExchangeQueue, Call
<1> QED
  BY <1>1, <1>2 DEF At

LEMMA GeneratorMainPositions ==
    ASSUME ~IsApplication
    PROVE  /\ At(Main, Call("logger", "start"), 2)
           /\ At(Main, Call("main", "signal"), 12)
           /\ At(Main, Call("consumer", "start"), 0)
           /\ At(Main, Call("logic", "registerPublisher"), 0)
           /\ At(Main, Call("consumer", "consume"), 0)
           /\ \A k \in 1..12 :
             /\ Main[k][1] # "logger" => k > 2
             /\ Main[k][2] \notin {"consume", "registerPublisher"}
             /\ Main[k][1] \in {"logger", "application", "publisher", "eventLoop", "main"}
<1>1. Len(Main) = 12
  BY LengthOfMain
<1>2. ASSUME NEW k \in 1..12
      PROVE  /\ Main[k] = Call("logger", "start") => k = 2
             /\ Main[k][1] # "logger" => k > 2
             /\ Main[k][2] \notin {"consume", "registerPublisher"}
             /\ Main[k] # Call("consumer", "start")
             /\ Main[k] = Call("main", "signal") => k = 12
             /\ Main[k][1] \in {"logger", "application", "publisher", "eventLoop", "main"}
             /\ Main[k] # Call("logic", "registerPublisher")
             /\ Main[k] # Call("consumer", "consume")
  BY DEF Main, GeneratorMain, StartLogger, GeneratorInitialize, GeneratorConfigure,
         GeneratorStart, Call
<1> QED
  BY <1>1, <1>2 DEF At

StopOps == {"stop", "join", "stopped", "deinitialize", "exit", "destroy"}

\* Some calls are made to one part only.
IsMainCall(call) ==
    /\ call[2] = "signal" => call[1] = "main"
    /\ call[2] = "consume" => call[1] = "consumer"
    /\ call[2] = "registerCallback" => call[1] = "consumer"
    /\ call[2] = "registerPublisher" => call[1] = "logic"

LEMMA MainOps ==
    ASSUME NEW k \in 1..Len(Main)
    PROVE  Main[k][2] \notin StopOps /\ IsMainCall(Main[k])
<1>1. ASSUME IsApplication, NEW i \in 1..25
      PROVE  Main[i][2] \notin StopOps /\ IsMainCall(Main[i])
  BY <1>1 DEF Main, ApplicationMain, StartLogger, ApplicationInitialize, ApplicationConfigure,
              ApplicationStart, PrepareExchangeQueue, Call, StopOps, IsMainCall
<1>2. ASSUME ~IsApplication, NEW i \in 1..12
      PROVE  Main[i][2] \notin StopOps /\ IsMainCall(Main[i])
  BY <1>2 DEF Main, GeneratorMain, StartLogger, GeneratorInitialize, GeneratorConfigure,
              GeneratorStart, Call, StopOps, IsMainCall
<1> QED
  BY <1>1, <1>2, LengthOfMain

LEMMA ApplicationHandlerPositions ==
    ASSUME IsApplication
    PROVE  /\ At(SignalHandler, Call("application", "stop"), 1)
           /\ At(SignalHandler, Call("logic", "stop"), 2)
           /\ At(SignalHandler, Call("processors", "join"), 3)
           /\ At(SignalHandler, Call("loop", "join"), 4)
           /\ At(SignalHandler, Call("logic", "stopped"), 5)
           /\ At(SignalHandler, Call("publisher", "stop"), 6)
           /\ At(SignalHandler, Call("consumer", "stop"), 7)
           /\ At(SignalHandler, Call("eventLoop", "join"), 9)
           /\ At(SignalHandler, Call("application", "stopped"), 10)
           /\ At(SignalHandler, Call("publisher", "deinitialize"), 11)
           /\ At(SignalHandler, Call("consumer", "deinitialize"), 12)
           /\ At(SignalHandler, Call("application", "deinitialize"), 13)
           /\ At(SignalHandler, Call("logger", "stop"), 14)
           /\ At(SignalHandler, Call("main", "exit"), 15)
<1>1. Len(SignalHandler) = 15
  BY LengthOfHandler, SMTT(60)
<1>2. ASSUME NEW k \in 1..15
      PROVE  /\ SignalHandler[k] = Call("application", "stop") => k = 1
             /\ SignalHandler[k] = Call("logic", "stop") => k = 2
             /\ SignalHandler[k] = Call("processors", "join") => k = 3
             /\ SignalHandler[k] = Call("loop", "join") => k = 4
             /\ SignalHandler[k] = Call("logic", "stopped") => k = 5
             /\ SignalHandler[k] = Call("publisher", "stop") => k = 6
             /\ SignalHandler[k] = Call("consumer", "stop") => k = 7
             /\ SignalHandler[k] = Call("eventLoop", "join") => k = 9
             /\ SignalHandler[k] = Call("application", "stopped") => k = 10
             /\ SignalHandler[k] = Call("publisher", "deinitialize") => k = 11
             /\ SignalHandler[k] = Call("consumer", "deinitialize") => k = 12
             /\ SignalHandler[k] = Call("application", "deinitialize") => k = 13
             /\ SignalHandler[k] = Call("logger", "stop") => k = 14
             /\ SignalHandler[k] = Call("main", "exit") => k = 15
  BY DEF SignalHandler, BaseStop, ApplicationStop, LogicStop, StopLoop, BaseDeinitialize,
         ApplicationDeinitialize, Call
<1> QED
  BY <1>1, <1>2 DEF At

LEMMA GeneratorHandlerPositions ==
    ASSUME ~IsApplication
    PROVE  /\ At(SignalHandler, Call("application", "stop"), 1)
           /\ At(SignalHandler, Call("publisher", "stop"), 2)
           /\ At(SignalHandler, Call("eventLoop", "join"), 4)
           /\ At(SignalHandler, Call("application", "stopped"), 5)
           /\ At(SignalHandler, Call("publisher", "deinitialize"), 6)
           /\ At(SignalHandler, Call("consumer", "deinitialize"), 0)
           /\ At(SignalHandler, Call("application", "deinitialize"), 7)
           /\ At(SignalHandler, Call("logger", "stop"), 8)
           /\ At(SignalHandler, Call("main", "exit"), 9)
           /\ At(SignalHandler, Call("processors", "join"), 0)
           /\ At(SignalHandler, Call("loop", "join"), 0)
           /\ At(SignalHandler, Call("logic", "stop"), 0)
           /\ At(SignalHandler, Call("logic", "stopped"), 0)
           /\ At(SignalHandler, Call("consumer", "stop"), 0)
           /\ \A k \in 1..9 : SignalHandler[k][1] \in {"logger", "application", "publisher", "eventLoop", "main"}
<1>1. Len(SignalHandler) = 9
  BY LengthOfHandler
<1>2. ASSUME NEW k \in 1..9
      PROVE  /\ SignalHandler[k] = Call("application", "stop") => k = 1
             /\ SignalHandler[k] = Call("publisher", "stop") => k = 2
             /\ SignalHandler[k] = Call("eventLoop", "join") => k = 4
             /\ SignalHandler[k] = Call("application", "stopped") => k = 5
             /\ SignalHandler[k] = Call("publisher", "deinitialize") => k = 6
             /\ SignalHandler[k] # Call("consumer", "deinitialize")
             /\ SignalHandler[k] = Call("application", "deinitialize") => k = 7
             /\ SignalHandler[k] = Call("logger", "stop") => k = 8
             /\ SignalHandler[k] = Call("main", "exit") => k = 9
             /\ SignalHandler[k][1] \in {"logger", "application", "publisher", "eventLoop", "main"}
             /\ SignalHandler[k] # Call("processors", "join")
             /\ SignalHandler[k] # Call("loop", "join")
             /\ SignalHandler[k] # Call("logic", "stop")
             /\ SignalHandler[k] # Call("logic", "stopped")
             /\ SignalHandler[k] # Call("consumer", "stop")
  BY DEF SignalHandler, BaseStop, GeneratorStop, StopLoop, BaseDeinitialize,
         GeneratorDeinitialize, Call
<1> QED
  BY <1>1, <1>2 DEF At

LEMMA ApplicationDestructionPositions ==
    ASSUME IsApplication
    PROVE  /\ At(Destruction, Call("logic", "stop"), 1)
           /\ At(Destruction, Call("processors", "join"), 2)
           /\ At(Destruction, Call("loop", "join"), 3)
           /\ At(Destruction, Call("logic", "stopped"), 4)
           /\ At(Destruction, Call("publisher", "destroy"), 6)
           /\ At(Destruction, Call("consumer", "destroy"), 7)
           /\ At(Destruction, Call("eventLoop", "destroy"), 8)
           /\ At(Destruction, Call("eventLoop", "join"), 0)
<1>1. Len(Destruction) = 8
  BY LengthOfDestruction
<1>2. ASSUME NEW k \in 1..8
      PROVE  /\ Destruction[k] = Call("logic", "stop") => k = 1
             /\ Destruction[k] = Call("processors", "join") => k = 2
             /\ Destruction[k] = Call("loop", "join") => k = 3
             /\ Destruction[k] = Call("logic", "stopped") => k = 4
             /\ Destruction[k] = Call("publisher", "destroy") => k = 6
             /\ Destruction[k] = Call("consumer", "destroy") => k = 7
             /\ Destruction[k] = Call("eventLoop", "destroy") => k = 8
             /\ Destruction[k] # Call("eventLoop", "join")
  BY DEF Destruction, LogicStop, Call
<1> QED
  BY <1>1, <1>2 DEF At

LEMMA GeneratorDestructionPositions ==
    ASSUME ~IsApplication
    PROVE  /\ At(Destruction, Call("publisher", "destroy"), 1)
           /\ At(Destruction, Call("eventLoop", "destroy"), 2)
           /\ At(Destruction, Call("processors", "join"), 0)
           /\ At(Destruction, Call("loop", "join"), 0)
           /\ At(Destruction, Call("eventLoop", "join"), 0)
           /\ At(Destruction, Call("logic", "stop"), 0)
           /\ At(Destruction, Call("logic", "stopped"), 0)
           /\ At(Destruction, Call("consumer", "destroy"), 0)
           /\ \A k \in 1..2 : /\ Destruction[k][2] = "destroy"
             /\ Destruction[k][1] \in {"publisher", "eventLoop"}
<1>1. Len(Destruction) = 2
  BY LengthOfDestruction
<1>2. ASSUME NEW k \in 1..2
      PROVE  /\ Destruction[k] = Call("publisher", "destroy") => k = 1
             /\ Destruction[k] = Call("eventLoop", "destroy") => k = 2
             /\ Destruction[k][2] = "destroy"
             /\ Destruction[k][1] \in {"publisher", "eventLoop"}
             /\ Destruction[k] # Call("processors", "join")
             /\ Destruction[k] # Call("loop", "join")
             /\ Destruction[k] # Call("eventLoop", "join")
             /\ Destruction[k] # Call("logic", "stop")
             /\ Destruction[k] # Call("logic", "stopped")
             /\ Destruction[k] # Call("consumer", "destroy")
  BY DEF Destruction, LogicStop, Call
<1> QED
  BY <1>1, <1>2 DEF At

HandlerCalls ==
    ({"application", "logic", "publisher", "consumer", "eventLoop", "logger"} \X {"stop"})
    \cup (Threads \X {"join"})
    \cup ({"logic", "application"} \X {"stopped"})
    \cup ({"publisher", "consumer", "application"} \X {"deinitialize"})
    \cup {Call("main", "exit")}

DestructionCalls ==
    {Call("logic", "stop"), Call("processors", "join"), Call("loop", "join"),
     Call("logic", "stopped")}
    \cup ({"logic", "publisher", "consumer", "eventLoop"} \X {"destroy"})

LEMMA HandlerOps ==
    ASSUME NEW k \in 1..Len(SignalHandler)
    PROVE  SignalHandler[k] \in HandlerCalls
<1>1. ASSUME IsApplication, NEW i \in 1..15 PROVE SignalHandler[i] \in HandlerCalls
  BY <1>1 DEF SignalHandler, BaseStop, ApplicationStop, LogicStop, StopLoop, BaseDeinitialize,
              ApplicationDeinitialize, Call, HandlerCalls, Threads
<1>2. ASSUME ~IsApplication, NEW i \in 1..9 PROVE SignalHandler[i] \in HandlerCalls
  BY <1>2 DEF SignalHandler, BaseStop, GeneratorStop, StopLoop, BaseDeinitialize,
              GeneratorDeinitialize, Call, HandlerCalls, Threads
<1> QED
  BY <1>1, <1>2, LengthOfHandler

LEMMA DestructionOps ==
    ASSUME NEW k \in 1..Len(Destruction)
    PROVE  Destruction[k] \in DestructionCalls
<1>1. ASSUME IsApplication, NEW i \in 1..8 PROVE Destruction[i] \in DestructionCalls
  BY <1>1 DEF Destruction, LogicStop, Call, DestructionCalls
<1>2. ASSUME ~IsApplication, NEW i \in 1..2 PROVE Destruction[i] \in DestructionCalls
  BY <1>2 DEF Destruction, Call, DestructionCalls
<1> QED
  BY <1>1, <1>2, LengthOfDestruction

\* What main still has to do
LEMMA MainGoesOn ==
    ASSUME NEW s, IsRest(s, Main)
    PROVE  /\ s \in Seq(Calls) /\ s # <<>> /\ Head(s) \in Range(s) /\ Head(s) \in Calls
           /\ Range(s) = {Head(s)} \cup Range(Tail(s))
           /\ Call("main", "signal") \in Range(s)
           /\ Head(s) # Call("main", "signal") => IsRest(Tail(s), Main)
           /\ Head(s) = Call("main", "signal") => Tail(s) = <<>>
           /\ Head(s)[2] \notin StopOps /\ IsMainCall(Head(s))
           /\ ~IsApplication => /\ Head(s)[1] \in {"logger", "application", "publisher",
                                                   "eventLoop", "main"}
                                /\ Head(s)[2] \notin {"consume", "registerPublisher"}
<1> DEFINE S == Main
<1>1. S \in Seq(Calls) /\ S[Len(S)] = Call("main", "signal") /\ Len(S) \in Nat
  BY LengthOfMain
<1>2. Once(S, S[Len(S)])
  BY <1>1, ApplicationMainPositions, GeneratorMainPositions, OrderOfPositions
<1>3. PICK k \in 1..Len(S) : s = From(S, k)
  BY DEF IsRest
<1>4. Head(s) = S[k]
  BY <1>1, <1>3, FromIsSequence
<1>5. Head(s)[2] \notin StopOps /\ IsMainCall(Head(s))
  BY <1>4, MainOps
<1>6. ~IsApplication => /\ Head(s)[1] \in {"logger", "application", "publisher",
                                           "eventLoop", "main"}
                        /\ Head(s)[2] \notin {"consume", "registerPublisher"}
  BY <1>4, LengthOfMain, GeneratorMainPositions
<1> HIDE DEF S
<1>7. IsRest(s, S)
  BY DEF S
<1>8. /\ s \in Seq(Calls) /\ s # <<>> /\ Head(s) \in Range(s) /\ Head(s) \in Calls
      /\ Range(s) = {Head(s)} \cup Range(Tail(s))
      /\ Call("main", "signal") \in Range(s)
      /\ Head(s) # Call("main", "signal") => IsRest(Tail(s), S)
  BY <1>1, <1>7, RestGoesOn
<1>9. Head(s) = Call("main", "signal") => Tail(s) = <<>>
  BY <1>1, <1>2, <1>7, LastIsLast
<1> QED
  BY <1>5, <1>6, <1>8, <1>9 DEF S

LEMMA MainPairs ==
    /\ Before(Main, Call("consumer", "start"), Call("consumer", "consume"))
    /\ Before(Main, Call("publisher", "start"), Call("logic", "registerPublisher"))
<1>1. CASE IsApplication
  BY <1>1, ApplicationMainPositions, OrderOfPositions
<1>2. CASE ~IsApplication
  BY <1>2, GeneratorMainPositions, OrderOfPositions
<1> QED
  BY <1>1, <1>2

\* What has been done when main makes a call
LEMMA MainOrder ==
    ASSUME NEW s, IsRest(s, Main)
    PROVE  /\ Head(s)[1] # "logger" => Call("logger", "start") \notin Range(s)
           /\ Head(s) = Call("consumer", "consume") => Call("consumer", "start") \notin Range(s)
           /\ Head(s) = Call("logic", "registerPublisher")
                => Call("publisher", "start") \notin Range(s)
<1>1. Main \in Seq(Calls)
  BY LengthOfMain
<1>2. PICK k \in 1..Len(Main) : s = From(Main, k)
  BY DEF IsRest
<1>3. Head(s) = Main[k]
  BY <1>1, <1>2, FromIsSequence
<1>4. ASSUME Head(s)[1] # "logger"
      PROVE  Before(Main, Call("logger", "start"), Head(s))
  <2>1. ASSUME IsApplication, NEW i \in 1..25, NEW j \in 1..25, Main[i] = Call("logger", "start"),
               Main[j] = Head(s)
        PROVE  i < j
    <3>1. i = 2
      BY <2>1, ApplicationMainPositions, LengthOfMain DEF At
    <3>2. j > 2
      BY <1>4, <2>1, ApplicationMainPositions
    <3> QED
      BY <3>1, <3>2
  <2>2. ASSUME ~IsApplication, NEW i \in 1..12, NEW j \in 1..12, Main[i] = Call("logger", "start"),
               Main[j] = Head(s)
        PROVE  i < j
    <3>1. i = 2
      BY <2>2, GeneratorMainPositions, LengthOfMain DEF At
    <3>2. j > 2
      BY <1>4, <2>2, GeneratorMainPositions
    <3> QED
      BY <3>1, <3>2
  <2> QED
    BY <2>1, <2>2, LengthOfMain DEF Before
<1> QED
  BY <1>1, <1>4, MainPairs, EarlierIsPast

\* What the handler still has to do
LEMMA HandlerGoesOn ==
    ASSUME NEW s, IsRest(s, SignalHandler)
    PROVE  /\ s \in Seq(Calls) /\ s # <<>> /\ Head(s) \in Range(s) /\ Head(s) \in Calls /\ Head(s) \in HandlerCalls
           /\ Range(s) = {Head(s)} \cup Range(Tail(s))
           /\ Call("main", "exit") \in Range(s)
           /\ Head(s) # Call("main", "exit") => IsRest(Tail(s), SignalHandler)
           /\ ~IsApplication => Head(s)[1] \in {"logger", "application", "publisher",
                                                "eventLoop", "main"}
<1> DEFINE S == SignalHandler
<1>1. S \in Seq(Calls) /\ S[Len(S)] = Call("main", "exit") /\ Len(S) \in Nat
  BY LengthOfHandler
<1>3. PICK k \in 1..Len(S) : s = From(S, k)
  BY DEF IsRest
<1>4. Head(s) = S[k]
  BY <1>1, <1>3, FromIsSequence
<1>5. Head(s) \in HandlerCalls
  BY <1>4, HandlerOps
<1>6. ~IsApplication => Head(s)[1] \in {"logger", "application", "publisher", "eventLoop", "main"}
  BY <1>4, LengthOfHandler, GeneratorHandlerPositions
<1> HIDE DEF S
<1>7. IsRest(s, S)
  BY DEF S
<1>8. /\ s \in Seq(Calls) /\ s # <<>> /\ Head(s) \in Range(s) /\ Head(s) \in Calls
      /\ Range(s) = {Head(s)} \cup Range(Tail(s))
      /\ Call("main", "exit") \in Range(s)
      /\ Head(s) # Call("main", "exit") => IsRest(Tail(s), S)
  BY <1>1, <1>7, RestGoesOn
<1> QED
  BY <1>5, <1>6, <1>8 DEF S

LEMMA HandlerPairs ==
    /\ \A thread \in {"processors", "loop"} :
         /\ Before(SignalHandler, Call(thread, "join"), Call("logic", "stopped"))
         /\ Before(SignalHandler, Call(thread, "join"), Call("publisher", "stop"))
         /\ Before(SignalHandler, Call(thread, "join"), Call("consumer", "stop"))
         /\ Before(SignalHandler, Call(thread, "join"), Call("application", "stopped"))
    /\ \A thread \in Threads :
         /\ Before(SignalHandler, Call(thread, "join"), Call("application", "deinitialize"))
         /\ Before(SignalHandler, Call(thread, "join"), Call("logger", "stop"))
         /\ Before(SignalHandler, Call(thread, "join"), Call("main", "exit"))
    /\ Before(SignalHandler, Call("eventLoop", "join"), Call("application", "stopped"))
    /\ Before(SignalHandler, Call("logic", "stopped"), Call("application", "stopped"))
    /\ Before(SignalHandler, Call("publisher", "stop"), Call("application", "stopped"))
    /\ Before(SignalHandler, Call("consumer", "stop"), Call("application", "stopped"))
    /\ Before(SignalHandler, Call("application", "stopped"), Call("application", "deinitialize"))
    /\ Before(SignalHandler, Call("application", "stopped"), Call("logger", "stop"))
    /\ Before(SignalHandler, Call("application", "stopped"), Call("main", "exit"))
    /\ Before(SignalHandler, Call("application", "deinitialize"), Call("main", "exit"))
    /\ Before(SignalHandler, Call("application", "deinitialize"), Call("logger", "stop"))
    /\ \A p \in {"consumer", "publisher"} :
         /\ Before(SignalHandler, Call(p, "stop"), Call(p, "deinitialize"))
         /\ Before(SignalHandler, Call(p, "deinitialize"), Call("logger", "stop"))
    /\ Before(SignalHandler, Call("logger", "stop"), Call("main", "exit"))
    /\ Once(SignalHandler, Call("application", "stopped"))
<1>1. CASE IsApplication
  BY <1>1, ApplicationHandlerPositions, OrderOfPositions DEF Threads
<1>2. CASE ~IsApplication
  BY <1>2, GeneratorHandlerPositions, OrderOfPositions DEF Threads
<1> QED
  BY <1>1, <1>2

\* What has been done when the handler makes a call
LEMMA HandlerOrder ==
    ASSUME NEW s, IsRest(s, SignalHandler)
    PROVE  /\ \A thread \in {"processors", "loop"} :
                Head(s) \in {Call("logic", "stopped"), Call("publisher", "stop"),
                             Call("consumer", "stop"), Call("application", "stopped")}
                  => Call(thread, "join") \notin Range(s)
           /\ Head(s) = Call("application", "stopped") =>
                /\ Call("eventLoop", "join") \notin Range(s)
                /\ Call("logic", "stopped") \notin Range(s)
                /\ Call("publisher", "stop") \notin Range(s)
                /\ Call("consumer", "stop") \notin Range(s)
                /\ Call("application", "stopped") \notin Range(Tail(s))
           /\ Head(s) \in {Call("application", "deinitialize"), Call("logger", "stop"),
                           Call("main", "exit")}
                => /\ Call("application", "stopped") \notin Range(s)
                   /\ \A thread \in Threads : Call(thread, "join") \notin Range(s)
           /\ Head(s) = Call("main", "exit") =>
                /\ Call("application", "deinitialize") \notin Range(s)
                /\ Call("logger", "stop") \notin Range(s)
           /\ Head(s) = Call("logger", "stop") =>
                /\ Call("application", "deinitialize") \notin Range(s)
                /\ \A p \in {"consumer", "publisher"} : Call(p, "deinitialize") \notin Range(s)
           /\ \A p \in {"consumer", "publisher"} :
                Head(s) = Call(p, "deinitialize") => Call(p, "stop") \notin Range(s)
<1> DEFINE S == SignalHandler
<1>1. S \in Seq(Calls) /\ IsRest(s, S)
  BY LengthOfHandler
<1>2. \A call : Before(S, call, Head(s)) => call \notin Range(s)
  <2> HIDE DEF S
  <2> QED
    BY <1>1, EarlierIsPast
<1>3. Once(S, Head(s)) => Head(s) \notin Range(Tail(s))
  <2> HIDE DEF S
  <2> QED
    BY <1>1, RestGoesOn
<1> QED
  BY <1>2, <1>3, HandlerPairs

\* The application's stop leads to its being stopped.
LEMMA HandlerStops ==
    ASSUME NEW s, IsRest(s, SignalHandler), Head(s) = Call("application", "stop")
    PROVE  Call("application", "stopped") \in Range(s)
<1>1. PICK k \in 1..Len(SignalHandler) : s = From(SignalHandler, k)
  BY DEF IsRest
<1>2. /\ SignalHandler \in Seq(Calls) /\ Len(SignalHandler) = IF IsApplication THEN 15 ELSE 9
      /\ Head(s) = SignalHandler[k]
      /\ Range(s) = {SignalHandler[i] : i \in k..Len(SignalHandler)}
  BY <1>1, LengthOfHandler, FromIsSequence
<1>3. CASE IsApplication
  <2>1. k = 1
    BY <1>2, <1>3, ApplicationHandlerPositions DEF At
  <2>2. SignalHandler[10] = Call("application", "stopped")
    BY <1>3 DEF SignalHandler, BaseStop, ApplicationStop, LogicStop, StopLoop, BaseDeinitialize,
                ApplicationDeinitialize
  <2> QED
    BY <1>2, <1>3, <2>1, <2>2
<1>4. CASE ~IsApplication
  <2>1. k = 1
    BY <1>2, <1>4, GeneratorHandlerPositions DEF At
  <2>2. SignalHandler[5] = Call("application", "stopped")
    BY <1>4 DEF SignalHandler, BaseStop, GeneratorStop, StopLoop, BaseDeinitialize,
                GeneratorDeinitialize
  <2> QED
    BY <1>2, <1>4, <2>1, <2>2
<1> QED
  BY <1>3, <1>4

\* At its start the handler has everything ahead.
LEMMA HandlerStarts ==
    /\ IsRest(SignalHandler, SignalHandler)
    /\ {Call("eventLoop", "join"), Call("publisher", "stop"), Call("application", "stopped"),
        Call("publisher", "deinitialize"), Call("application", "deinitialize"),
        Call("logger", "stop"), Call("main", "exit")} \subseteq Range(SignalHandler)
    /\ IsApplication =>
         {Call("processors", "join"), Call("loop", "join"), Call("logic", "stopped"),
          Call("consumer", "stop"), Call("consumer", "deinitialize")} \subseteq Range(SignalHandler)
<1>1. /\ IsRest(SignalHandler, SignalHandler)
      /\ Range(SignalHandler) = {SignalHandler[i] : i \in 1..Len(SignalHandler)}
  BY LengthOfHandler, AllIsLeft
<1>2. CASE IsApplication
  <2>1. /\ SignalHandler[3] = Call("processors", "join") /\ SignalHandler[4] = Call("loop", "join")
        /\ SignalHandler[5] = Call("logic", "stopped") /\ SignalHandler[6] = Call("publisher", "stop")
        /\ SignalHandler[7] = Call("consumer", "stop") /\ SignalHandler[9] = Call("eventLoop", "join")
        /\ SignalHandler[10] = Call("application", "stopped")
        /\ SignalHandler[11] = Call("publisher", "deinitialize")
        /\ SignalHandler[12] = Call("consumer", "deinitialize")
        /\ SignalHandler[13] = Call("application", "deinitialize")
        /\ SignalHandler[14] = Call("logger", "stop") /\ SignalHandler[15] = Call("main", "exit")
    BY <1>2 DEF SignalHandler, BaseStop, ApplicationStop, LogicStop, StopLoop, BaseDeinitialize,
                ApplicationDeinitialize
  <2>2. \A i \in {3, 4, 5, 6, 7, 9, 10, 11, 12, 13, 14, 15} : SignalHandler[i] \in Range(SignalHandler)
    BY <1>1, <1>2, LengthOfHandler
  <2> QED
    BY <1>1, <1>2, <2>1, <2>2, ZenonT(60)
<1>3. CASE ~IsApplication
  <2>1. /\ SignalHandler[2] = Call("publisher", "stop") /\ SignalHandler[4] = Call("eventLoop", "join")
        /\ SignalHandler[5] = Call("application", "stopped")
        /\ SignalHandler[6] = Call("publisher", "deinitialize")
        /\ SignalHandler[7] = Call("application", "deinitialize")
        /\ SignalHandler[8] = Call("logger", "stop") /\ SignalHandler[9] = Call("main", "exit")
    BY <1>3 DEF SignalHandler, BaseStop, GeneratorStop, StopLoop, BaseDeinitialize,
                GeneratorDeinitialize
  <2>2. \A i \in {2, 4, 5, 6, 7, 8, 9} : SignalHandler[i] \in Range(SignalHandler)
    BY <1>1, <1>3, LengthOfHandler
  <2> QED
    BY <1>1, <1>3, <2>1, <2>2
<1> QED
  BY <1>2, <1>3

\* What the destructors still have to do
LEMMA DestructionGoesOn ==
    ASSUME NEW s, IsRest(s, Destruction)
    PROVE  /\ s \in Seq(Calls) /\ s # <<>> /\ Head(s) \in Range(s) /\ Head(s) \in Calls /\ Head(s) \in DestructionCalls
           /\ Range(s) = {Head(s)} \cup Range(Tail(s))
           /\ Call("main", "exit") \notin Range(s)
           /\ Call("application", "stopped") \notin Range(s)
           /\ Head(s) # Call("eventLoop", "destroy") => IsRest(Tail(s), Destruction)
           /\ ~IsApplication => Head(s)[1] \in {"publisher", "eventLoop"}
<1> DEFINE S == Destruction
<1>1. S \in Seq(Calls) /\ S[Len(S)] = Call("eventLoop", "destroy") /\ Len(S) \in Nat
  BY LengthOfDestruction
<1>3. PICK k \in 1..Len(S) : s = From(S, k)
  BY DEF IsRest
<1>4. Head(s) = S[k] /\ Range(s) = {S[i] : i \in k..Len(S)}
  BY <1>1, <1>3, FromIsSequence
<1>5. \A i \in k..Len(S) : S[i] \in DestructionCalls
  BY <1>1, DestructionOps
<1>6. Range(s) \subseteq DestructionCalls
  BY <1>4, <1>5
<1>7. /\ Call("main", "exit") \notin DestructionCalls
      /\ Call("application", "stopped") \notin DestructionCalls
  BY DEF DestructionCalls, Call
<1>8. ~IsApplication => Head(s)[1] \in {"publisher", "eventLoop"}
  BY <1>4, LengthOfDestruction, GeneratorDestructionPositions
<1> HIDE DEF S
<1>9. IsRest(s, S)
  BY DEF S
<1>10. /\ s \in Seq(Calls) /\ s # <<>> /\ Head(s) \in Range(s) /\ Head(s) \in Calls
       /\ Range(s) = {Head(s)} \cup Range(Tail(s))
       /\ Head(s) # Call("eventLoop", "destroy") => IsRest(Tail(s), S)
  BY <1>1, <1>9, RestGoesOn
<1> QED
  BY <1>6, <1>7, <1>8, <1>10 DEF S

LEMMA DestructionPairs ==
    /\ \A thread \in {"processors", "loop"} :
         /\ Before(Destruction, Call(thread, "join"), Call("logic", "stopped"))
         /\ Before(Destruction, Call(thread, "join"), Call("publisher", "destroy"))
         /\ Before(Destruction, Call(thread, "join"), Call("eventLoop", "destroy"))
    /\ Before(Destruction, Call("publisher", "destroy"), Call("eventLoop", "destroy"))
    /\ Before(Destruction, Call("consumer", "destroy"), Call("eventLoop", "destroy"))
<1>1. CASE IsApplication
  BY <1>1, ApplicationDestructionPositions, OrderOfPositions
<1>2. CASE ~IsApplication
  BY <1>2, GeneratorDestructionPositions, OrderOfPositions
<1> QED
  BY <1>1, <1>2

\* What has been done when a destructor makes a call
LEMMA DestructionOrder ==
    ASSUME NEW s, IsRest(s, Destruction)
    PROVE  /\ \A thread \in {"processors", "loop"} :
                Head(s) \in {Call("logic", "stopped"), Call("publisher", "destroy"),
                             Call("eventLoop", "destroy")}
                  => Call(thread, "join") \notin Range(s)
           /\ Head(s) = Call("eventLoop", "destroy") =>
                /\ Call("publisher", "destroy") \notin Range(s)
                /\ Call("consumer", "destroy") \notin Range(s)
<1> DEFINE S == Destruction
<1>1. S \in Seq(Calls) /\ IsRest(s, S)
  BY LengthOfDestruction
<1>2. \A call : Before(S, call, Head(s)) => call \notin Range(s)
  <2> HIDE DEF S
  <2> QED
    BY <1>1, EarlierIsPast
<1> QED
  BY <1>2, DestructionPairs

LEMMA DestructionStarts ==
    /\ IsRest(Destruction, Destruction)
    /\ Call("publisher", "destroy") \in Range(Destruction)
    /\ IsApplication =>
         {Call("processors", "join"), Call("loop", "join"), Call("consumer", "destroy")}
           \subseteq Range(Destruction)
<1>1. /\ IsRest(Destruction, Destruction)
      /\ Range(Destruction) = {Destruction[i] : i \in 1..Len(Destruction)}
  BY LengthOfDestruction, AllIsLeft
<1>2. CASE IsApplication
  <2>1. /\ Destruction[2] = Call("processors", "join") /\ Destruction[3] = Call("loop", "join")
        /\ Destruction[6] = Call("publisher", "destroy")
        /\ Destruction[7] = Call("consumer", "destroy")
    BY <1>2 DEF Destruction, LogicStop
  <2>2. \A i \in {2, 3, 6, 7} : Destruction[i] \in Range(Destruction)
    BY <1>1, <1>2, LengthOfDestruction
  <2> QED
    BY <1>1, <1>2, <2>1, <2>2
<1>3. CASE ~IsApplication
  <2>1. Destruction[1] = Call("publisher", "destroy")
    BY <1>3 DEF Destruction
  <2>2. Destruction[1] \in Range(Destruction)
    BY <1>1, <1>3, LengthOfDestruction
  <2> QED
    BY <1>1, <1>3, <2>1, <2>2
<1> QED
  BY <1>2, <1>3

\* At its start main has everything ahead.
LEMMA MainStarts ==
    /\ IsRest(Main, Main)
    /\ {Call("logger", "start"), Call("eventLoop", "start"), Call("publisher", "start"),
        Call("application", "start")} \subseteq Range(Main)
    /\ IsApplication =>
         {Call("storage", "start"), Call("logic", "start"), Call("consumer", "start"),
          Call("consumer", "registerCallback"), Call("consumer", "consume"),
          Call("logic", "registerPublisher")} \subseteq Range(Main)
<1>1. IsRest(Main, Main) /\ Range(Main) = {Main[i] : i \in 1..Len(Main)}
  <2>1. Main \in Seq(Calls) /\ Len(Main) > 0
    BY LengthOfMain
  <2> QED
    BY <2>1, AllIsLeft
<1>2. CASE IsApplication
  <2>1. /\ Main[2] = Call("logger", "start") /\ Main[7] = Call("consumer", "registerCallback")
        /\ Main[13] = Call("eventLoop", "start") /\ Main[14] = Call("storage", "start")
        /\ Main[15] = Call("logic", "start") /\ Main[16] = Call("consumer", "start")
        /\ Main[20] = Call("consumer", "consume") /\ Main[21] = Call("publisher", "start")
        /\ Main[23] = Call("logic", "registerPublisher")
        /\ Main[24] = Call("application", "start")
    BY <1>2 DEF Main, ApplicationMain, StartLogger, ApplicationInitialize, ApplicationConfigure,
                ApplicationStart, PrepareExchangeQueue
  <2>2. \A i \in {2, 7, 13, 14, 15, 16, 20, 21, 23, 24} : Main[i] \in Range(Main)
    <3>1. Len(Main) = 25
      BY <1>2, LengthOfMain
    <3>2. \A i \in {2, 7, 13, 14, 15, 16, 20, 21, 23, 24} : i \in 1..25
      OBVIOUS
    <3> QED
      BY <1>1, <3>1, <3>2, Zenon
  <2> QED
    BY <1>1, <1>2, <2>1, <2>2, ZenonT(60)
<1>3. CASE ~IsApplication
  <2>1. /\ Main[2] = Call("logger", "start") /\ Main[7] = Call("eventLoop", "start")
        /\ Main[8] = Call("publisher", "start") /\ Main[10] = Call("application", "start")
    BY <1>3 DEF Main, GeneratorMain, StartLogger, GeneratorInitialize, GeneratorConfigure,
                GeneratorStart
  <2>2. \A i \in {2, 7, 8, 10} : Main[i] \in Range(Main)
    BY <1>1, <1>3, LengthOfMain
  <2> QED
    BY <1>1, <1>3, <2>1, <2>2
<1> QED
  BY <1>2, <1>3

\* Logic::stop in another state than STARTED: the calls of LogicStop are left out.
AfterLogicStop(s) == SubSeq(s, Len(LogicStop) + 1, Len(s))

LogicStopIsAt(S, k) == k + 4 \in 1..Len(S) /\ \A i \in 1..4 : S[k + i - 1] = LogicStop[i]

LEMMA LogicStopIsLeftOut ==
    ASSUME NEW S \in Seq(Calls), NEW k \in 1..Len(S), LogicStopIsAt(S, k),
           NEW s, s = From(S, k), NEW r, r = AfterLogicStop(s)
    PROVE  /\ IsRest(r, S)
           /\ Range(r) \subseteq Range(s)
           /\ Range(s) \subseteq Range(r) \cup {Call("logic", "stop"), Call("processors", "join"),
                                                Call("loop", "join"), Call("logic", "stopped")}
<1>1. Len(S) \in Nat /\ k \in 1..Len(S) /\ k + 4 \in 1..Len(S) /\ Len(LogicStop) = 4
  BY LenProperties, StopsAreSequences DEF IsCalls, LogicStopIsAt
<1>2. /\ Range(s) = {S[i] : i \in k..Len(S)}
      /\ Range(From(S, k + 4)) = {S[i] : i \in (k + 4)..Len(S)}
  BY <1>1, FromIsSequence
<1>3. Len(s) = Len(S) - k + 1
  <2>1. \A i \in k..Len(S) : S[i] \in Calls
    BY <1>1, ElementOfSeq
  <2>2. k \in Int /\ Len(S) \in Int /\ k <= Len(S)
    BY <1>1
  <2> QED
    BY <2>1, <2>2, SubSeqProperties DEF From
<1>4. r = From(S, k + 4)
  <2>1. /\ 5 \in 1..(Len(S) - k + 1) /\ Len(S) - k + 1 \in 1..(Len(S) - k + 1)
        /\ Len(S) \in 1..Len(S) /\ k + 5 - 1 = k + 4 /\ k + (Len(S) - k + 1) - 1 = Len(S)
    BY <1>1
  <2>2. SubSeq(SubSeq(S, k, Len(S)), 5, Len(S) - k + 1)
          = SubSeq(S, k + 5 - 1, k + (Len(S) - k + 1) - 1)
    BY <1>1, <2>1, SubSeqOfSubSeq
  <2>3. r = SubSeq(SubSeq(S, k, Len(S)), 5, Len(S) - k + 1)
    BY <1>1, <1>3 DEF From, AfterLogicStop
  <2> QED
    BY <2>1, <2>2, <2>3 DEF From
<1>5. /\ S[k] = Call("logic", "stop") /\ S[k + 1] = Call("processors", "join")
      /\ S[k + 2] = Call("loop", "join") /\ S[k + 3] = Call("logic", "stopped")
  <2>1. /\ S[k + 1 - 1] = LogicStop[1] /\ S[k + 2 - 1] = LogicStop[2]
        /\ S[k + 3 - 1] = LogicStop[3] /\ S[k + 4 - 1] = LogicStop[4]
    BY DEF LogicStopIsAt
  <2>2. k + 1 - 1 = k /\ k + 2 - 1 = k + 1 /\ k + 3 - 1 = k + 2 /\ k + 4 - 1 = k + 3
    BY <1>1
  <2> QED
    BY <2>1, <2>2 DEF LogicStop
<1>6. \A i \in k..Len(S) : i \in {k, k + 1, k + 2, k + 3} \cup ((k + 4)..Len(S))
  BY <1>1
<1>7. \A i \in (k + 4)..Len(S) : i \in k..Len(S)
  BY <1>1
<1>8. IsRest(r, S)
  BY <1>1, <1>4, Zenon DEF IsRest
<1>9. Range(r) \subseteq Range(s)
  <2>1. Range(r) = {S[i] : i \in (k + 4)..Len(S)}
    BY <1>2, <1>4
  <2> QED
    BY <1>2, <1>7, <2>1, Zenon
<1>10. ASSUME NEW i \in k..Len(S)
       PROVE  S[i] \in Range(r) \cup {Call("logic", "stop"), Call("processors", "join"),
                                      Call("loop", "join"), Call("logic", "stopped")}
  BY <1>2, <1>4, <1>5, <1>6, Zenon
<1> QED
  BY <1>2, <1>8, <1>9, <1>10, Zenon

LEMMA HandlerLeavesOut ==
    ASSUME NEW s, IsRest(s, SignalHandler), Head(s) = Call("logic", "stop"),
           NEW r, r = AfterLogicStop(s)
    PROVE  /\ IsRest(r, SignalHandler)
           /\ Range(r) \subseteq Range(s)
           /\ Range(s) \subseteq Range(r) \cup {Call("logic", "stop"), Call("processors", "join"),
                                                Call("loop", "join"), Call("logic", "stopped")}
<1>1. PICK k \in 1..Len(SignalHandler) : s = From(SignalHandler, k)
  BY DEF IsRest
<1>2. /\ SignalHandler \in Seq(Calls) /\ Len(SignalHandler) = IF IsApplication THEN 15 ELSE 9
      /\ SignalHandler[k] = Call("logic", "stop")
  BY <1>1, LengthOfHandler, FromIsSequence
<1>3. IsApplication
  <2>1. CASE ~IsApplication
    BY <1>2, <2>1, GeneratorHandlerPositions DEF At
  <2> QED
    BY <2>1
<1>4. k = 2
  BY <1>2, <1>3, ApplicationHandlerPositions DEF At
<1>5. LogicStopIsAt(SignalHandler, k)
  <2>1. /\ SignalHandler[2] = LogicStop[1] /\ SignalHandler[3] = LogicStop[2]
        /\ SignalHandler[4] = LogicStop[3] /\ SignalHandler[5] = LogicStop[4]
    BY <1>3 DEF SignalHandler, BaseStop, ApplicationStop, LogicStop, StopLoop, BaseDeinitialize,
                ApplicationDeinitialize
  <2> QED
    BY <1>2, <1>3, <1>4, <2>1 DEF LogicStopIsAt
<1> QED
  BY <1>1, <1>2, <1>5, LogicStopIsLeftOut

LEMMA DestructionLeavesOut ==
    ASSUME NEW s, IsRest(s, Destruction), Head(s) = Call("logic", "stop"),
           NEW r, r = AfterLogicStop(s)
    PROVE  /\ IsRest(r, Destruction)
           /\ Range(r) \subseteq Range(s)
           /\ Range(s) \subseteq Range(r) \cup {Call("logic", "stop"), Call("processors", "join"),
                                                Call("loop", "join"), Call("logic", "stopped")}
<1>1. PICK k \in 1..Len(Destruction) : s = From(Destruction, k)
  BY DEF IsRest
<1>2. /\ Destruction \in Seq(Calls) /\ Len(Destruction) = IF IsApplication THEN 8 ELSE 2
      /\ Destruction[k] = Call("logic", "stop")
  BY <1>1, LengthOfDestruction, FromIsSequence
<1>3. IsApplication
  <2>1. CASE ~IsApplication
    BY <1>2, <2>1, GeneratorDestructionPositions DEF At
  <2> QED
    BY <2>1
<1>4. k = 1
  BY <1>2, <1>3, ApplicationDestructionPositions DEF At
<1>5. LogicStopIsAt(Destruction, k)
  <2>1. /\ Destruction[1] = LogicStop[1] /\ Destruction[2] = LogicStop[2]
        /\ Destruction[3] = LogicStop[3] /\ Destruction[4] = LogicStop[4]
    BY <1>3 DEF Destruction, LogicStop
  <2> QED
    BY <1>2, <1>3, <1>4, <2>1 DEF LogicStopIsAt
<1> QED
  BY <1>1, <1>2, <1>5, LogicStopIsLeftOut

-----------------------------------------------------------------------------
(* The inductive invariant                                                 *)

Workers == Threads \cup {"main"}

\* The thread still has to make the call.
Ahead(t, call) == call \in Range(todo[t])

Exits == Call("main", "exit")

\* main is in its own calls, a thread is in the handler, main is in the destructors.
Starting == ~installed /\ ~failed

Handling(t) == installed /\ Ahead(t, Exits)

Leaving == failed \/ (installed /\ todo["main"] # <<>> /\ ~Ahead("main", Exits))

\* The parts main starts
Uses == IF IsApplication THEN Parts ELSE {"logger", "application", "publisher"}

Types ==
    /\ program \in Programs
    /\ state \in [Parts -> States]
    /\ todo \in [Workers -> Seq(Calls)]
    /\ told \subseteq Threads
    /\ threads \subseteq Threads
    /\ joiner \in [Threads -> Threads \cup {"main", "nobody"}]
    /\ channels \subseteq {"consumer", "publisher"}
    /\ asleep \in BOOLEAN /\ callback \in BOOLEAN /\ consuming \in BOOLEAN
    /\ registered \in BOOLEAN /\ failed \in BOOLEAN /\ installed \in BOOLEAN
    /\ strayed \in BOOLEAN
    /\ signals \in 0..MaxSignals
    /\ code \in {0, 2, 3}
    /\ ended \in {"no", "exited", "killed", "aborted"}

\* Which calls a thread can have left
CallsLeft ==
    /\ ~(installed /\ failed)
    /\ Starting => IsRest(todo["main"], Main)
    /\ failed => IsRest(todo["main"], Destruction)
    /\ ~installed => \A t \in Threads : todo[t] = <<>>
    /\ installed => \A t \in Workers : \/ todo[t] = <<>>
                                       \/ IsRest(todo[t], SignalHandler)
                                       \/ t = "main" /\ IsRest(todo[t], Destruction)

\* The first SIGINT is main's, and only a running thread takes another one.
SignalsCounted ==
    /\ installed => (todo["main"] = <<>> <=> signals = 0)
    /\ signals <= 1 => \A t \in Threads : todo[t] = <<>> /\ joiner[t] \in {"nobody", "main"}
    /\ \A t \in Threads : todo[t] # <<>> => t \in threads
    /\ ~installed /\ ended = "no" => signals = 0
    /\ failed <=> code # 0
    /\ strayed => failed

\* While main starts the program, what it has passed is up ...
StartedParts ==
    Starting =>
        /\ told = {}
        /\ \A t \in Threads : joiner[t] = "nobody"
        /\ \A p \in Uses : Ahead("main", Call(p, "start")) \/ state[p] = "STARTED"
        /\ \A p \in Parts : state[p] \notin {"STOPPED", "DEINITIALIZED"}

StartedThings ==
    Starting =>
        /\ \A p \in Uses \cap {"consumer", "publisher"} :
              Ahead("main", Call(p, "start")) \/ p \in channels
        /\ Ahead("main", Call("eventLoop", "start")) \/ "eventLoop" \in threads
        /\ IsApplication =>
             /\ Ahead("main", Call("logic", "start")) \/ {"processors", "loop"} \subseteq threads
             /\ Ahead("main", Call("consumer", "registerCallback")) \/ callback
             /\ Ahead("main", Call("consumer", "consume")) \/ consuming
             /\ Ahead("main", Call("logic", "registerPublisher")) \/ registered
        /\ registered => "publisher" \in channels

\* ... and stays so until the first SIGINT.
Up ==
    installed /\ signals = 0 =>
        /\ StartedMeansStarted
        /\ told = {}
        /\ state["logger"] = "STARTED"
        /\ \A t \in Threads : joiner[t] = "nobody"

\* The generator has no consumer, no Logic and no storage.
GeneratorParts ==
    ~IsApplication =>
        /\ threads \subseteq {"eventLoop"}
        /\ channels \subseteq {"publisher"}
        /\ ~consuming /\ ~registered
        /\ state["logic"] = "CREATED" /\ state["consumer"] = "CREATED"

\* A thread that was joined has ended, and Logic's threads run in state STARTED only.
JoinedEnded ==
    /\ \A t \in Workers, thread \in Threads :
          Handling(t) => Ahead(t, Call(thread, "join")) \/ thread \notin threads
    /\ failed => \A thread \in {"processors", "loop"} :
                    Ahead("main", Call(thread, "join")) \/ thread \notin threads
    /\ threads \cap {"processors", "loop"} # {} => state["logic"] = "STARTED"

\* The application is STARTED until all threads have ended; then main is alone.
StoppedLast ==
    installed =>
        \/ /\ state["application"] = "STARTED"
           /\ todo["main"] = <<>> \/ Ahead("main", Call("application", "stopped"))
        \/ /\ threads = {}
           /\ todo["main"] # <<>> /\ ~Ahead("main", Call("application", "stopped"))
           /\ state["application"] \in {"STOPPED", "DEINITIALIZED"}
           /\ \A p \in {"consumer", "publisher", "logic"} : state[p] # "STARTED"

\* What main has passed in the handler is down.
PassedIsDown ==
    Handling("main") =>
        /\ \A p \in {"consumer", "publisher"} :
              Ahead("main", Call(p, "stop")) \/ state[p] # "STARTED"
        /\ Ahead("main", Call("logic", "stopped")) \/ state["logic"] # "STARTED"
        /\ Ahead("main", Call("application", "deinitialize"))
             \/ state["application"] = "DEINITIALIZED"
        /\ Ahead("main", Call("logger", "stop")) \/ state["logger"] # "STARTED"

\* What was started is never back before its start, and what main has deinitialized stays so.
WentDown ==
    /\ installed => \A p \in Uses \cap {"consumer", "publisher", "logic"} :
                      state[p] \in {"STARTED", "STOPPED", "DEINITIALIZED"}
    /\ Handling("main") => \A p \in Uses \cap {"consumer", "publisher"} :
                             \/ Ahead("main", Call(p, "deinitialize"))
                             \/ state[p] = "DEINITIALIZED"

Destroyed ==
    /\ Leaving => \A p \in {"consumer", "publisher"} :
                     Ahead("main", Call(p, "destroy")) \/ p \notin channels
    /\ Leaving /\ installed =>
          /\ threads = {}
          /\ state["application"] = "DEINITIALIZED" /\ state["logger"] # "STARTED"

\* No part writes to the log: it is not initialized yet, or is down.
Silent ==
    /\ \A p \in {"application", "consumer", "publisher"} : state[p] \in {"CREATED", "DEINITIALIZED"}
    /\ state["logic"] \in {"CREATED", "STOPPED", "DEINITIALIZED"}

LogOpen ==
    /\ installed => state["logger"] \in {"STARTED", "STOPPED"}
    /\ state["logger"] = "STARTED" \/ (threads = {} /\ Silent)

ChannelsOpen ==
    /\ consuming => "consumer" \in channels
    /\ state["consumer"] = "STOPPED" => "processors" \notin threads
    /\ registered /\ "loop" \in threads => "publisher" \in channels

IInv ==
    /\ Types
    /\ CallsLeft
    /\ SignalsCounted
    /\ StartedParts
    /\ StartedThings
    /\ Up
    /\ GeneratorParts
    /\ JoinedEnded
    /\ StoppedLast
    /\ PassedIsDown
    /\ WentDown
    /\ Destroyed
    /\ LogOpen
    /\ ChannelsOpen
    /\ EndsAreExplained

-----------------------------------------------------------------------------
(* The initial states                                                      *)

LEMMA InitEstablishes ==
    Init => IInv
<1> SUFFICES ASSUME Init PROVE IInv
  OBVIOUS
<1>1. todo["main"] = Main /\ \A t \in Threads : todo[t] = <<>>
  BY DEF Init, Threads
<1>2. ~installed /\ ~failed /\ signals = 0 /\ threads = {} /\ channels = {} /\ ended = "no"
      /\ ~consuming /\ ~registered /\ told = {} /\ code = 0 /\ ~strayed
      /\ (\A p \in Parts : state[p] = "CREATED") /\ (\A t \in Threads : joiner[t] = "nobody")
  BY DEF Init
<1>3. Types
  <2>1. todo \in [Workers -> Seq(Calls)]
    BY LengthOfMain DEF Init, Workers
  <2>2. state \in [Parts -> States] /\ joiner \in [Threads -> Threads \cup {"main", "nobody"}]
    BY DEF Init, States
  <2>3. /\ told \subseteq Threads /\ threads \subseteq Threads /\ signals \in 0..MaxSignals
        /\ channels \subseteq {"consumer", "publisher"}
    BY MaxSignalsAssumption DEF Init
  <2> QED
    BY <2>1, <2>2, <2>3 DEF Init, Types
<1>4. CallsLeft
  BY <1>1, <1>2, MainStarts DEF CallsLeft, Starting
<1>5. SignalsCounted
  BY <1>1, <1>2 DEF SignalsCounted
<1>6. StartedParts
  BY <1>1, <1>2, MainStarts DEF StartedParts, Ahead, Uses, Parts
<1>7. StartedThings
  BY <1>1, <1>2, MainStarts DEF StartedThings, Ahead, Uses, Parts
<1>8. GeneratorParts
  BY <1>2 DEF GeneratorParts, Parts
<1>9. Up /\ StoppedLast /\ PassedIsDown /\ WentDown /\ Destroyed /\ JoinedEnded
  BY <1>2 DEF Up, StoppedLast, PassedIsDown, WentDown, Destroyed, JoinedEnded, Handling, Leaving
<1>10. LogOpen /\ ChannelsOpen
  BY <1>2 DEF LogOpen, Silent, ChannelsOpen, Parts
<1>11. EndsAreExplained
  BY <1>2 DEF EndsAreExplained
<1> QED
  BY <1>3, <1>4, <1>5, <1>6, <1>7, <1>8, <1>9, <1>10, <1>11 DEF IInv

LEMMA SameProgram ==
    ASSUME program' = program
    PROVE  /\ Main' = Main /\ SignalHandler' = SignalHandler /\ Destruction' = Destruction
           /\ IsApplication' = IsApplication /\ Uses' = Uses
           /\ \A t : IsRest(todo[t], Main)' <=> IsRest(todo'[t], Main)
           /\ \A t : IsRest(todo[t], SignalHandler)' <=> IsRest(todo'[t], SignalHandler)
           /\ \A t : IsRest(todo[t], Destruction)' <=> IsRest(todo'[t], Destruction)
<1>1. IsApplication' = IsApplication
  BY DEF IsApplication
<1>2. Main' = Main
  BY <1>1 DEF Main
<1>3. BaseStop' = BaseStop /\ BaseDeinitialize' = BaseDeinitialize /\ Destruction' = Destruction
  BY <1>1 DEF BaseStop, BaseDeinitialize, Destruction
<1>4. SignalHandler' = SignalHandler
  BY <1>3 DEF SignalHandler
<1>5. Uses' = Uses
  BY <1>1 DEF Uses
<1> QED
  BY <1>1, <1>2, <1>3, <1>4, <1>5 DEF IsRest, From

-----------------------------------------------------------------------------
(* The calls of main                                                       *)

\* What main's call can do to the parts and the threads: it starts what it is about and
\* leaves the rest.
StartsParts ==
    LET call == Head(todo["main"])
    IN  /\ state' \in [Parts -> States]
        /\ \A p \in Parts :
             /\ state[p] = "STARTED" => state'[p] = "STARTED"
             /\ state'[p] \in {"STOPPED", "DEINITIALIZED"} => state'[p] = state[p]
             /\ call = Call(p, "start") => state'[p] = "STARTED"
             /\ state'[p] = "STARTED" => state[p] = "STARTED" \/ call = Call(p, "start")
             /\ state'[p] # state[p] => call[1] = p

StartsThings ==
    LET call == Head(todo["main"])
    IN  /\ threads \subseteq threads' /\ channels \subseteq channels'
        /\ threads' \subseteq Threads /\ channels' \subseteq {"consumer", "publisher"}
        /\ threads' # threads => call[2] = "start" /\ call[1] \in {"eventLoop", "logic"}
        /\ \A thread \in {"processors", "loop"} :
             thread \in threads' => thread \in threads \/ call = Call("logic", "start")
        /\ \A p \in channels' : p \in channels \/ call = Call(p, "start")
        /\ \A p \in {"consumer", "publisher"} : call = Call(p, "start") => p \in channels'
        /\ call = Call("eventLoop", "start") => "eventLoop" \in threads'
        /\ call = Call("logic", "start") => {"processors", "loop"} \subseteq threads'
        /\ callback' \in BOOLEAN /\ consuming' \in BOOLEAN /\ registered' \in BOOLEAN
        /\ callback => callback'
        /\ consuming => consuming'
        /\ registered => registered'
        /\ call = Call("consumer", "registerCallback") => callback'
        /\ call = Call("consumer", "consume") => consuming'
        /\ call = Call("logic", "registerPublisher") => registered'
        /\ consuming' => consuming \/ call = Call("consumer", "consume")
        /\ registered' => registered \/ call = Call("logic", "registerPublisher")

Starts ==
    /\ StartsParts
    /\ StartsThings
    /\ todo' = [todo EXCEPT !["main"] = Tail(todo["main"])]
    /\ UNCHANGED <<program, told, joiner, asleep, processVars, strayed>>

\* What main's next call is
LEMMA MainCall ==
    ASSUME IInv, Starting
    PROVE  LET call == Head(todo["main"])
           IN  /\ todo["main"] # <<>> /\ call \in Calls /\ call = Call(call[1], call[2])
               /\ call[1] \in Parts \cup Threads \cup {"main"}
               /\ call[2] \notin StopOps /\ IsMainCall(call)
               /\ ~IsApplication => call[1] \in {"logger", "application", "publisher",
                                                "eventLoop", "main"}
<1>1. IsRest(todo["main"], Main)
  BY DEF IInv, CallsLeft
<1>2. Head(todo["main"]) \in Calls
  BY <1>1, MainGoesOn
<1>3. \A call \in Calls : /\ call = Call(call[1], call[2])
                          /\ call[1] \in Parts \cup Threads \cup {"main"}
  BY DEF Calls, Call
<1> QED
  BY <1>1, <1>2, <1>3, MainGoesOn

\* The calls that only change the state of their part
ReachesState(t) ==
    \/ Initialize(t) \/ Advance(t) \/ ConfigureLogger(t) \/ OpenLog(t) \/ ConfigureStorage(t)
    \/ StartStorage(t) \/ Configure(t)

LEMMA ReachStarts ==
    ASSUME IInv, Starting, ReachesState("main"),
           UNCHANGED processVars, UNCHANGED <<program, strayed>>
    PROVE  Starts
<1> DEFINE call == Head(todo["main"])
<1>1. /\ todo["main"] # <<>> /\ call = Call(call[1], call[2])
      /\ call[2] \notin StopOps /\ IsMainCall(call)
  BY MainCall
<1>2. state \in [Parts -> States] /\ threads \subseteq Threads
      /\ channels \subseteq {"consumer", "publisher"} /\ callback \in BOOLEAN
      /\ consuming \in BOOLEAN /\ registered \in BOOLEAN
  BY DEF IInv, Types
<1>3. PICK from \in States, to \in {"INITIALIZED", "CONFIGURED", "STARTED"} :
        /\ Reach("main", from, to)
        /\ from # "STARTED"
        /\ call[2] \in {"initialize", "configure", "start"}
        /\ call[1] \in Parts
        /\ call[1] \in {"consumer", "publisher", "logic"} => call[2] # "start"
        /\ to = "STARTED" <=> call[2] = "start"
  BY DEF ReachesState, Initialize, Advance, ConfigureLogger, OpenLog, ConfigureStorage,
         StartStorage, Configure, Calling, Part, Parts, States
<1>4. /\ state[call[1]] = from /\ state' = [state EXCEPT ![call[1]] = to]
      /\ todo' = [todo EXCEPT !["main"] = Tail(todo["main"])]
      /\ UNCHANGED <<callback, consuming, registered, channels, threadVars>>
  BY <1>3 DEF Reach, SetState, Done, Go, Part
<1> HIDE DEF call
<1>5. \A p, op : call = Call(p, op) => call[1] = p /\ call[2] = op
  BY DEF Call
<1>6. StartsParts
  BY <1>1, <1>2, <1>3, <1>4, <1>5 DEF StartsParts, call, States
<1>7. /\ threads' = threads /\ channels' = channels /\ callback' = callback
      /\ consuming' = consuming /\ registered' = registered
  BY <1>4 DEF threadVars
<1>8. /\ call[2] \in {"registerCallback", "consume", "registerPublisher"} => FALSE
      /\ call[2] = "start" => call[1] \notin {"consumer", "publisher", "logic", "eventLoop"}
  BY <1>3 DEF Parts
<1>9. StartsThings
  BY <1>2, <1>5, <1>7, <1>8 DEF StartsThings, call
<1> QED
  BY <1>4, <1>6, <1>9 DEF Starts, threadVars

\* The calls that start threads and handlers, and those that set one thing
StartsSomething(t) ==
    \/ StartEventLoop(t) \/ StartLogic(t) \/ StartHandler(t) \/ RegisterCallback(t)
    \/ Declare(t) \/ Consume(t) \/ RegisterPublisher(t) \/ WriteData(t)

LEMMA SomethingStarts ==
    ASSUME IInv, Starting, StartsSomething("main"),
           UNCHANGED processVars, UNCHANGED <<program, strayed>>
    PROVE  Starts
<1> DEFINE call == Head(todo["main"])
<1>1. call = Call(call[1], call[2]) /\ call[2] \notin StopOps /\ IsMainCall(call)
  BY MainCall
<1>2. state \in [Parts -> States] /\ threads \subseteq Threads
      /\ channels \subseteq {"consumer", "publisher"} /\ callback \in BOOLEAN
      /\ consuming \in BOOLEAN /\ registered \in BOOLEAN
  BY DEF IInv, Types
<1> HIDE DEF call
<1>3. \A p, op : call = Call(p, op) => call[1] = p /\ call[2] = op
  BY DEF Call
<1>4. /\ todo' = [todo EXCEPT !["main"] = Tail(todo["main"])]
      /\ UNCHANGED <<told, joiner, asleep>>
  BY DEF StartsSomething, StartEventLoop, StartLogic, StartHandler, RegisterCallback, Declare,
         Consume, RegisterPublisher, WriteData, Done, Go, threadVars
<1>5. CASE StartEventLoop("main")
  <2>1. /\ call = Call("eventLoop", "start") /\ threads' = threads \cup {"eventLoop"}
        /\ UNCHANGED partVars
    BY <1>1, <1>5 DEF StartEventLoop, Calling, Part, call
  <2>2. StartsParts
    BY <1>2, <1>3, <2>1 DEF StartsParts, partVars, call, Parts
  <2>3. StartsThings
    BY <1>2, <1>3, <2>1 DEF StartsThings, partVars, call, Threads
  <2> QED
    BY <1>4, <2>2, <2>3 DEF Starts
<1>6. CASE StartLogic("main")
  <2>1. /\ call = Call("logic", "start") /\ threads' = threads \cup {"processors", "loop"}
        /\ state' = [state EXCEPT !["logic"] = "STARTED"] /\ state["logic"] = "CONFIGURED"
        /\ UNCHANGED <<callback, consuming, registered, channels>>
    BY <1>1, <1>6 DEF StartLogic, SetState, Calling, Part, call
  <2>2. StartsParts
    BY <1>2, <1>3, <2>1 DEF StartsParts, call, Parts, States
  <2>3. StartsThings
    BY <1>2, <1>3, <2>1 DEF StartsThings, call, Threads
  <2> QED
    BY <1>4, <2>2, <2>3 DEF Starts
<1>7. CASE StartHandler("main")
  <2>1. /\ call[2] = "start" /\ call[1] \in {"consumer", "publisher"}
        /\ state' = [state EXCEPT ![call[1]] = "STARTED"]
        /\ channels' = channels \cup {call[1]}
        /\ UNCHANGED <<threads, callback, consuming, registered>>
    BY <1>7 DEF StartHandler, OpenedBy, SetState, Calling, Part, call, threadVars
  <2>2. \A p : call = Call(p, "start") <=> p = call[1]
    BY <1>1, <1>3, <2>1
  <2>3. StartsParts
    BY <1>2, <1>3, <2>1, <2>2 DEF StartsParts, call, Parts, States
  <2>4. /\ call # Call("eventLoop", "start") /\ call # Call("logic", "start")
        /\ \A p : \A op \in {"registerCallback", "consume", "registerPublisher"} : call # Call(p, op)
    BY <1>3, <2>1
  <2>5. /\ channels \subseteq channels' /\ channels' \subseteq {"consumer", "publisher"}
        /\ \A p \in channels' : p \in channels \/ call = Call(p, "start")
        /\ \A p \in {"consumer", "publisher"} : call = Call(p, "start") => p \in channels'
    BY <1>2, <2>1, <2>2
  <2>6. StartsThings
    BY <1>2, <2>1, <2>4, <2>5 DEF StartsThings, call
  <2> QED
    BY <1>4, <2>3, <2>6 DEF Starts
<1>8. CASE RegisterCallback("main")
  <2>1. call[2] = "registerCallback" /\ callback' = TRUE
        /\ UNCHANGED <<state, consuming, registered, channels, threads>>
    BY <1>8 DEF RegisterCallback, Calling, call, threadVars
  <2>2. StartsParts
    BY <1>2, <1>3, <2>1 DEF StartsParts, call
  <2>3. StartsThings
    BY <1>2, <1>3, <2>1 DEF StartsThings, call
  <2> QED
    BY <1>4, <2>2, <2>3 DEF Starts
<1>9. CASE Declare("main") \/ WriteData("main")
  <2>1. call[2] \in {"declareExchange", "declareQueue", "bindQueue", "writeData"}
        /\ UNCHANGED <<partVars, threads>>
    BY <1>9 DEF Declare, Declares, WriteData, Calling, call, threadVars
  <2>2. StartsParts
    BY <1>2, <1>3, <2>1 DEF StartsParts, call, partVars
  <2>3. StartsThings
    BY <1>2, <1>3, <2>1 DEF StartsThings, call, partVars
  <2> QED
    BY <1>4, <2>2, <2>3 DEF Starts
<1>10. CASE Consume("main")
  <2>1. call[2] = "consume" /\ consuming' = TRUE
        /\ UNCHANGED <<state, callback, registered, channels, threads>>
    BY <1>10 DEF Consume, Calling, call, threadVars
  <2>2. call = Call("consumer", "consume")
    BY <1>1, <2>1 DEF IsMainCall
  <2>3. StartsParts
    BY <1>2, <1>3, <2>1 DEF StartsParts, call
  <2>4. StartsThings
    BY <1>2, <1>3, <2>1, <2>2 DEF StartsThings, call
  <2> QED
    BY <1>4, <2>3, <2>4 DEF Starts
<1>11. CASE RegisterPublisher("main")
  <2>1. call[2] = "registerPublisher" /\ registered' = TRUE
        /\ UNCHANGED <<state, callback, consuming, channels, threads>>
    BY <1>11 DEF RegisterPublisher, Calling, call, threadVars
  <2>2. call = Call("logic", "registerPublisher")
    BY <1>1, <2>1 DEF IsMainCall
  <2>3. StartsParts
    BY <1>2, <1>3, <2>1 DEF StartsParts, call
  <2>4. StartsThings
    BY <1>2, <1>3, <2>1, <2>2 DEF StartsThings, call
  <2> QED
    BY <1>4, <2>3, <2>4 DEF Starts
<1> QED
  BY <1>5, <1>6, <1>7, <1>8, <1>9, <1>10, <1>11 DEF StartsSomething

\* What main does next is done, and everything else that was ahead still is.
LEMMA MainGoesForward ==
    ASSUME IInv, ended = "no", Starting, Starts, Head(todo["main"])[2] # "signal"
    PROVE  IInv'
<1> DEFINE call == Head(todo["main"])
<1>1. IsRest(todo["main"], Main)
  BY DEF IInv, CallsLeft
<1>2. /\ call = Call(call[1], call[2]) /\ call[2] \notin StopOps /\ IsMainCall(call)
      /\ ~IsApplication => call[1] \in {"logger", "application", "publisher", "eventLoop", "main"}
  BY MainCall
<1>3. \A p, op : call = Call(p, op) => call[1] = p /\ call[2] = op
  BY DEF Call
<1>4. call # Call("main", "signal")
  BY <1>3
<1>5. /\ IsRest(Tail(todo["main"]), Main)
      /\ Range(todo["main"]) = {call} \cup Range(Tail(todo["main"]))
  BY <1>1, <1>4, MainGoesOn
<1>6. /\ todo \in [Workers -> Seq(Calls)] /\ Threads \subseteq Workers /\ "main" \in Workers
      /\ \A t \in Threads : todo[t] = <<>> /\ t # "main"
  BY DEF IInv, Types, CallsLeft, Starting, Workers, Threads
<1>7. todo'["main"] = Tail(todo["main"]) /\ \A t \in Threads : todo'[t] = <<>>
  BY <1>6 DEF Starts
<1>8. UNCHANGED <<program, told, joiner, asleep, strayed, failed, signals, installed, code, ended>>
  BY DEF Starts, processVars
<1>9. /\ ~installed' /\ ~failed' /\ signals' = 0 /\ told' = {} /\ code' = 0 /\ ~strayed'
      /\ \A t \in Threads : joiner'[t] = "nobody"
  BY <1>8 DEF Starting, IInv, SignalsCounted, StartedParts
<1>10. /\ \A c : Ahead("main", c) => c = call \/ Ahead("main", c)'
       /\ \A c : ~Ahead("main", c) => ~Ahead("main", c)'
  BY <1>5, <1>7 DEF Ahead
<1>11. StartsParts /\ StartsThings
  BY DEF Starts
<1>12. /\ Main' = Main /\ IsApplication' = IsApplication /\ Uses' = Uses
       /\ IsRest(todo["main"], Main)' <=> IsRest(todo'["main"], Main)
  BY <1>8, SameProgram
<1>13. Uses \subseteq Parts /\ (IsApplication => Uses = Parts) /\ {"logger", "publisher"} \subseteq Uses
  BY DEF Uses, Parts
<1>14. Types'
  <2>1. todo' \in [Workers -> Seq(Calls)]
    <3>1. Tail(todo["main"]) \in Seq(Calls)
      BY <1>5, MainGoesOn
    <3> QED
      BY <1>6, <3>1 DEF Starts
  <2> QED
    BY <1>8, <1>11, <2>1 DEF IInv, Types, StartsParts, StartsThings
<1>15. CallsLeft'
  BY <1>5, <1>7, <1>9, <1>12 DEF CallsLeft
<1>16. SignalsCounted'
  BY <1>7, <1>9 DEF SignalsCounted
<1> HIDE DEF call
<1>17. StartedParts'
  <2>1. \A p \in Uses : Ahead("main", Call(p, "start"))' \/ state'[p] = "STARTED"
    BY <1>10, <1>11, <1>13 DEF IInv, StartedParts, Starting, StartsParts, call
  <2>2. \A p \in Parts : state'[p] \notin {"STOPPED", "DEINITIALIZED"}
    BY <1>11 DEF IInv, StartedParts, Starting, StartsParts
  <2> QED
    BY <1>9, <1>12, <2>1, <2>2 DEF StartedParts, Ahead
<1>18. registered' => "publisher" \in channels'
  <2>1. call = Call("logic", "registerPublisher") => "publisher" \in channels
    <3>1. call = Call("logic", "registerPublisher") => ~Ahead("main", Call("publisher", "start"))
      BY <1>1, MainOrder DEF Ahead, call
    <3> QED
      BY <1>13, <3>1 DEF IInv, StartedThings
  <2> QED
    BY <1>11, <2>1 DEF IInv, StartedThings, StartsThings, call
<1>19. consuming' => "consumer" \in channels'
  <2>1. call = Call("consumer", "consume") => "consumer" \in channels
    <3>1. call = Call("consumer", "consume") => ~Ahead("main", Call("consumer", "start"))
      BY <1>1, MainOrder DEF Ahead, call
    <3>2. call = Call("consumer", "consume") => "consumer" \in Uses
      BY <1>2, <1>3, <1>13 DEF Parts
    <3> QED
      BY <3>1, <3>2 DEF IInv, StartedThings
  <2> QED
    BY <1>11, <2>1 DEF IInv, ChannelsOpen, StartsThings, call
<1>20. StartedThings'
  <2>1. \A p \in Uses \cap {"consumer", "publisher"} :
           Ahead("main", Call(p, "start"))' \/ p \in channels'
    BY <1>10, <1>11 DEF IInv, StartedThings, StartsThings, call
  <2>2. Ahead("main", Call("eventLoop", "start"))' \/ "eventLoop" \in threads'
    BY <1>10, <1>11 DEF IInv, StartedThings, StartsThings, call
  <2>3. ASSUME IsApplication
        PROVE  /\ Ahead("main", Call("logic", "start"))' \/ {"processors", "loop"} \subseteq threads'
               /\ Ahead("main", Call("consumer", "registerCallback"))' \/ callback'
               /\ Ahead("main", Call("consumer", "consume"))' \/ consuming'
               /\ Ahead("main", Call("logic", "registerPublisher"))' \/ registered'
    <3>1. Ahead("main", Call("logic", "start"))' \/ {"processors", "loop"} \subseteq threads'
      BY <1>10, <1>11, <2>3 DEF IInv, StartedThings, StartsThings, call
    <3>2. Ahead("main", Call("consumer", "registerCallback"))' \/ callback'
      BY <1>10, <1>11, <2>3 DEF IInv, StartedThings, StartsThings, call
    <3>3. Ahead("main", Call("consumer", "consume"))' \/ consuming'
      BY <1>10, <1>11, <2>3 DEF IInv, StartedThings, StartsThings, call
    <3>4. Ahead("main", Call("logic", "registerPublisher"))' \/ registered'
      BY <1>10, <1>11, <2>3 DEF IInv, StartedThings, StartsThings, call
    <3> QED
      BY <3>1, <3>2, <3>3, <3>4
  <2> QED
    BY <1>8, <1>12, <1>18, <2>1, <2>2, <2>3 DEF StartedThings, Ahead, IsApplication
<1>21. GeneratorParts'
  <2> SUFFICES ASSUME ~IsApplication
               PROVE  /\ threads' \subseteq {"eventLoop"} /\ channels' \subseteq {"publisher"}
                      /\ ~consuming' /\ ~registered'
                      /\ state'["logic"] = "CREATED" /\ state'["consumer"] = "CREATED"
    BY <1>8 DEF GeneratorParts, IsApplication
  <2>1. \A op : call # Call("logic", op) /\ call # Call("consumer", op)
    BY <1>2, <1>3
  <2>2. call[1] # "logic" /\ call[1] # "consumer"
    BY <1>2
  <2>3. state'["logic"] = "CREATED" /\ state'["consumer"] = "CREATED"
    BY <1>11, <2>2 DEF IInv, GeneratorParts, StartsParts, Parts, call
  <2>4. threads' \subseteq {"eventLoop"}
    BY <1>11, <2>1 DEF IInv, GeneratorParts, StartsThings, Threads, call
  <2>5. channels' \subseteq {"publisher"}
    BY <1>11, <2>1 DEF IInv, GeneratorParts, StartsThings, call
  <2>6. ~consuming' /\ ~registered'
    BY <1>11, <2>1 DEF IInv, GeneratorParts, StartsThings, call
  <2> QED
    BY <2>3, <2>4, <2>5, <2>6
<1>22. JoinedEnded'
  <2>1. ASSUME NEW thread \in {"processors", "loop"}, thread \in threads'
        PROVE  state'["logic"] = "STARTED"
    <3>1. thread \in threads \/ call = Call("logic", "start")
      BY <1>11, <2>1 DEF StartsThings, call
    <3>2. thread \in threads => state["logic"] = "STARTED"
      BY DEF IInv, JoinedEnded
    <3> QED
      BY <1>11, <3>1, <3>2 DEF StartsParts, Parts, call
  <2> QED
    BY <1>9, <2>1 DEF JoinedEnded, Handling
<1>23. LogOpen'
  <2>1. CASE state["logger"] = "STARTED"
    BY <1>9, <1>11, <2>1 DEF LogOpen, StartsParts, Parts
  <2>2. CASE call[1] # "logger"
    <3>1. ~Ahead("main", Call("logger", "start"))
      BY <1>1, <2>2, MainOrder DEF Ahead, call
    <3>2. state["logger"] = "STARTED"
      BY <1>13, <3>1 DEF IInv, StartedParts
    <3> QED
      BY <2>1, <3>2
  <2>3. CASE state["logger"] # "STARTED" /\ call[1] = "logger"
    <3>1. threads = {} /\ Silent
      BY <2>3 DEF IInv, LogOpen
    <3>2. threads' = {}
      BY <1>11, <2>3, <3>1 DEF StartsThings, call
    <3>3. \A p \in {"application", "consumer", "publisher", "logic"} : state'[p] = state[p]
      BY <1>11, <2>3 DEF StartsParts, Parts, call
    <3> QED
      BY <1>9, <3>1, <3>2, <3>3 DEF LogOpen, Silent
  <2> QED
    BY <2>1, <2>2, <2>3
<1>24. ChannelsOpen'
  <2>1. state'["consumer"] # "STOPPED"
    BY <1>11 DEF IInv, StartedParts, StartsParts, Parts
  <2> QED
    BY <1>18, <1>19, <2>1 DEF ChannelsOpen
<1>25. Up' /\ StoppedLast' /\ PassedIsDown' /\ WentDown' /\ Destroyed' /\ EndsAreExplained'
  BY <1>8, <1>9 DEF Up, StoppedLast, PassedIsDown, WentDown, Destroyed, Handling, Leaving, EndsAreExplained
<1> QED
  BY <1>14, <1>15, <1>16, <1>17, <1>20, <1>21, <1>22, <1>23, <1>24, <1>25 DEF IInv

\* Nothing is left to start when main installs the handler.
LEMMA HandlerIsInstalled ==
    ASSUME IInv, ended = "no", Starting, InstallHandler("main"), UNCHANGED <<program, strayed>>
    PROVE  IInv'
<1> DEFINE call == Head(todo["main"])
<1>1. IsRest(todo["main"], Main)
  BY DEF IInv, CallsLeft
<1>2. call = Call("main", "signal")
  <2>1. call = Call(call[1], call[2]) /\ IsMainCall(call) /\ call[2] = "signal"
    BY MainCall DEF InstallHandler, Calling
  <2> QED
    BY <2>1 DEF IsMainCall
<1>3. Range(todo["main"]) = {call} \cup Range(<<>>) /\ Tail(todo["main"]) = <<>>
  BY <1>1, <1>2, MainGoesOn
<1>4. \A p, op : op # "signal" => ~Ahead("main", Call(p, op))
  <2>1. Range(<<>>) = {}
    BY DEF Range
  <2> QED
    BY <1>2, <1>3, <2>1 DEF Ahead, Call
<1>5. /\ todo \in [Workers -> Seq(Calls)] /\ Threads \subseteq Workers /\ "main" \in Workers
      /\ Workers = Threads \cup {"main"} /\ <<>> \in Seq(Calls)
      /\ \A t \in Threads : todo[t] = <<>> /\ t # "main"
  BY DEF IInv, Types, CallsLeft, Starting, Workers, Threads
<1>6. todo' = [todo EXCEPT !["main"] = <<>>]
  BY <1>3 DEF InstallHandler, Done, Go
<1>7. \A t \in Workers : todo'[t] = <<>>
  BY <1>5, <1>6
<1>8. UNCHANGED <<program, state, callback, consuming, registered, channels, threads, told, joiner,
                  asleep, strayed, failed, signals, code, ended>>
  BY DEF InstallHandler, partVars, threadVars
<1>9. installed' /\ installed' \in BOOLEAN /\ ~failed' /\ signals' = 0 /\ told' = {}
      /\ code' = 0 /\ ~strayed' /\ \A t \in Threads : joiner'[t] = "nobody"
  BY <1>8 DEF InstallHandler, Starting, IInv, SignalsCounted, StartedParts
<1>10. IsApplication' = IsApplication
  BY <1>8 DEF IsApplication
<1>11. \A p \in Uses : state[p] = "STARTED"
  BY <1>4 DEF IInv, StartedParts
<1>12. /\ "eventLoop" \in threads
       /\ \A p \in Uses \cap {"consumer", "publisher"} : p \in channels
       /\ IsApplication => {"processors", "loop"} \subseteq threads /\ callback /\ consuming /\ registered
  BY <1>4 DEF IInv, StartedThings
<1>13. Types'
  BY <1>5, <1>6, <1>8, <1>9 DEF IInv, Types
<1>14. CallsLeft' /\ StartedParts' /\ StartedThings' /\ PassedIsDown' /\ WentDown' /\ Destroyed'
  <2>1. ~Handling("main")' /\ ~Leaving'
    <3>1. Range(todo'["main"]) = {}
      BY <1>5, <1>7 DEF Range
    <3> QED
      BY <1>5, <1>7, <1>9, <3>1 DEF Handling, Leaving, Ahead
  <2>2. WentDown'
    BY <1>8, <1>10, <1>11, <2>1 DEF WentDown, Uses
  <2> QED
    BY <1>7, <1>9, <2>1, <2>2 DEF CallsLeft, StartedParts, StartedThings, Starting, PassedIsDown, Destroyed
<1>15. SignalsCounted'
  BY <1>5, <1>7, <1>9 DEF SignalsCounted
<1>16. Up' /\ StoppedLast'
  <2>1. /\ state["application"] = "STARTED" /\ state["publisher"] = "STARTED" /\ state["logger"] = "STARTED"
        /\ IsApplication => state["logic"] = "STARTED" /\ state["storage"] = "STARTED"
    BY <1>11 DEF Uses, Parts
  <2>2. threads = IF IsApplication THEN Threads ELSE {"eventLoop"}
    <3>1. CASE IsApplication
      <4>1. Threads \subseteq threads
        BY <1>12, <3>1 DEF Threads
      <4> QED
        BY <3>1, <4>1 DEF IInv, Types
    <3>2. CASE ~IsApplication
      BY <1>12, <3>2 DEF IInv, GeneratorParts
    <3> QED
      BY <3>1, <3>2
  <2>3. channels = IF IsApplication THEN {"consumer", "publisher"} ELSE {"publisher"}
    <3>1. "publisher" \in channels /\ (IsApplication => "consumer" \in channels)
      BY <1>12 DEF Uses, Parts
    <3> QED
      BY <3>1 DEF IInv, Types, GeneratorParts
  <2>4. StartedMeansStarted'
    BY <1>8, <1>10, <1>12, <2>1, <2>2, <2>3 DEF StartedMeansStarted
  <2> QED
    BY <1>5, <1>7, <1>8, <1>9, <2>1, <2>4 DEF Up, StoppedLast
<1>17. GeneratorParts' /\ JoinedEnded' /\ LogOpen' /\ ChannelsOpen'
  <2>1. GeneratorParts' /\ ChannelsOpen'
    BY <1>8, <1>10 DEF IInv, GeneratorParts, ChannelsOpen
  <2>2. LogOpen'
    BY <1>8, <1>11 DEF LogOpen, Uses, Parts
  <2>3. \A t \in Workers : ~Handling(t)'
    <3>1. \A t \in Workers : Range(todo'[t]) = {}
      BY <1>7 DEF Range
    <3> QED
      BY <3>1 DEF Handling, Ahead
  <2>4. JoinedEnded'
    BY <1>8, <1>9, <2>3 DEF IInv, JoinedEnded
  <2> QED
    BY <2>1, <2>2, <2>4
<1>18. EndsAreExplained'
  BY <1>8, <1>9 DEF EndsAreExplained
<1> QED
  BY <1>13, <1>14, <1>15, <1>16, <1>17, <1>18 DEF IInv

\* When main gives up the destructors have everything ahead.
LEMMA MainGivesUp ==
    ASSUME IInv, ended = "no", Starting, Fail("main"), UNCHANGED <<program, strayed>>
    PROVE  IInv'
<1> DEFINE call == Head(todo["main"])
<1>1. IsRest(todo["main"], Main)
  BY DEF IInv, CallsLeft
<1>2. /\ call = Call(call[1], call[2]) /\ IsMainCall(call)
      /\ ~IsApplication => call[1] \in {"logger", "application", "publisher", "eventLoop", "main"}
  BY MainCall
<1>3. /\ todo \in [Workers -> Seq(Calls)] /\ Threads \subseteq Workers /\ "main" \in Workers
      /\ \A t \in Threads : todo[t] = <<>> /\ t # "main"
  BY DEF IInv, Types, CallsLeft, Starting, Workers, Threads
<1>4. todo' = [todo EXCEPT !["main"] = Destruction]
  BY DEF Fail, Go
<1>5. todo'["main"] = Destruction /\ \A t \in Threads : todo'[t] = <<>>
  BY <1>3, <1>4
<1>6. UNCHANGED <<program, state, callback, registered, threads, told, joiner, asleep, strayed,
                  signals, installed, ended>>
  BY DEF Fail, threadVars
<1>7. ~installed' /\ failed' /\ failed' \in BOOLEAN /\ signals' = 0 /\ code' \in {2, 3} /\ ~strayed'
      /\ \A t \in Threads : joiner'[t] = "nobody"
  BY <1>6 DEF Fail, Starting, IInv, SignalsCounted, StartedParts
<1>8. /\ IsApplication' = IsApplication /\ Destruction' = Destruction
      /\ IsRest(todo["main"], Destruction)' <=> IsRest(todo'["main"], Destruction)
  BY <1>6, SameProgram
<1>9. IsRest(Destruction, Destruction)
  BY DestructionStarts
<1>10. /\ channels' = channels \/ (channels' = channels \cup ({call[1]} \cap {"consumer", "publisher"}))
       /\ consuming' => consuming \/ call[2] = "consume"
       /\ consuming' \in BOOLEAN
  BY DEF Fail, OpenedBy, Part, Calling, IInv, Types
<1>11. channels \subseteq channels' /\ channels' \subseteq {"consumer", "publisher"}
  BY <1>10 DEF IInv, Types
<1>12. call[2] = "consume" => /\ IsApplication
                              /\ "consumer" \in channels
  <2> SUFFICES ASSUME call[2] = "consume" PROVE IsApplication /\ "consumer" \in channels
    OBVIOUS
  <2>1. call = Call("consumer", "consume") /\ call[1] = "consumer"
    BY <1>2 DEF IsMainCall
  <2>2. ~Ahead("main", Call("consumer", "start"))
    BY <1>1, <2>1, MainOrder DEF Ahead
  <2>3. IsApplication
    BY <1>2, <2>1
  <2>4. "consumer" \in Uses
    BY <2>3 DEF Uses, Parts
  <2> QED
    BY <2>2, <2>3, <2>4 DEF IInv, StartedThings
<1> HIDE DEF call
<1>13. Types'
  <2>1. Destruction \in Seq(Calls)
    BY LengthOfDestruction
  <2>2. todo' \in [Workers -> Seq(Calls)]
    BY <1>3, <1>4, <2>1
  <2> QED
    BY <1>6, <1>7, <1>10, <1>11, <2>2 DEF IInv, Types
<1>14. CallsLeft'
  BY <1>5, <1>7, <1>8, <1>9 DEF CallsLeft, Starting
<1>15. SignalsCounted'
  BY <1>5, <1>7 DEF SignalsCounted
<1>16. StartedParts' /\ StartedThings' /\ Up' /\ StoppedLast' /\ PassedIsDown' /\ WentDown'
  BY <1>7 DEF StartedParts, StartedThings, Starting, Up, StoppedLast, PassedIsDown, WentDown, Handling
<1>17. GeneratorParts'
  <2>1. ~IsApplication => channels' \subseteq {"publisher"} /\ ~consuming'
    BY <1>2, <1>10, <1>12 DEF IInv, GeneratorParts
  <2> QED
    BY <1>6, <1>8, <2>1 DEF IInv, GeneratorParts
<1>18. JoinedEnded'
  <2>1. ASSUME NEW thread \in {"processors", "loop"}
        PROVE  Call(thread, "join") \in Range(Destruction) \/ thread \notin threads
    BY DestructionStarts DEF IInv, GeneratorParts
  <2> QED
    BY <1>5, <1>6, <1>7, <2>1 DEF IInv, JoinedEnded, Handling, Ahead
<1>19. Destroyed'
  <2>1. ASSUME NEW p \in {"consumer", "publisher"}
        PROVE  Call(p, "destroy") \in Range(Destruction) \/ p \notin channels'
    BY <1>8, <1>17, DestructionStarts DEF GeneratorParts
  <2> QED
    BY <1>5, <1>7, <2>1 DEF Destroyed, Ahead
<1>20. LogOpen' /\ ChannelsOpen'
  BY <1>6, <1>7, <1>10, <1>11, <1>12 DEF IInv, LogOpen, Silent, ChannelsOpen
<1>21. EndsAreExplained'
  BY <1>6, <1>7 DEF EndsAreExplained
<1> QED
  BY <1>13, <1>14, <1>15, <1>16, <1>17, <1>18, <1>19, <1>20, <1>21 DEF IInv

LEMMA StartIsKept ==
    ASSUME IInv, ended = "no", Starting, NEW t \in Workers, Execute(t)
    PROVE  IInv'
<1> DEFINE op == Head(todo["main"])[2]
<1>1. t = "main"
  BY DEF IInv, CallsLeft, Starting, Workers, Execute
<1>2. op \notin StopOps
  BY MainCall
<1>3. UNCHANGED <<program, strayed>>
  BY DEF Execute
<1>4. CASE Fail(t)
  BY <1>1, <1>3, <1>4, MainGivesUp
<1>5. CASE InstallHandler(t)
  BY <1>1, <1>3, <1>5, HandlerIsInstalled
<1>6. ~End(t)
  BY <1>1, <1>2 DEF End, Calling, StopOps
<1>7. ASSUME UNCHANGED processVars, ReachesState("main") \/ StartsSomething("main") PROVE IInv'
  <2>1. Starts
    BY <1>3, <1>7, ReachStarts, SomethingStarts
  <2>2. op # "signal"
    BY <1>7 DEF ReachesState, Initialize, Advance, ConfigureLogger, OpenLog, ConfigureStorage,
                StartStorage, Configure, StartsSomething, StartEventLoop, StartLogic, StartHandler,
                RegisterCallback, Declare, Declares, Consume, RegisterPublisher, WriteData, Calling
  <2> QED
    BY <2>1, <2>2, MainGoesForward
<1>8. /\ ~StopApplication(t) /\ ~StopLogic(t) /\ ~StopEventLoop(t) /\ ~StopHandler(t)
      /\ ~Stopped(t) /\ ~Join(t) /\ ~DeinitializePart(t) /\ ~StopLogger(t) /\ ~Exit(t) /\ ~Destroy(t)
  BY <1>1, <1>2 DEF StopApplication, StopLogic, StopEventLoop, StopHandler, Stopped, Join,
                    DeinitializePart, StopLogger, Exit, Destroy, Calling, StopOps
<1>9. CASE UNCHANGED processVars /\ (ReachesState(t) \/ StartsSomething(t))
  BY <1>1, <1>7, <1>9
<1> QED
  BY <1>4, <1>5, <1>6, <1>8, <1>9 DEF Execute, ReachesState, StartsSomething

-----------------------------------------------------------------------------
(* The calls of the handler and of the destructors                         *)

\* What such a call can do: it stops what it is about and leaves the rest.
StopsParts(t) ==
    LET call == Head(todo[t])
    IN  /\ state' \in [Parts -> States]
        /\ \A p \in Parts :
             /\ state'[p] = "STARTED" => state[p] = "STARTED"
             /\ state'[p] # state[p] => call[1] = p /\ call[2] \in {"stop", "stopped", "deinitialize"}
             /\ state'[p] # state[p] /\ call[2] # "deinitialize" => state'[p] = "STOPPED"
             /\ state'[p] # state[p] /\ call[2] = "stop" => state[p] = "STARTED"
             /\ state'[p] # state[p] /\ call[2] = "deinitialize" =>
                  state[p] = "STOPPED" /\ state'[p] = "DEINITIALIZED"
             /\ call = Call(p, "stop") =>
                  IF p \in {"consumer", "publisher", "logger"} THEN state'[p] # "STARTED"
                                                               ELSE state'[p] = state[p]
             /\ call = Call(p, "stopped") => state'[p] = "STOPPED"
             /\ call = Call(p, "deinitialize") /\ state[p] = "STOPPED" => state'[p] = "DEINITIALIZED"

StopsThings(t) ==
    LET call == Head(todo[t])
    IN  /\ UNCHANGED <<threads, callback, registered>>
        /\ channels' \subseteq channels
        /\ \A p \in channels \ channels' : call[1] = p /\ call[2] \in {"stop", "destroy"}
        /\ \A p : call = Call(p, "destroy") => p \notin channels'
        /\ consuming' \in BOOLEAN
        /\ consuming' => consuming
        /\ consuming' /\ "consumer" \in channels => "consumer" \in channels'
        /\ told' \subseteq Threads
        /\ asleep' \in BOOLEAN
        /\ joiner' \in [Threads -> Threads \cup {"main", "nobody"}]
        /\ \A x \in Threads : joiner'[x] \in {joiner[x], t}

\* The call is done, or waits for the thread it joins, or is all that is left of Logic::stop.
GoesOn(t, rest) ==
    \/ /\ rest = Tail(todo[t])
       /\ Head(todo[t])[2] = "join" => Head(todo[t])[1] \notin threads
    \/ rest = todo[t] /\ Head(todo[t])[2] = "join"
    \/ /\ Head(todo[t]) = Call("logic", "stop")
       /\ state["logic"] # "STARTED"
       /\ rest = AfterLogicStop(todo[t])

Retreats(t) ==
    /\ StopsParts(t)
    /\ StopsThings(t)
    /\ \E rest : todo' = [todo EXCEPT ![t] = rest] /\ GoesOn(t, rest)
    /\ UNCHANGED <<program, processVars, strayed>>

StopsSomething(t) ==
    \/ StopApplication(t) \/ StopLogic(t) \/ StopEventLoop(t) \/ StopHandler(t) \/ Stopped(t)
    \/ Join(t) \/ DeinitializePart(t) \/ StopLogger(t) \/ Destroy(t)

LEMMA StopsRetreat ==
    ASSUME IInv, NEW t \in Workers, Head(todo[t]) \in HandlerCalls \cup DestructionCalls,
           Head(todo[t]) = Call("application", "stop") => state["application"] = "STARTED",
           StopsSomething(t), UNCHANGED processVars, UNCHANGED <<program, strayed>>
    PROVE  Retreats(t)
<1> DEFINE call == Head(todo[t])
<1>1. /\ call = Call(call[1], call[2])
      /\ call[2] = "join" => call[1] \in Threads
      /\ call[2] = "stopped" => call[1] \in {"logic", "application"}
      /\ call[2] = "deinitialize" => call[1] \in {"publisher", "consumer", "application"}
  BY DEF HandlerCalls, DestructionCalls, Call, Threads
<1>2. /\ state \in [Parts -> States] /\ told \subseteq Threads /\ threads \subseteq Threads
      /\ joiner \in [Threads -> Threads \cup {"main", "nobody"}]
      /\ channels \subseteq {"consumer", "publisher"} /\ consuming \in BOOLEAN /\ asleep \in BOOLEAN
  BY DEF IInv, Types
<1> HIDE DEF call
<1>3. \A p, op : call = Call(p, op) => call[1] = p /\ call[2] = op
  BY DEF Call
<1>4. ASSUME UNCHANGED state,
             call[2] \notin {"stopped", "deinitialize"},
             call[2] = "stop" => call[1] \notin {"consumer", "publisher", "logger"}
      PROVE  StopsParts(t)
  BY <1>2, <1>3, <1>4 DEF StopsParts, call
<1>5. ASSUME UNCHANGED <<threads, callback, registered, channels, consuming, joiner>>,
             told' \subseteq Threads, asleep' \in BOOLEAN, call[2] # "destroy"
      PROVE  StopsThings(t)
  BY <1>2, <1>3, <1>5 DEF StopsThings, call
<1>6. ASSUME Done(t), call[2] # "join"
      PROVE  \E rest : todo' = [todo EXCEPT ![t] = rest] /\ GoesOn(t, rest)
  BY <1>6 DEF Done, Go, GoesOn, call
<1>7. CASE StopApplication(t)
  <2>1. call[2] = "stop" /\ call[1] = "application" /\ UNCHANGED <<partVars, threadVars>>
    BY <1>7 DEF StopApplication, Calling, Part, call
  <2>2. Done(t)
    BY <1>1, <1>7, <2>1 DEF StopApplication, call
  <2> QED
    BY <1>2, <1>4, <1>5, <1>6, <2>1, <2>2 DEF Retreats, partVars, threadVars
<1>8. CASE StopLogic(t)
  <2>1. call[2] = "stop" /\ call[1] = "logic" /\ UNCHANGED <<partVars, threads, joiner>>
    BY <1>8 DEF StopLogic, Calling, Part, call
  <2>2. told' \subseteq Threads /\ asleep' \in BOOLEAN
    BY <1>2, <1>8 DEF StopLogic, Threads
  <2>3. \E rest : todo' = [todo EXCEPT ![t] = rest] /\ GoesOn(t, rest)
    <3>1. call = Call("logic", "stop")
      BY <1>1, <2>1
    <3> QED
      BY <1>6, <1>8, <2>1, <3>1 DEF StopLogic, Go, GoesOn, AfterLogicStop, call
  <2> QED
    BY <1>4, <1>5, <2>1, <2>2, <2>3 DEF Retreats, partVars
<1>9. CASE StopEventLoop(t)
  <2>1. /\ call[2] = "stop" /\ call[1] = "eventLoop" /\ UNCHANGED <<partVars, threads, joiner, asleep>>
        /\ Done(t) /\ told' \subseteq Threads
    BY <1>2, <1>9 DEF StopEventLoop, Calling, Part, call, Threads
  <2> QED
    BY <1>2, <1>4, <1>5, <1>6, <2>1 DEF Retreats, partVars
<1>10. CASE StopHandler(t)
  <2>1. /\ call[2] = "stop" /\ call[1] \in {"consumer", "publisher"} /\ Done(t)
        /\ UNCHANGED <<callback, registered, threadVars>>
    BY <1>10 DEF StopHandler, Calling, Part, call
  <2>2. \/ /\ state[call[1]] = "STARTED" /\ state' = [state EXCEPT ![call[1]] = "STOPPED"]
           /\ channels' = channels \ {call[1]} /\ consuming' = (consuming /\ call[1] # "consumer")
        \/ state[call[1]] # "STARTED" /\ UNCHANGED <<state, channels, consuming>>
    BY <1>10 DEF StopHandler, SetState, Part, call
  <2>3. \A p : call = Call(p, "stop") => p = call[1]
    BY <1>3
  <2>4. StopsParts(t)
    BY <1>2, <1>3, <2>1, <2>2, <2>3 DEF StopsParts, Parts, States, call
  <2>5. /\ consuming' \in BOOLEAN /\ (consuming' => consuming)
        /\ consuming' /\ "consumer" \in channels => "consumer" \in channels'
    <3>1. CASE /\ channels' = channels \ {call[1]}
               /\ consuming' = (consuming /\ call[1] # "consumer")
      BY <1>2, <3>1
    <3>2. CASE UNCHANGED <<channels, consuming>>
      BY <1>2, <3>2
    <3> QED
      BY <2>2, <3>1, <3>2
  <2>6. /\ channels' \subseteq channels
        /\ \A p \in channels \ channels' : call[1] = p /\ call[2] \in {"stop", "destroy"}
        /\ \A p : call # Call(p, "destroy")
    BY <1>3, <2>1, <2>2
  <2>7. StopsThings(t)
    BY <1>2, <2>1, <2>5, <2>6 DEF StopsThings, threadVars, call
  <2> QED
    BY <1>6, <2>1, <2>4, <2>7 DEF Retreats
<1>11. CASE Stopped(t)
  <2>1. /\ call[2] = "stopped" /\ Done(t) /\ state' = [state EXCEPT ![call[1]] = "STOPPED"]
        /\ UNCHANGED <<callback, consuming, registered, channels, threadVars>>
    BY <1>11 DEF Stopped, SetState, Calling, Part, call
  <2>2. StopsParts(t)
    BY <1>1, <1>2, <1>3, <2>1 DEF StopsParts, Parts, States, call
  <2> QED
    BY <1>2, <1>5, <1>6, <2>1, <2>2 DEF Retreats, threadVars
<1>12. CASE Join(t)
  <2>1. /\ call[2] = "join" /\ call[1] \in Threads /\ UNCHANGED <<partVars, threads, asleep>>
        /\ \/ joiner' = [joiner EXCEPT ![call[1]] = t] /\ UNCHANGED todo
              /\ told' = told \cup ToldToEnd(call[1])
           \/ call[1] \notin threads /\ Done(t) /\ UNCHANGED <<joiner, told>>
    BY <1>1, <1>12 DEF Join, Calling, Part, call
  <2>2. told' \subseteq Threads
    BY <1>2, <2>1 DEF ToldToEnd, Threads
  <2>3. /\ joiner' \in [Threads -> Threads \cup {"main", "nobody"}]
        /\ \A x \in Threads : joiner'[x] \in {joiner[x], t}
    BY <1>2, <2>1 DEF Workers
  <2>4. StopsThings(t)
    BY <1>2, <1>3, <2>1, <2>2, <2>3 DEF StopsThings, partVars, call
  <2>5. \E rest : todo' = [todo EXCEPT ![t] = rest] /\ GoesOn(t, rest)
    <3>1. CASE UNCHANGED todo
      <4>1. todo' = [todo EXCEPT ![t] = todo[t]]
        BY <3>1 DEF IInv, Types
      <4> QED
        BY <2>1, <4>1 DEF GoesOn, call
    <3>2. CASE call[1] \notin threads /\ Done(t)
      BY <3>2 DEF Done, Go, GoesOn, call
    <3> QED
      BY <2>1, <3>1, <3>2
  <2> QED
    BY <1>4, <2>1, <2>4, <2>5 DEF Retreats, partVars
<1>13. CASE DeinitializePart(t)
  <2>1. /\ call[2] = "deinitialize" /\ Done(t)
        /\ IF state[call[1]] = "STOPPED" THEN state' = [state EXCEPT ![call[1]] = "DEINITIALIZED"]
                                         ELSE UNCHANGED state
        /\ UNCHANGED <<callback, consuming, registered, channels, threadVars>>
    BY <1>13 DEF DeinitializePart, SetState, Calling, Part, call
  <2>2. StopsParts(t)
    BY <1>1, <1>2, <1>3, <2>1 DEF StopsParts, Parts, States, call
  <2> QED
    BY <1>2, <1>5, <1>6, <2>1, <2>2 DEF Retreats, threadVars
<1>14. CASE StopLogger(t)
  <2>1. /\ call[2] = "stop" /\ call[1] = "logger" /\ Done(t)
        /\ IF state["logger"] = "STARTED" THEN state' = [state EXCEPT !["logger"] = "STOPPED"]
                                          ELSE UNCHANGED state
        /\ UNCHANGED <<callback, consuming, registered, channels, threadVars>>
    BY <1>14 DEF StopLogger, SetState, Calling, Part, call
  <2>2. StopsParts(t)
    BY <1>2, <1>3, <2>1 DEF StopsParts, Parts, States, call
  <2> QED
    BY <1>2, <1>5, <1>6, <2>1, <2>2 DEF Retreats, threadVars
<1>15. CASE Destroy(t)
  <2>1. /\ call[2] = "destroy" /\ Done(t) /\ channels' = channels \ {call[1]}
        /\ consuming' = (consuming /\ call[1] # "consumer")
        /\ UNCHANGED <<state, callback, registered, threadVars>>
    BY <1>15 DEF Destroy, Calling, Part, call
  <2>2. /\ consuming' \in BOOLEAN /\ (consuming' => consuming)
        /\ consuming' /\ "consumer" \in channels => "consumer" \in channels'
    BY <1>2, <2>1
  <2>3. /\ channels' \subseteq channels
        /\ \A p \in channels \ channels' : call[1] = p /\ call[2] \in {"stop", "destroy"}
        /\ \A p : call = Call(p, "destroy") => p \notin channels'
    BY <1>3, <2>1
  <2>4. StopsThings(t)
    BY <1>2, <2>1, <2>2, <2>3 DEF StopsThings, threadVars, call
  <2> QED
    BY <1>4, <1>6, <2>1, <2>4 DEF Retreats
<1> QED
  BY <1>7, <1>8, <1>9, <1>10, <1>11, <1>12, <1>13, <1>14, <1>15 DEF StopsSomething

\* What the call takes off what the thread still has to do
Passes(t, rest) ==
    /\ Range(rest) \subseteq Range(todo[t])
    /\ \A c \in Range(todo[t]) \ Range(rest) :
         \/ c = Head(todo[t]) /\ (c[2] = "join" => c[1] \notin threads)
         \/ /\ state["logic"] # "STARTED"
            /\ c \in {Call("logic", "stop"), Call("processors", "join"), Call("loop", "join"),
                      Call("logic", "stopped")}

LEMMA HandlerPasses ==
    ASSUME NEW t \in Workers, IsRest(todo[t], SignalHandler), Head(todo[t]) # Exits,
           NEW rest, GoesOn(t, rest)
    PROVE  IsRest(rest, SignalHandler) /\ Passes(t, rest)
<1>1. CASE /\ rest = Tail(todo[t])
           /\ Head(todo[t])[2] = "join" => Head(todo[t])[1] \notin threads
  BY <1>1, HandlerGoesOn DEF Passes, Exits
<1>2. CASE rest = todo[t]
  BY <1>2 DEF Passes
<1>3. CASE /\ Head(todo[t]) = Call("logic", "stop")
           /\ state["logic"] # "STARTED"
           /\ rest = AfterLogicStop(todo[t])
  <2>1. /\ IsRest(rest, SignalHandler)
        /\ Range(rest) \subseteq Range(todo[t])
        /\ Range(todo[t]) \subseteq Range(rest)
              \cup {Call("logic", "stop"), Call("processors", "join"), Call("loop", "join"),
                    Call("logic", "stopped")}
    BY <1>3, HandlerLeavesOut
  <2> QED
    BY <1>3, <2>1 DEF Passes
<1> QED
  BY <1>1, <1>2, <1>3 DEF GoesOn

LEMMA DestructionPasses ==
    ASSUME NEW t \in Workers, IsRest(todo[t], Destruction),
           Head(todo[t]) # Call("eventLoop", "destroy"), NEW rest, GoesOn(t, rest)
    PROVE  IsRest(rest, Destruction) /\ Passes(t, rest)
<1>1. CASE /\ rest = Tail(todo[t])
           /\ Head(todo[t])[2] = "join" => Head(todo[t])[1] \notin threads
  BY <1>1, DestructionGoesOn DEF Passes
<1>2. CASE rest = todo[t]
  BY <1>2 DEF Passes
<1>3. CASE /\ Head(todo[t]) = Call("logic", "stop")
           /\ state["logic"] # "STARTED"
           /\ rest = AfterLogicStop(todo[t])
  <2>1. /\ IsRest(rest, Destruction)
        /\ Range(rest) \subseteq Range(todo[t])
        /\ Range(todo[t]) \subseteq Range(rest)
              \cup {Call("logic", "stop"), Call("processors", "join"), Call("loop", "join"),
                    Call("logic", "stopped")}
    BY <1>3, DestructionLeavesOut
  <2> QED
    BY <1>3, <2>1 DEF Passes
<1> QED
  BY <1>1, <1>2, <1>3 DEF GoesOn

\* Who makes which of the handler's calls: when a join is behind, the thread has ended, and
\* when all are behind, main is alone.
LEMMA HandlerIsAlone ==
    ASSUME IInv, installed, NEW t \in Workers, IsRest(todo[t], SignalHandler)
    PROVE  /\ Handling(t) /\ todo[t] # <<>> /\ ~failed /\ signals # 0
           /\ t \in Threads => t \in threads
           /\ signals <= 1 => t = "main"
           /\ Head(todo[t]) \in {Call("logic", "stopped"), Call("publisher", "stop"),
                                 Call("consumer", "stop"), Call("application", "stopped")}
                => "processors" \notin threads /\ "loop" \notin threads
           /\ Head(todo[t]) = Call("application", "stopped")
                => /\ t = "main" /\ threads = {}
                   /\ \A p \in {"consumer", "publisher", "logic"} : state[p] # "STARTED"
           /\ Head(todo[t]) \in {Call("application", "deinitialize"), Call("logger", "stop"), Exits}
                => /\ t = "main" /\ threads = {}
                   /\ state["application"] \in {"STOPPED", "DEINITIALIZED"}
                   /\ \A p \in {"consumer", "publisher", "logic"} : state[p] # "STARTED"
           /\ Head(todo[t]) = Exits
                => state["application"] = "DEINITIALIZED" /\ state["logger"] # "STARTED"
           /\ Head(todo[t]) = Call("application", "stop") => state["application"] = "STARTED"
           /\ Head(todo[t]) = Call("application", "stopped") => state["application"] = "STARTED"
           /\ Head(todo[t]) = Call("logger", "stop") => Silent
<1> DEFINE call == Head(todo[t])
<1>1. /\ todo[t] # <<>> /\ Handling(t) /\ call \in Range(todo[t])
  BY HandlerGoesOn DEF Handling, Ahead, Exits
<1>2. /\ ~failed
      /\ t \in Threads => t \in threads
      /\ signals <= 1 => t = "main"
      /\ signals # 0
  <2>1. t \in Threads => t \in threads
    BY <1>1 DEF IInv, SignalsCounted
  <2>2. signals <= 1 => t = "main"
    BY <1>1 DEF IInv, SignalsCounted, Workers
  <2>3. signals # 0
    BY <1>1, <2>2 DEF IInv, SignalsCounted
  <2> QED
    BY <2>1, <2>2, <2>3 DEF IInv, CallsLeft
<1>3. \A thread \in Threads : Call(thread, "join") \notin Range(todo[t]) => thread \notin threads
  BY <1>1 DEF IInv, JoinedEnded, Ahead
<1>4. threads \subseteq Threads
  BY DEF IInv, Types
<1>5. threads = {} => t = "main"
  BY <1>2 DEF Workers
<1> HIDE DEF call
<1>6. call \in {Call("logic", "stopped"), Call("publisher", "stop"),
                Call("consumer", "stop"), Call("application", "stopped")}
        => "processors" \notin threads /\ "loop" \notin threads
  BY <1>3, HandlerOrder DEF Threads, call
<1>7. ASSUME call = Call("application", "stopped")
      PROVE  /\ t = "main" /\ threads = {}
             /\ \A p \in {"consumer", "publisher", "logic"} : state[p] # "STARTED"
  <2>1. threads = {}
    BY <1>3, <1>4, <1>6, <1>7, HandlerOrder DEF Threads, call
  <2>2. t = "main"
    BY <1>5, <2>1
  <2>3. /\ ~Ahead("main", Call("logic", "stopped")) /\ ~Ahead("main", Call("publisher", "stop"))
        /\ ~Ahead("main", Call("consumer", "stop"))
    BY <1>7, <2>2, HandlerOrder DEF Ahead, call
  <2>4. \A p \in {"consumer", "publisher", "logic"} : state[p] # "STARTED"
    BY <1>1, <2>2, <2>3 DEF IInv, PassedIsDown
  <2> QED
    BY <2>1, <2>2, <2>4
<1>8. ASSUME call \in {Call("application", "deinitialize"), Call("logger", "stop"), Exits}
      PROVE  /\ t = "main" /\ threads = {}
             /\ state["application"] \in {"STOPPED", "DEINITIALIZED"}
             /\ \A p \in {"consumer", "publisher", "logic"} : state[p] # "STARTED"
  <2>1. threads = {}
    BY <1>3, <1>4, <1>8, HandlerOrder DEF call, Exits
  <2>2. t = "main"
    BY <1>5, <2>1
  <2>3. ~Ahead("main", Call("application", "stopped"))
    BY <1>8, <2>2, HandlerOrder DEF Ahead, call, Exits
  <2> QED
    BY <1>1, <2>1, <2>2, <2>3 DEF IInv, StoppedLast
<1>9. call = Exits => state["application"] = "DEINITIALIZED" /\ state["logger"] # "STARTED"
  <2> SUFFICES ASSUME call = Exits
               PROVE  state["application"] = "DEINITIALIZED" /\ state["logger"] # "STARTED"
    OBVIOUS
  <2>1. t = "main"
    BY <1>8
  <2>2. ~Ahead("main", Call("application", "deinitialize")) /\ ~Ahead("main", Call("logger", "stop"))
    BY <2>1, HandlerOrder DEF Ahead, call, Exits
  <2> QED
    BY <1>1, <2>1, <2>2 DEF IInv, PassedIsDown
<1>10. call = Call("application", "stop") => state["application"] = "STARTED"
  <2> SUFFICES ASSUME call = Call("application", "stop") PROVE state["application"] = "STARTED"
    OBVIOUS
  <2>1. Ahead(t, Call("application", "stopped"))
    BY HandlerStops DEF Ahead, call
  <2>2. t # "main" => threads # {}
    BY <1>5
  <2> QED
    BY <1>1, <2>1, <2>2 DEF IInv, StoppedLast
<1>11. call = Call("application", "stopped") => state["application"] = "STARTED"
  BY <1>1, <1>7 DEF IInv, StoppedLast, Ahead, call
<1>12. ASSUME call = Call("logger", "stop") PROVE Silent
  <2>1. /\ t = "main" /\ \A p \in {"consumer", "publisher", "logic"} : state[p] # "STARTED"
    BY <1>8, <1>12
  <2>2. /\ ~Ahead("main", Call("application", "deinitialize"))
        /\ \A p \in {"consumer", "publisher"} : ~Ahead("main", Call(p, "deinitialize"))
    BY <1>12, <2>1, HandlerOrder DEF Ahead, call
  <2>3. state["application"] = "DEINITIALIZED"
    BY <1>1, <2>1, <2>2 DEF IInv, PassedIsDown
  <2>4. \A p \in Uses \cap {"consumer", "publisher"} : state[p] = "DEINITIALIZED"
    BY <1>1, <2>1, <2>2 DEF IInv, WentDown
  <2>5. "logic" \in Uses => state["logic"] \in {"STOPPED", "DEINITIALIZED"}
    BY <2>1 DEF IInv, WentDown
  <2>6. /\ "publisher" \in Uses
        /\ "consumer" \in Uses \/ state["consumer"] = "CREATED"
        /\ "logic" \in Uses \/ state["logic"] = "CREATED"
    BY DEF Uses, Parts, IInv, GeneratorParts
  <2> QED
    BY <2>3, <2>4, <2>5, <2>6 DEF Silent
<1> QED
  BY <1>1, <1>2, <1>6, <1>7, <1>8, <1>9, <1>10, <1>11, <1>12 DEF call

\* A step of the handler before its exit().
LEMMA HandlerGoesDown ==
    ASSUME IInv, ended = "no", installed, NEW t \in Workers, IsRest(todo[t], SignalHandler),
           Head(todo[t]) # Exits, Retreats(t)
    PROVE  IInv'
<1> DEFINE call == Head(todo[t])
<1>1. /\ Handling(t) /\ todo[t] # <<>> /\ ~failed /\ signals # 0
      /\ t \in Threads => t \in threads
      /\ signals <= 1 => t = "main"
  BY HandlerIsAlone
<1>2. PICK rest : todo' = [todo EXCEPT ![t] = rest] /\ GoesOn(t, rest)
  BY DEF Retreats
<1>3. IsRest(rest, SignalHandler) /\ Passes(t, rest)
  BY <1>2, HandlerPasses
<1>4. rest \in Seq(Calls) /\ rest # <<>> /\ Exits \in Range(rest)
  BY <1>3, HandlerGoesOn DEF Exits
<1>5. /\ todo \in [Workers -> Seq(Calls)] /\ Workers = Threads \cup {"main"}
      /\ "main" \notin Threads
  BY DEF IInv, Types, Workers, Threads
<1>6. todo'[t] = rest /\ \A x \in Workers : x # t => todo'[x] = todo[x]
  BY <1>2, <1>5
<1>7. UNCHANGED <<program, strayed, failed, signals, installed, code, ended, threads, callback, registered>>
  BY DEF Retreats, StopsThings, processVars
<1>8. StopsParts(t) /\ StopsThings(t)
  BY DEF Retreats
<1>9. /\ call \in HandlerCalls /\ call = Call(call[1], call[2])
      /\ ~IsApplication => call[1] \in {"logger", "application", "publisher", "eventLoop", "main"}
  <2>1. /\ call \in HandlerCalls
        /\ ~IsApplication => call[1] \in {"logger", "application", "publisher", "eventLoop", "main"}
    BY HandlerGoesOn
  <2> QED
    BY <2>1 DEF HandlerCalls, Call
<1>10. /\ IsApplication' = IsApplication
       /\ \A x : IsRest(todo[x], SignalHandler)' <=> IsRest(todo'[x], SignalHandler)
       /\ \A x : IsRest(todo[x], Destruction)' <=> IsRest(todo'[x], Destruction)
  BY <1>7, SameProgram
<1>11. /\ \A x \in Workers : \A c : Ahead(x, c)' => Ahead(x, c)
       /\ \A x \in Workers : \A c : Ahead(x, c) =>
            \/ Ahead(x, c)'
            \/ x = t /\ c = call /\ (c[2] = "join" => c[1] \notin threads)
            \/ /\ x = t /\ state["logic"] # "STARTED"
               /\ c \in {Call("logic", "stop"), Call("processors", "join"), Call("loop", "join"),
                         Call("logic", "stopped")}
  BY <1>3, <1>6 DEF Ahead, Passes
<1> HIDE DEF call
<1>12. \A p, op : call = Call(p, op) <=> call[1] = p /\ call[2] = op
  BY <1>9 DEF Call
<1>13. Types'
  <2>1. todo' \in [Workers -> Seq(Calls)]
    BY <1>2, <1>4, <1>5
  <2> QED
    BY <1>7, <1>8, <2>1 DEF IInv, Types, StopsParts, StopsThings
<1>14. CallsLeft'
  <2>1. ~failed' /\ installed'
    BY <1>1, <1>7
  <2>2. ASSUME NEW x \in Workers
        PROVE  \/ todo'[x] = <<>>
               \/ IsRest(todo[x], SignalHandler)'
               \/ x = "main" /\ IsRest(todo[x], Destruction)'
    <3>1. CASE x = t
      BY <1>3, <1>6, <1>10, <3>1
    <3>2. CASE x # t
      BY <1>6, <1>10, <3>2 DEF IInv, CallsLeft
    <3> QED
      BY <3>1, <3>2
  <2> QED
    BY <2>1, <2>2 DEF CallsLeft, Starting, Workers
<1>15. SignalsCounted'
  <2>1. todo["main"] # <<>> <=> todo'["main"] # <<>>
    BY <1>1, <1>4, <1>5, <1>6
  <2>2. \A x \in Threads : todo'[x] # <<>> => x \in threads
    BY <1>1, <1>5, <1>6 DEF IInv, SignalsCounted
  <2>3. ASSUME signals <= 1, NEW x \in Threads
        PROVE  todo'[x] = <<>> /\ joiner'[x] \in {"nobody", "main"}
    BY <1>1, <1>5, <1>6, <1>8, <2>3 DEF IInv, SignalsCounted, StopsThings
  <2> QED
    BY <1>7, <2>1, <2>2, <2>3 DEF IInv, SignalsCounted
<1>16. StartedParts' /\ StartedThings' /\ Up'
  BY <1>1, <1>7 DEF StartedParts, StartedThings, Starting, Up
<1>17. GeneratorParts'
  <2> SUFFICES ASSUME ~IsApplication
               PROVE  /\ threads' \subseteq {"eventLoop"} /\ channels' \subseteq {"publisher"}
                      /\ ~consuming' /\ ~registered'
                      /\ state'["logic"] = "CREATED" /\ state'["consumer"] = "CREATED"
    BY <1>7 DEF GeneratorParts, IsApplication
  <2>1. state'["logic"] = state["logic"] /\ state'["consumer"] = state["consumer"]
    BY <1>8, <1>9 DEF StopsParts, Parts, call
  <2> QED
    BY <1>7, <1>8, <2>1 DEF IInv, GeneratorParts, StopsThings
<1>18. call = Call("application", "stopped")
         => /\ t = "main" /\ threads = {}
            /\ \A p \in {"consumer", "publisher", "logic"} : state[p] # "STARTED"
  BY HandlerIsAlone DEF call
<1>19. call \in {Call("application", "deinitialize"), Call("logger", "stop")}
         => /\ t = "main" /\ threads = {}
            /\ state["application"] \in {"STOPPED", "DEINITIALIZED"}
            /\ \A p \in {"consumer", "publisher", "logic"} : state[p] # "STARTED"
  BY HandlerIsAlone DEF call
<1>20. call \in {Call("logic", "stopped"), Call("publisher", "stop"), Call("consumer", "stop")}
         => "processors" \notin threads /\ "loop" \notin threads
  BY HandlerIsAlone DEF call
<1>21. JoinedEnded'
  <2>1. ASSUME NEW x \in Workers, NEW thread \in Threads, Handling(x)'
        PROVE  Ahead(x, Call(thread, "join"))' \/ thread \notin threads
    <3>1. Ahead(x, Call(thread, "join")) \/ thread \notin threads
      BY <1>7, <1>11, <2>1 DEF IInv, JoinedEnded, Handling
    <3>2. call = Call(thread, "join") => call[2] = "join" /\ call[1] = thread
      BY <1>12
    <3>3. (/\ state["logic"] # "STARTED"
           /\ Call(thread, "join") \in {Call("logic", "stop"), Call("processors", "join"),
                                        Call("loop", "join"), Call("logic", "stopped")})
             => thread \notin threads
      <4>1. Call(thread, "join") \in {Call("logic", "stop"), Call("processors", "join"),
                                     Call("loop", "join"), Call("logic", "stopped")}
              => thread \in {"processors", "loop"}
        BY DEF Call
      <4>2. thread \in {"processors", "loop"} /\ thread \in threads => state["logic"] = "STARTED"
        BY DEF IInv, JoinedEnded
      <4> QED
        BY <4>1, <4>2
    <3> QED
      BY <1>11, <3>1, <3>2, <3>3
  <2>2. threads \cap {"processors", "loop"} # {} => state'["logic"] = "STARTED"
    <3>1. threads \cap {"processors", "loop"} # {} => state["logic"] = "STARTED"
      BY DEF IInv, JoinedEnded
    <3>2. state'["logic"] # state["logic"] => call \in {Call("logic", "stopped")} \/ state["logic"] = "STOPPED"
      BY <1>8, <1>12 DEF StopsParts, Parts, call
    <3> QED
      BY <1>20, <3>1, <3>2
  <2> QED
    BY <1>1, <1>7, <2>1, <2>2 DEF JoinedEnded
<1>22. StoppedLast'
  <2>1. CASE call = Call("application", "stopped")
    <3>1. t = "main" /\ threads' = {} /\ todo'["main"] # <<>>
      BY <1>4, <1>6, <1>7, <1>18, <2>1
    <3>2. rest = Tail(todo[t])
      BY <1>2, <1>12, <2>1 DEF GoesOn, call
    <3>3. ~Ahead("main", Call("application", "stopped"))'
      BY <1>6, <2>1, <3>1, <3>2, HandlerOrder DEF Ahead, call
    <3>4. state'["application"] = "STOPPED"
      BY <1>8, <2>1 DEF StopsParts, Parts, call
    <3>5. \A p \in {"consumer", "publisher", "logic"} : state'[p] # "STARTED"
      BY <1>8, <1>18, <2>1 DEF StopsParts, Parts
    <3> QED
      BY <3>1, <3>3, <3>4, <3>5 DEF StoppedLast
  <2>2. CASE /\ call # Call("application", "stopped")
             /\ state["application"] = "STARTED"
             /\ todo["main"] = <<>> \/ Ahead("main", Call("application", "stopped"))
    <3>1. state'["application"] = "STARTED"
      BY <1>8, <1>12, <2>2 DEF StopsParts, Parts, call
    <3>2. todo["main"] = <<>> => todo'["main"] = <<>>
      BY <1>1, <1>5, <1>6
    <3>3. Call("application", "stopped") \notin {Call("logic", "stop"), Call("processors", "join"),
                                                Call("loop", "join"), Call("logic", "stopped")}
      BY DEF Call
    <3>4. "main" \in Workers
      BY <1>5
    <3>5. Ahead("main", Call("application", "stopped")) => Ahead("main", Call("application", "stopped"))'
      BY <1>11, <2>2, <3>3, <3>4
    <3> QED
      BY <2>2, <3>1, <3>2, <3>5 DEF StoppedLast
  <2>3. CASE /\ call # Call("application", "stopped")
             /\ threads = {}
             /\ todo["main"] # <<>> /\ ~Ahead("main", Call("application", "stopped"))
             /\ state["application"] \in {"STOPPED", "DEINITIALIZED"}
             /\ \A p \in {"consumer", "publisher", "logic"} : state[p] # "STARTED"
    <3>1. todo'["main"] # <<>>
      BY <1>4, <1>5, <1>6, <2>3
    <3>2. ~Ahead("main", Call("application", "stopped"))'
      BY <1>5, <1>11, <2>3
    <3>3. state'["application"] \in {"STOPPED", "DEINITIALIZED"}
      BY <1>8, <2>3 DEF StopsParts, Parts, call
    <3>4. \A p \in {"consumer", "publisher", "logic"} : state'[p] # "STARTED"
      BY <1>8, <2>3 DEF StopsParts, Parts
    <3> QED
      BY <1>7, <2>3, <3>1, <3>2, <3>3, <3>4 DEF StoppedLast
  <2> QED
    BY <2>1, <2>2, <2>3 DEF IInv, StoppedLast
<1>23. PassedIsDown'
  <2> SUFFICES ASSUME Handling("main")'
               PROVE  /\ \A p \in {"consumer", "publisher"} :
                            Ahead("main", Call(p, "stop"))' \/ state'[p] # "STARTED"
                      /\ Ahead("main", Call("logic", "stopped"))' \/ state'["logic"] # "STARTED"
                      /\ Ahead("main", Call("application", "deinitialize"))'
                           \/ state'["application"] = "DEINITIALIZED"
                      /\ Ahead("main", Call("logger", "stop"))' \/ state'["logger"] # "STARTED"
    BY DEF PassedIsDown, Ahead
  <2>1. Handling("main") /\ "main" \in Workers
    BY <1>5, <1>7, <1>11 DEF Handling
  <2>2. \A p \in Parts : state'[p] = "STARTED" => state[p] = "STARTED"
    BY <1>8 DEF StopsParts
  <2>3. \A p \in {"consumer", "publisher"} : Ahead("main", Call(p, "stop"))' \/ state'[p] # "STARTED"
    <3>1. ASSUME NEW p \in {"consumer", "publisher"}, Ahead("main", Call(p, "stop")),
                 ~Ahead("main", Call(p, "stop"))'
          PROVE  state'[p] # "STARTED"
      <4>1. Call(p, "stop") \notin {Call("logic", "stop"), Call("processors", "join"),
                                    Call("loop", "join"), Call("logic", "stopped")}
        BY <3>1 DEF Call
      <4>2. call = Call(p, "stop")
        BY <1>11, <2>1, <3>1, <4>1
      <4> QED
        BY <1>8, <3>1, <4>2 DEF StopsParts, Parts, call
    <3> QED
      BY <2>1, <2>2, <3>1 DEF IInv, PassedIsDown, Parts
  <2>4. Ahead("main", Call("logic", "stopped"))' \/ state'["logic"] # "STARTED"
    <3>1. call = Call("logic", "stopped") => state'["logic"] = "STOPPED"
      BY <1>8 DEF StopsParts, Parts, call
    <3>2. Ahead("main", Call("logic", "stopped")) \/ state["logic"] # "STARTED"
      BY <2>1 DEF IInv, PassedIsDown
    <3>3. "logic" \in Parts
      BY DEF Parts
    <3> QED
      BY <1>11, <2>1, <2>2, <3>1, <3>2, <3>3
  <2>5. Ahead("main", Call("application", "deinitialize"))' \/ state'["application"] = "DEINITIALIZED"
    <3>1. CASE call = Call("application", "deinitialize")
      <4>1. state["application"] \in {"STOPPED", "DEINITIALIZED"}
        BY <1>19, <3>1
      <4> QED
        BY <1>8, <1>12, <3>1, <4>1 DEF StopsParts, Parts, call
    <3>2. CASE call # Call("application", "deinitialize") /\ Ahead("main", Call("application", "deinitialize"))
      <4>1. Call("application", "deinitialize") \notin
              {Call("logic", "stop"), Call("processors", "join"), Call("loop", "join"), Call("logic", "stopped")}
        BY DEF Call
      <4> QED
        BY <1>11, <2>1, <3>2, <4>1
    <3>3. CASE call # Call("application", "deinitialize") /\ state["application"] = "DEINITIALIZED"
      <4>1. call # Call("application", "stopped")
        <5>1. call = Call("application", "stopped") => Ahead("main", Call("application", "stopped"))
          BY <1>18, HandlerGoesOn DEF Ahead, call
        <5> QED
          BY <1>1, <1>18, <3>3, <5>1 DEF IInv, StoppedLast, Handling
      <4> QED
        BY <1>8, <1>12, <3>3, <4>1 DEF StopsParts, Parts, call
    <3> QED
      BY <2>1, <3>1, <3>2, <3>3 DEF IInv, PassedIsDown
  <2>6. Ahead("main", Call("logger", "stop"))' \/ state'["logger"] # "STARTED"
    <3>1. call = Call("logger", "stop") => state'["logger"] # "STARTED"
      BY <1>8 DEF StopsParts, Parts, call
    <3>2. Ahead("main", Call("logger", "stop")) \/ state["logger"] # "STARTED"
      BY <2>1 DEF IInv, PassedIsDown
    <3>3. Call("logger", "stop") \notin {Call("logic", "stop"), Call("processors", "join"),
                                        Call("loop", "join"), Call("logic", "stopped")}
      BY DEF Call
    <3>4. "logger" \in Parts
      BY DEF Parts
    <3> QED
      BY <1>11, <2>1, <2>2, <3>1, <3>2, <3>3, <3>4
  <2> QED
    BY <2>3, <2>4, <2>5, <2>6
<1>24. Destroyed'
  <2>1. ~Leaving'
    <3>1. t = "main" => Ahead("main", Exits)'
      BY <1>4, <1>6 DEF Ahead
    <3>2. t # "main" => ~Leaving
      BY <1>1, <1>5 DEF IInv, Destroyed
    <3>3. t # "main" => todo'["main"] = todo["main"]
      BY <1>5, <1>6
    <3> QED
      BY <1>1, <1>7, <3>1, <3>2, <3>3 DEF Leaving, Ahead
  <2> QED
    BY <2>1 DEF Destroyed
<1>25. LogOpen'
  <2>1. state'["logger"] # state["logger"] => call = Call("logger", "stop") /\ state'["logger"] = "STOPPED"
    <3>1. call[1] = "logger" => call[2] = "stop"
      BY <1>9 DEF HandlerCalls, Call, Threads
    <3> QED
      BY <1>8, <1>12, <3>1 DEF StopsParts, Parts, call
  <2>2. state'["logger"] \in {"STARTED", "STOPPED"}
    BY <2>1 DEF IInv, LogOpen
  <2>3. ASSUME threads = {}, Silent PROVE LogOpen'
    <3>1. call # Call("application", "stopped")
      BY <2>3, HandlerIsAlone DEF Silent, call
    <3>2. call[2] = "stopped" => call[1] = "logic"
      BY <1>9, <1>12, <3>1 DEF HandlerCalls, Call, Threads
    <3>3. \A p \in {"application", "consumer", "publisher"} :
             state'[p] = state[p] \/ state'[p] = "DEINITIALIZED"
      BY <1>8, <2>3, <3>2 DEF StopsParts, Silent, Parts, call
    <3>4. state'["logic"] \in {state["logic"], "STOPPED", "DEINITIALIZED"}
      BY <1>8 DEF StopsParts, Parts
    <3> QED
      BY <1>7, <2>2, <2>3, <3>3, <3>4 DEF LogOpen, Silent
  <2>4. CASE call = Call("logger", "stop")
    <3>1. threads = {}
      BY <1>19, <2>4
    <3>2. Silent
      BY <2>4, HandlerIsAlone DEF call
    <3> QED
      BY <2>3, <3>1, <3>2
  <2>5. CASE call # Call("logger", "stop") /\ state["logger"] = "STARTED"
    BY <2>1, <2>2, <2>5 DEF LogOpen
  <2> QED
    BY <2>3, <2>4, <2>5 DEF IInv, LogOpen
<1>26. ChannelsOpen'
  <2>1. consuming' => "consumer" \in channels'
    BY <1>8 DEF IInv, ChannelsOpen, StopsThings
  <2>2. state'["consumer"] = "STOPPED" => "processors" \notin threads
    <3>1. call[1] = "consumer" => call[2] # "stopped"
      BY <1>9 DEF HandlerCalls, Call, Threads
    <3>2. state'["consumer"] = "STOPPED" => state["consumer"] = "STOPPED" \/ call = Call("consumer", "stop")
      BY <1>8, <1>12, <3>1 DEF StopsParts, Parts, call
    <3> QED
      BY <1>20, <3>2 DEF IInv, ChannelsOpen
  <2>3. registered /\ "loop" \in threads => "publisher" \in channels'
    <3>1. "publisher" \in channels \ channels' => call = Call("publisher", "stop")
      <4>1. call[2] # "destroy"
        BY <1>9 DEF HandlerCalls, Call, Threads
      <4> QED
        BY <1>8, <1>12, <4>1 DEF StopsThings, call
    <3> QED
      BY <1>20, <3>1 DEF IInv, ChannelsOpen
  <2> QED
    BY <1>7, <2>1, <2>2, <2>3 DEF ChannelsOpen
<1>27. EndsAreExplained'
  BY <1>7 DEF IInv, SignalsCounted, EndsAreExplained
<1>28. WentDown'
  <2>1. Uses' = Uses /\ installed'
    BY <1>7, SameProgram
  <2>2. ASSUME NEW p \in {"consumer", "publisher", "logic"}
        PROVE  state'[p] \in {state[p], "STOPPED", "DEINITIALIZED"}
    BY <1>8 DEF StopsParts, Parts
  <2>3. ASSUME NEW p \in {"consumer", "publisher"}, state[p] = "DEINITIALIZED"
        PROVE  state'[p] = "DEINITIALIZED"
    <3>1. call[1] = p => call[2] # "stopped"
      BY <1>9 DEF HandlerCalls, Call, Threads
    <3> QED
      BY <1>8, <2>3, <3>1 DEF StopsParts, Parts, call
  <2>4. ASSUME Handling("main")', NEW p \in Uses \cap {"consumer", "publisher"},
               ~Ahead("main", Call(p, "deinitialize"))'
        PROVE  state'[p] = "DEINITIALIZED"
    <3>1. Handling("main") /\ "main" \in Workers
      BY <1>5, <1>7, <1>11, <2>4 DEF Handling
    <3>2. CASE state[p] = "DEINITIALIZED"
      BY <2>3, <3>2
    <3>3. CASE Ahead("main", Call(p, "deinitialize"))
      <4>1. Call(p, "deinitialize") \notin {Call("logic", "stop"), Call("processors", "join"),
                                            Call("loop", "join"), Call("logic", "stopped")}
        BY DEF Call
      <4>2. t = "main" /\ call = Call(p, "deinitialize")
        BY <1>11, <2>4, <3>1, <3>3, <4>1
      <4>3. ~Ahead("main", Call(p, "stop"))
        BY <4>2, HandlerOrder DEF Ahead, call
      <4>4. state[p] # "STARTED"
        BY <3>1, <4>3 DEF IInv, PassedIsDown
      <4>5. state[p] \in {"STOPPED", "DEINITIALIZED"}
        BY <2>4, <4>4 DEF IInv, WentDown
      <4>6. p \in Parts /\ p \in {"consumer", "publisher"}
        BY <2>4 DEF Parts
      <4> QED
        BY <1>8, <2>3, <4>2, <4>5, <4>6 DEF StopsParts, call
    <3> QED
      BY <3>1, <3>2, <3>3 DEF IInv, WentDown
  <2>5. \A p \in Uses \cap {"consumer", "publisher", "logic"} :
           state'[p] \in {"STARTED", "STOPPED", "DEINITIALIZED"}
    BY <2>2 DEF IInv, WentDown
  <2> QED
    BY <2>1, <2>4, <2>5 DEF WentDown, Ahead
<1> QED
  BY <1>13, <1>14, <1>15, <1>16, <1>17, <1>21, <1>22, <1>23, <1>24, <1>25, <1>26, <1>27, <1>28 DEF IInv

\* The handler's exit() is main's, and everything is down by then.
LEMMA HandlerExits ==
    ASSUME IInv, ended = "no", installed, NEW t \in Workers, IsRest(todo[t], SignalHandler),
           Exit(t), UNCHANGED processVars, UNCHANGED <<program, strayed>>
    PROVE  IInv'
<1>1. Head(todo[t]) = Exits
  <2>1. Head(todo[t]) \in HandlerCalls
    BY HandlerGoesOn
  <2> QED
    BY <2>1 DEF Exit, Calling, HandlerCalls, Call, Exits, Threads
<1>2. /\ t = "main" /\ threads = {} /\ todo["main"] # <<>> /\ ~failed /\ signals # 0
      /\ state["application"] = "DEINITIALIZED" /\ state["logger"] # "STARTED"
      /\ \A p \in {"consumer", "publisher", "logic"} : state[p] # "STARTED"
  BY <1>1, HandlerIsAlone
<1>3. /\ todo \in [Workers -> Seq(Calls)] /\ Workers = Threads \cup {"main"}
      /\ "main" \notin Threads
  BY DEF IInv, Types, Workers, Threads
<1>4. todo' = [todo EXCEPT !["main"] = Destruction]
  BY <1>2 DEF Exit, Go
<1>5. todo'["main"] = Destruction /\ \A x \in Threads : todo'[x] = todo[x]
  BY <1>3, <1>4
<1>6. UNCHANGED <<program, state, callback, consuming, registered, channels, threads, told, joiner,
                  asleep, strayed, failed, signals, installed, code, ended>>
  BY DEF Exit, partVars, threadVars, processVars
<1>7. /\ IsApplication' = IsApplication /\ Destruction' = Destruction
      /\ \A x : IsRest(todo[x], SignalHandler)' <=> IsRest(todo'[x], SignalHandler)
      /\ \A x : IsRest(todo[x], Destruction)' <=> IsRest(todo'[x], Destruction)
  BY <1>6, SameProgram
<1>8. /\ IsRest(Destruction, Destruction)
      /\ Destruction \in Seq(Calls) /\ Destruction # <<>>
      /\ Exits \notin Range(Destruction)
      /\ Call("application", "stopped") \notin Range(Destruction)
  BY DestructionStarts, DestructionGoesOn DEF Exits
<1>9. \A x \in Threads : todo[x] = <<>>
  BY <1>2 DEF IInv, SignalsCounted
<1>10. Types'
  <2>1. todo' \in [Workers -> Seq(Calls)]
    BY <1>3, <1>4, <1>8
  <2> QED
    BY <1>6, <2>1 DEF IInv, Types
<1>11. CallsLeft'
  <2>1. ASSUME NEW x \in Workers
        PROVE  todo'[x] = <<>> \/ (x = "main" /\ IsRest(todo[x], Destruction)')
    <3>1. CASE x = "main"
      BY <1>5, <1>7, <1>8, <3>1
    <3>2. CASE x # "main"
      BY <1>3, <1>5, <1>9, <3>2
    <3> QED
      BY <3>1, <3>2
  <2> QED
    BY <1>2, <1>6, <2>1 DEF CallsLeft, Starting
<1>12. SignalsCounted'
  BY <1>2, <1>5, <1>6, <1>8, <1>9 DEF IInv, SignalsCounted
<1>13. StartedParts' /\ StartedThings' /\ Up'
  BY <1>2, <1>6 DEF StartedParts, StartedThings, Starting, Up
<1>14. GeneratorParts' /\ LogOpen' /\ ChannelsOpen' /\ EndsAreExplained'
  BY <1>6 DEF IInv, SignalsCounted, GeneratorParts, IsApplication, LogOpen, Silent, ChannelsOpen,
              EndsAreExplained
<1>15. JoinedEnded'
  BY <1>2, <1>6 DEF JoinedEnded
<1>16. StoppedLast'
  BY <1>2, <1>5, <1>6, <1>8 DEF StoppedLast, Ahead
<1>17. PassedIsDown' /\ WentDown'
  <2>1. ~Handling("main")'
    BY <1>5, <1>8 DEF Handling, Ahead
  <2>2. Uses' = Uses
    BY <1>6, SameProgram
  <2> QED
    BY <1>6, <2>1, <2>2 DEF IInv, PassedIsDown, WentDown
<1>18. Destroyed'
  <2>1. ASSUME NEW p \in {"consumer", "publisher"}
        PROVE  Call(p, "destroy") \in Range(Destruction) \/ p \notin channels
    BY DestructionStarts DEF IInv, GeneratorParts
  <2> QED
    BY <1>2, <1>5, <1>6, <2>1 DEF Destroyed, Ahead
<1> QED
  BY <1>10, <1>11, <1>12, <1>13, <1>14, <1>15, <1>16, <1>17, <1>18 DEF IInv

\* main alone runs the destructors: after exit() no thread is left.
LEMMA DestructionIsMains ==
    ASSUME IInv, ended = "no", NEW t \in Workers, todo[t] # <<>>, ~Starting,
           installed => ~IsRest(todo[t], SignalHandler)
    PROVE  /\ t = "main" /\ IsRest(todo[t], Destruction) /\ Leaving /\ ~Starting
           /\ Exits \notin Range(todo[t])
           /\ Call("application", "stopped") \notin Range(todo[t])
           /\ installed => threads = {} /\ ~failed /\ \A x \in Threads : todo[x] = <<>>
           /\ ~installed => signals = 0 /\ failed
<1>1. t = "main" /\ IsRest(todo[t], Destruction)
  BY DEF IInv, CallsLeft, Starting, Workers
<1>2. Exits \notin Range(todo[t]) /\ Call("application", "stopped") \notin Range(todo[t])
  BY <1>1, DestructionGoesOn DEF Exits
<1>3. Leaving
  BY <1>1, <1>2 DEF Leaving, Starting, Ahead
<1>4. installed => threads = {} /\ ~failed
  BY <1>3 DEF IInv, Destroyed, CallsLeft
<1>5. threads = {} => \A x \in Threads : todo[x] = <<>>
  BY DEF IInv, SignalsCounted
<1>6. ~installed => signals = 0 /\ failed
  BY DEF IInv, SignalsCounted, Starting
<1> QED
  BY <1>1, <1>2, <1>3, <1>4, <1>5, <1>6

\* A step of the destructors before the event loop's.
LEMMA DestructionGoesDown ==
    ASSUME IInv, ended = "no", NEW t \in Workers, todo[t] # <<>>, ~Starting,
           installed => ~IsRest(todo[t], SignalHandler),
           Head(todo[t]) # Call("eventLoop", "destroy"), Retreats(t)
    PROVE  IInv'
<1> DEFINE call == Head(todo[t])
<1>1. /\ t = "main" /\ IsRest(todo[t], Destruction) /\ Leaving /\ ~Starting
      /\ Exits \notin Range(todo[t])
      /\ Call("application", "stopped") \notin Range(todo[t])
      /\ installed => threads = {} /\ ~failed /\ \A x \in Threads : todo[x] = <<>>
      /\ ~installed => signals = 0 /\ failed
  BY DestructionIsMains
<1>2. PICK rest : todo' = [todo EXCEPT ![t] = rest] /\ GoesOn(t, rest)
  BY DEF Retreats
<1>3. IsRest(rest, Destruction) /\ Passes(t, rest)
  BY <1>1, <1>2, DestructionPasses
<1>4. rest \in Seq(Calls) /\ rest # <<>>
  BY <1>3, DestructionGoesOn
<1>5. /\ todo \in [Workers -> Seq(Calls)] /\ Workers = Threads \cup {"main"}
      /\ "main" \notin Threads
  BY DEF IInv, Types, Workers, Threads
<1>6. todo'["main"] = rest /\ \A x \in Threads : todo'[x] = todo[x]
  BY <1>1, <1>2, <1>5
<1>7. UNCHANGED <<program, strayed, failed, signals, installed, code, ended, threads, callback, registered>>
  BY DEF Retreats, StopsThings, processVars
<1>8. StopsParts(t) /\ StopsThings(t)
  BY DEF Retreats
<1>9. /\ call \in DestructionCalls /\ call = Call(call[1], call[2])
      /\ ~IsApplication => call[1] \in {"publisher", "eventLoop"}
  <2>1. call \in DestructionCalls /\ (~IsApplication => call[1] \in {"publisher", "eventLoop"})
    BY <1>1, DestructionGoesOn
  <2> QED
    BY <2>1 DEF DestructionCalls, Call
<1>10. /\ IsApplication' = IsApplication
       /\ \A x : IsRest(todo[x], SignalHandler)' <=> IsRest(todo'[x], SignalHandler)
       /\ \A x : IsRest(todo[x], Destruction)' <=> IsRest(todo'[x], Destruction)
  BY <1>7, SameProgram
<1>11. /\ \A c : Ahead("main", c)' => Ahead("main", c)
       /\ \A c : Ahead("main", c) =>
            \/ Ahead("main", c)'
            \/ c = call /\ (c[2] = "join" => c[1] \notin threads)
            \/ /\ state["logic"] # "STARTED"
               /\ c \in {Call("logic", "stop"), Call("processors", "join"), Call("loop", "join"),
                         Call("logic", "stopped")}
  BY <1>1, <1>3, <1>6 DEF Ahead, Passes
<1>12. call \in {Call("logic", "stopped"), Call("publisher", "destroy")}
         => "processors" \notin threads /\ "loop" \notin threads
  <2>1. ASSUME failed, call \in {Call("logic", "stopped"), Call("publisher", "destroy")},
               NEW thread \in {"processors", "loop"}
        PROVE  thread \notin threads
    <3>1. ~Ahead("main", Call(thread, "join"))
      BY <1>1, <2>1, DestructionOrder DEF Ahead
    <3> QED
      BY <2>1, <3>1 DEF IInv, JoinedEnded
  <2> QED
    BY <1>1, <2>1
<1> HIDE DEF call
<1>13. \A p, op : call = Call(p, op) <=> call[1] = p /\ call[2] = op
  BY <1>9 DEF Call
<1>14. /\ call[2] \in {"stop", "stopped"} => call[1] = "logic"
       /\ call[2] # "deinitialize"
  BY <1>9 DEF DestructionCalls, Call
<1>15. \A p \in Parts : p # "logic" => state'[p] = state[p]
  BY <1>8, <1>14 DEF StopsParts, call
<1>16. Types'
  <2>1. todo' \in [Workers -> Seq(Calls)]
    BY <1>2, <1>4, <1>5
  <2> QED
    BY <1>7, <1>8, <2>1 DEF IInv, Types, StopsParts, StopsThings
<1>17. CallsLeft'
  <2>1. IsRest(todo["main"], Destruction)'
    BY <1>3, <1>6, <1>10
  <2>2. installed => \A x \in Workers : todo'[x] = <<>> \/ x = "main"
    BY <1>1, <1>5, <1>6
  <2>3. ~installed => \A x \in Threads : todo'[x] = <<>>
    BY <1>6 DEF IInv, CallsLeft
  <2> QED
    BY <1>1, <1>7, <2>1, <2>2, <2>3 DEF IInv, CallsLeft, Starting
<1>18. SignalsCounted'
  <2>1. todo["main"] # <<>> /\ todo'["main"] # <<>>
    BY <1>1, <1>4, <1>6
  <2>2. ASSUME signals <= 1, NEW x \in Threads
        PROVE  todo'[x] = <<>> /\ joiner'[x] \in {"nobody", "main"}
    BY <1>1, <1>6, <1>8, <2>2 DEF IInv, SignalsCounted, StopsThings
  <2> QED
    BY <1>6, <1>7, <2>1, <2>2 DEF IInv, SignalsCounted
<1>19. StartedParts' /\ StartedThings'
  BY <1>1, <1>7 DEF StartedParts, StartedThings, Starting
<1>20. Up'
  BY <1>1, <1>7 DEF IInv, SignalsCounted, Up
<1>21. GeneratorParts'
  <2> SUFFICES ASSUME ~IsApplication
               PROVE  /\ threads' \subseteq {"eventLoop"} /\ channels' \subseteq {"publisher"}
                      /\ ~consuming' /\ ~registered'
                      /\ state'["logic"] = "CREATED" /\ state'["consumer"] = "CREATED"
    BY <1>7 DEF GeneratorParts, IsApplication
  <2>1. state'["logic"] = state["logic"] /\ state'["consumer"] = state["consumer"]
    BY <1>8, <1>9 DEF StopsParts, Parts, call
  <2> QED
    BY <1>7, <1>8, <2>1 DEF IInv, GeneratorParts, StopsThings
<1>22. JoinedEnded'
  <2>1. ASSUME failed, NEW thread \in {"processors", "loop"}
        PROVE  Ahead("main", Call(thread, "join"))' \/ thread \notin threads
    <3>1. Ahead("main", Call(thread, "join")) \/ thread \notin threads
      BY <2>1 DEF IInv, JoinedEnded
    <3>2. call = Call(thread, "join") => call[2] = "join" /\ call[1] = thread
      BY <1>13
    <3>3. thread \in threads => state["logic"] = "STARTED"
      BY DEF IInv, JoinedEnded
    <3> QED
      BY <1>11, <3>1, <3>2, <3>3
  <2>2. threads \cap {"processors", "loop"} # {} => state'["logic"] = "STARTED"
    <3>1. threads \cap {"processors", "loop"} # {} => state["logic"] = "STARTED"
      BY DEF IInv, JoinedEnded
    <3>2. state'["logic"] # state["logic"] => call = Call("logic", "stopped")
      BY <1>8, <1>13, <1>14 DEF StopsParts, Parts, call
    <3> QED
      BY <1>12, <3>1, <3>2
  <2>3. installed => threads = {}
    BY <1>1
  <2> QED
    BY <1>7, <2>1, <2>2, <2>3 DEF JoinedEnded, Handling
<1>23. StoppedLast'
  <2>1. ~Ahead("main", Call("application", "stopped")) /\ todo["main"] # <<>>
    BY <1>1 DEF Ahead
  <2>2. ~Ahead("main", Call("application", "stopped"))' /\ todo'["main"] # <<>>
    BY <1>4, <1>6, <1>11, <2>1
  <2> QED
    BY <1>7, <1>8, <1>15, <2>1, <2>2 DEF IInv, StoppedLast, StopsParts, Parts
<1>24. PassedIsDown' /\ WentDown'
  <2>1. ~Handling("main")'
    BY <1>1, <1>11 DEF Handling, Ahead
  <2>2. Uses' = Uses /\ installed' = installed
    BY <1>7, SameProgram
  <2>3. \A p \in {"consumer", "publisher", "logic"} : state'[p] \in {state[p], "STOPPED"}
    BY <1>8, <1>14, <1>15 DEF StopsParts, Parts, call
  <2> QED
    BY <2>1, <2>2, <2>3 DEF IInv, PassedIsDown, WentDown
<1>25. Destroyed'
  <2>1. ASSUME NEW p \in {"consumer", "publisher"}
        PROVE  Ahead("main", Call(p, "destroy"))' \/ p \notin channels'
    <3>1. Ahead("main", Call(p, "destroy")) \/ p \notin channels
      BY <1>1 DEF IInv, Destroyed
    <3>2. Call(p, "destroy") \notin {Call("logic", "stop"), Call("processors", "join"),
                                     Call("loop", "join"), Call("logic", "stopped")}
      BY DEF Call
    <3>3. call = Call(p, "destroy") => p \notin channels'
      BY <1>8 DEF StopsThings, call
    <3>4. channels' \subseteq channels
      BY <1>8 DEF StopsThings
    <3> QED
      BY <1>11, <3>1, <3>2, <3>3, <3>4
  <2>2. installed => /\ threads = {}
                     /\ state'["application"] = "DEINITIALIZED" /\ state'["logger"] # "STARTED"
    BY <1>1, <1>15 DEF IInv, Destroyed, Parts
  <2> QED
    BY <1>7, <2>1, <2>2 DEF Destroyed, Ahead
<1>26. LogOpen'
  <2>1. state'["logic"] \in {state["logic"], "STOPPED"}
    BY <1>8, <1>14 DEF StopsParts, Parts, call
  <2> QED
    BY <1>7, <1>15, <2>1 DEF IInv, LogOpen, Silent, Parts
<1>27. ChannelsOpen'
  <2>1. consuming' => "consumer" \in channels'
    BY <1>8 DEF IInv, ChannelsOpen, StopsThings
  <2>2. registered /\ "loop" \in threads => "publisher" \in channels'
    <3>1. "publisher" \in channels \ channels' => call = Call("publisher", "destroy")
      BY <1>8, <1>13, <1>14 DEF StopsThings, call
    <3> QED
      BY <1>12, <3>1 DEF IInv, ChannelsOpen
  <2> QED
    BY <1>7, <1>15, <2>1, <2>2 DEF IInv, ChannelsOpen, Parts
<1>28. EndsAreExplained'
  BY <1>7 DEF IInv, SignalsCounted, EndsAreExplained
<1> QED
  BY <1>16, <1>17, <1>18, <1>19, <1>20, <1>21, <1>22, <1>23, <1>24, <1>25, <1>26, <1>27, <1>28 DEF IInv

\* Every step of a thread that has passed the start
LEMMA StopIsKept ==
    ASSUME IInv, ended = "no", ~Starting, NEW t \in Workers, Execute(t), ~End(t)
    PROVE  IInv'
<1> DEFINE call == Head(todo[t])
<1>1. todo[t] # <<>> /\ UNCHANGED <<program, strayed>>
  BY DEF Execute
<1>2. CASE installed /\ IsRest(todo[t], SignalHandler)
  <2>1. call \in HandlerCalls
    BY <1>2, HandlerGoesOn
  <2>2. call[2] \in StopOps /\ call[2] # "destroy" /\ (call[2] = "exit" => call = Exits)
    BY <2>1 DEF HandlerCalls, Call, StopOps, Exits, Threads
  <2>3. UNCHANGED processVars /\ (StopsSomething(t) \/ Exit(t))
    BY <2>2 DEF Execute, End, Fail, Fails, LogWriterFails, PartFails, BrokerFails, Configures, Declares,
                InstallHandler, Initialize, Advance, ConfigureLogger, OpenLog, ConfigureStorage,
                StartStorage, RegisterCallback, Configure, StartEventLoop, StartLogic, StartHandler,
                Declare, Consume, RegisterPublisher, WriteData, StopsSomething, Calling, StopOps
  <2>4. CASE Exit(t)
    BY <1>1, <1>2, <2>3, <2>4, HandlerExits
  <2>5. CASE StopsSomething(t)
    <3>1. call # Exits
      BY <2>5 DEF StopsSomething, StopApplication, StopLogic, StopEventLoop, StopHandler, Stopped,
                  Join, DeinitializePart, StopLogger, Destroy, Calling, Exits, Call
    <3>2. call = Call("application", "stop") => state["application"] = "STARTED"
      BY <1>2, HandlerIsAlone
    <3>3. Retreats(t)
      BY <1>1, <2>1, <2>3, <2>5, <3>2, StopsRetreat
    <3> QED
      BY <1>2, <3>1, <3>3, HandlerGoesDown
  <2> QED
    BY <2>3, <2>4, <2>5
<1>3. CASE installed => ~IsRest(todo[t], SignalHandler)
  <2>1. IsRest(todo[t], Destruction)
    BY <1>1, <1>3, DestructionIsMains
  <2>2. call \in DestructionCalls
    BY <2>1, DestructionGoesOn
  <2>3. call[2] \in StopOps /\ call[2] # "exit" /\ call # Call("application", "stop")
    BY <2>2 DEF DestructionCalls, Call, StopOps
  <2>4. UNCHANGED processVars /\ StopsSomething(t)
    BY <2>3 DEF Execute, End, Fail, Fails, LogWriterFails, PartFails, BrokerFails, Configures, Declares,
                InstallHandler, Initialize, Advance, ConfigureLogger, OpenLog, ConfigureStorage,
                StartStorage, RegisterCallback, Configure, StartEventLoop, StartLogic, StartHandler,
                Declare, Consume, RegisterPublisher, WriteData, Exit, StopsSomething, Calling, StopOps
  <2>5. call # Call("eventLoop", "destroy")
    BY <2>4 DEF StopsSomething, StopApplication, StopLogic, StopEventLoop, StopHandler, Stopped,
                Join, DeinitializePart, StopLogger, Destroy, Calling, Part, Call
  <2>6. Retreats(t)
    BY <1>1, <2>2, <2>3, <2>4, StopsRetreat
  <2> QED
    BY <1>1, <1>3, <2>5, <2>6, DestructionGoesDown
<1> QED
  BY <1>2, <1>3

-----------------------------------------------------------------------------
(* The end, signals, deliveries and the end of threads                     *)

\* A step that neither makes a call nor changes the parts keeps what is about them.
LEMMA RestIsKept ==
    ASSUME IInv, UNCHANGED <<program, state, callback, consuming, registered, channels, threads,
                             told, joiner, todo, failed, installed>>,
           installed => UNCHANGED signals
    PROVE  /\ CallsLeft' /\ StartedParts' /\ StartedThings' /\ Up' /\ GeneratorParts'
           /\ JoinedEnded' /\ StoppedLast' /\ PassedIsDown' /\ WentDown' /\ Destroyed'
           /\ LogOpen' /\ ChannelsOpen'
<1>1. /\ IsApplication' = IsApplication /\ Uses' = Uses
      /\ \A t : IsRest(todo[t], Main)' <=> IsRest(todo'[t], Main)
      /\ \A t : IsRest(todo[t], SignalHandler)' <=> IsRest(todo'[t], SignalHandler)
      /\ \A t : IsRest(todo[t], Destruction)' <=> IsRest(todo'[t], Destruction)
  BY SameProgram
<1>2. CallsLeft'
  BY <1>1 DEF IInv, CallsLeft, Starting
<1>3. StartedParts'
  BY <1>1 DEF IInv, StartedParts, Starting, Ahead
<1>4. StartedThings'
  BY <1>1 DEF IInv, StartedThings, Starting, Ahead, IsApplication
<1>5. Up'
  BY DEF IInv, Up, StartedMeansStarted, IsApplication
<1>6. GeneratorParts' /\ LogOpen' /\ ChannelsOpen'
  BY DEF IInv, GeneratorParts, LogOpen, Silent, ChannelsOpen, IsApplication
<1>7. JoinedEnded'
  BY DEF IInv, JoinedEnded, Handling, Ahead
<1>8. StoppedLast'
  BY DEF IInv, StoppedLast, Ahead
<1>9. PassedIsDown' /\ WentDown'
  BY <1>1 DEF IInv, PassedIsDown, WentDown, Handling, Ahead
<1>10. Destroyed'
  BY DEF IInv, Destroyed, Leaving, Ahead
<1> QED
  BY <1>2, <1>3, <1>4, <1>5, <1>6, <1>7, <1>8, <1>9, <1>10

\* The last destructor, or a join that nobody may make.
LEMMA EndIsExplained ==
    ASSUME IInv, ended = "no", ~Starting, NEW t \in Workers, Execute(t), End(t)
    PROVE  IInv'
<1> DEFINE call == Head(todo[t])
<1>1. /\ todo[t] # <<>>
      /\ UNCHANGED <<program, state, callback, consuming, registered, channels, threads, told,
                     joiner, asleep, todo, failed, signals, installed, code, strayed>>
  BY DEF Execute, End, partVars, threadVars
<1>2. /\ IsRest(todo[t], SignalHandler) /\ installed => call \in HandlerCalls
      /\ IsRest(todo[t], Destruction) => call \in DestructionCalls
  BY HandlerGoesOn, DestructionGoesOn
<1>3. ASSUME call[2] = "join", t = call[1] \/ joiner[call[1]] \notin {"nobody", t}
      PROVE  signals > 1
  <2>1. signals <= 1 => t = "main"
    BY <1>1 DEF IInv, SignalsCounted, Workers
  <2>2. call[1] \in Threads /\ "main" \notin Threads
    <3>1. (IsRest(todo[t], SignalHandler) /\ installed) \/ IsRest(todo[t], Destruction)
      BY <1>1, DestructionIsMains
    <3> QED
      BY <1>2, <1>3, <3>1 DEF HandlerCalls, DestructionCalls, Call, Threads
  <2>3. signals <= 1 => joiner[call[1]] \in {"nobody", "main"}
    BY <2>2 DEF IInv, SignalsCounted
  <2>4. signals \in Int
    BY DEF IInv, Types
  <2> QED
    BY <1>3, <2>1, <2>2, <2>3, <2>4
<1>4. ASSUME call[2] = "destroy", call[1] = "eventLoop"
      PROVE  /\ "eventLoop" \in threads => failed
             /\ "eventLoop" \notin threads /\ code = 0 =>
                  /\ threads = {} /\ channels = {}
                  /\ state["application"] = "DEINITIALIZED" /\ state["logger"] = "STOPPED"
             /\ "eventLoop" \notin threads /\ code # 0 => failed /\ threads = {} /\ ~consuming
  <2>1. ~(installed /\ IsRest(todo[t], SignalHandler))
    BY <1>2, <1>4 DEF HandlerCalls, Call
  <2>2. /\ t = "main" /\ IsRest(todo[t], Destruction) /\ Leaving
        /\ installed => threads = {} /\ ~failed
        /\ ~installed => failed
    BY <1>1, <2>1, DestructionIsMains
  <2>3. call = Call("eventLoop", "destroy")
    BY <1>2, <1>4, <2>2 DEF DestructionCalls, Call
  <2>4. /\ ~Ahead("main", Call("publisher", "destroy")) /\ ~Ahead("main", Call("consumer", "destroy"))
        /\ ~Ahead("main", Call("processors", "join")) /\ ~Ahead("main", Call("loop", "join"))
    BY <2>2, <2>3, DestructionOrder DEF Ahead
  <2>5. channels = {}
    BY <2>2, <2>4 DEF IInv, Types, Destroyed
  <2>6. ~consuming
    BY <2>5 DEF IInv, ChannelsOpen
  <2>7. "eventLoop" \notin threads => threads = {}
    <3>1. failed => "processors" \notin threads /\ "loop" \notin threads
      BY <2>4 DEF IInv, JoinedEnded
    <3> QED
      BY <2>2, <3>1 DEF IInv, Types, Threads
  <2>8. installed => state["application"] = "DEINITIALIZED" /\ state["logger"] = "STOPPED"
    BY <2>2 DEF IInv, Destroyed, LogOpen
  <2>9. failed <=> code # 0
    BY DEF IInv, SignalsCounted
  <2> QED
    BY <2>2, <2>5, <2>6, <2>7, <2>8, <2>9
<1>5. ended' \in {"exited", "aborted"} /\ EndsAreExplained'
  <2>1. CASE /\ call[2] = "destroy" /\ call[1] = "eventLoop"
             /\ ended' = IF "eventLoop" \in threads THEN "aborted" ELSE "exited"
    BY <1>1, <1>4, <2>1 DEF EndsAreExplained, IInv, SignalsCounted
  <2>2. CASE /\ call[2] = "join" /\ (t = call[1] \/ joiner[call[1]] \notin {"nobody", t})
             /\ ended' = "aborted"
    BY <1>1, <1>3, <2>2 DEF EndsAreExplained, IInv, SignalsCounted
  <2> QED
    BY <2>1, <2>2 DEF End, Calling, Part
<1>6. Types' /\ SignalsCounted'
  BY <1>1, <1>5 DEF IInv, Types, SignalsCounted
<1> QED
  BY <1>1, <1>5, <1>6, RestIsKept DEF IInv

LEMMA ExecuteKeeps ==
    ASSUME IInv, ended = "no", NEW t \in Workers, Execute(t)
    PROVE  IInv'
  BY StartIsKept, StopIsKept, EndIsExplained

LEMMA DeliverKeeps ==
    ASSUME IInv, ended = "no", Deliver
    PROVE  IInv'
<1>1. UNCHANGED <<program, state, callback, consuming, registered, channels, threads, told,
                  joiner, todo, failed, signals, installed, code, ended>>
  BY DEF Deliver, partVars, processVars
<1>2. asleep' \in BOOLEAN /\ strayed' \in BOOLEAN /\ (strayed' => failed)
  BY DEF Deliver, IInv, Types, SignalsCounted
<1>3. Types' /\ SignalsCounted' /\ EndsAreExplained'
  BY <1>1, <1>2 DEF IInv, Types, SignalsCounted, EndsAreExplained
<1> QED
  BY <1>1, <1>3, RestIsKept DEF IInv

\* A thread ends only after it was told to, which nobody does before the first SIGINT is
\* handled or the start fails.
LEMMA ThreadEndsKeeps ==
    ASSUME IInv, ended = "no", NEW thread \in Threads, ThreadEnds(thread)
    PROVE  IInv'
<1>1. /\ UNCHANGED <<program, state, callback, consuming, registered, channels, told, joiner, asleep,
                     todo, failed, signals, installed, code, ended, strayed>>
      /\ thread \in told /\ todo[thread] = <<>> /\ threads' = threads \ {thread}
  BY DEF ThreadEnds, partVars, processVars
<1>2. told # {}
  BY <1>1
<1>3. threads' \subseteq threads
  BY <1>1
<1>4. /\ IsApplication' = IsApplication
      /\ \A t : IsRest(todo[t], Main)' <=> IsRest(todo'[t], Main)
      /\ \A t : IsRest(todo[t], SignalHandler)' <=> IsRest(todo'[t], SignalHandler)
      /\ \A t : IsRest(todo[t], Destruction)' <=> IsRest(todo'[t], Destruction)
  BY <1>1, SameProgram
<1>5. Types'
  BY <1>1 DEF IInv, Types
<1>6. CallsLeft'
  BY <1>1, <1>4 DEF IInv, CallsLeft, Starting
<1>7. SignalsCounted'
  BY <1>1 DEF IInv, SignalsCounted
<1>8. StartedParts' /\ StartedThings' /\ Up'
  <2>1. ~Starting /\ ~(installed /\ signals = 0)
    BY <1>2 DEF IInv, StartedParts, Up
  <2> QED
    BY <1>1, <2>1 DEF StartedParts, StartedThings, Starting, Up
<1>9. GeneratorParts' /\ LogOpen' /\ ChannelsOpen'
  BY <1>1, <1>3 DEF IInv, GeneratorParts, LogOpen, Silent, ChannelsOpen, IsApplication
<1>10. JoinedEnded'
  BY <1>1, <1>3 DEF IInv, JoinedEnded, Handling, Ahead
<1>11. StoppedLast'
  BY <1>1, <1>3 DEF IInv, StoppedLast, Ahead
<1>12. PassedIsDown' /\ WentDown'
  <2>1. Uses' = Uses
    BY <1>1, SameProgram
  <2> QED
    BY <1>1, <2>1 DEF IInv, PassedIsDown, WentDown, Handling, Ahead
<1>13. Destroyed'
  BY <1>1, <1>3 DEF IInv, Destroyed, Leaving, Ahead
<1>14. EndsAreExplained'
  BY <1>1 DEF IInv, SignalsCounted, EndsAreExplained
<1> QED
  BY <1>5, <1>6, <1>7, <1>8, <1>9, <1>10, <1>11, <1>12, <1>13, <1>14 DEF IInv

\* The first SIGINT finds everything up, main without a call and all of the handler ahead;
\* a second one finds main in the handler or in the destructors.
LEMMA HandlerIsEntered ==
    ASSUME IInv, ended = "no", installed, NEW t \in Workers, todo[t] = <<>>,
           t = "main" \/ (todo["main"] # <<>> /\ t \in threads),
           Go(t, SignalHandler), signals' = signals + 1, signals < MaxSignals,
           UNCHANGED <<program, partVars, threadVars, failed, installed, code, strayed, ended>>
    PROVE  IInv'
<1>1. /\ UNCHANGED <<program, state, callback, consuming, registered, channels, threads, told, joiner,
                     asleep, failed, installed, code, ended, strayed>>
      /\ todo' = [todo EXCEPT ![t] = SignalHandler]
  BY DEF partVars, threadVars, Go
<1>2. /\ todo \in [Workers -> Seq(Calls)] /\ Workers = Threads \cup {"main"}
      /\ "main" \notin Threads /\ threads \subseteq Threads /\ signals \in Nat /\ ~failed
  BY DEF IInv, Types, CallsLeft, Workers, Threads
<1>3. todo'[t] = SignalHandler /\ \A x \in Workers : x # t => todo'[x] = todo[x]
  BY <1>1, <1>2
<1>4. /\ IsRest(SignalHandler, SignalHandler)
      /\ SignalHandler \in Seq(Calls) /\ SignalHandler # <<>>
      /\ {Call("eventLoop", "join"), Call("publisher", "stop"), Call("application", "stopped"),
          Call("publisher", "deinitialize"), Call("application", "deinitialize"),
          Call("logger", "stop"), Exits} \subseteq Range(SignalHandler)
      /\ IsApplication =>
           {Call("processors", "join"), Call("loop", "join"), Call("logic", "stopped"),
            Call("consumer", "stop"), Call("consumer", "deinitialize")} \subseteq Range(SignalHandler)
  BY HandlerStarts, HandlerGoesOn DEF Exits
<1>5. /\ t = "main" <=> signals = 0
      /\ signals' # 0
  BY <1>2 DEF IInv, SignalsCounted
<1>6. /\ IsApplication' = IsApplication
      /\ \A x : IsRest(todo[x], Main)' <=> IsRest(todo'[x], Main)
      /\ \A x : IsRest(todo[x], SignalHandler)' <=> IsRest(todo'[x], SignalHandler)
      /\ \A x : IsRest(todo[x], Destruction)' <=> IsRest(todo'[x], Destruction)
  BY <1>1, SameProgram
<1>7. Types'
  <2>1. todo' \in [Workers -> Seq(Calls)]
    BY <1>1, <1>2, <1>4
  <2>2. signals' \in 0..MaxSignals
    BY <1>2, MaxSignalsAssumption
  <2> QED
    BY <1>1, <2>1, <2>2 DEF IInv, Types
<1>8. CallsLeft'
  <2>1. ASSUME NEW x \in Workers
        PROVE  \/ todo'[x] = <<>>
               \/ IsRest(todo[x], SignalHandler)'
               \/ x = "main" /\ IsRest(todo[x], Destruction)'
    <3>1. CASE x = t
      BY <1>3, <1>4, <1>6, <3>1
    <3>2. CASE x # t
      BY <1>3, <1>6, <3>2 DEF IInv, CallsLeft
    <3> QED
      BY <3>1, <3>2
  <2> QED
    BY <1>1, <1>2, <2>1 DEF CallsLeft, Starting
<1>9. SignalsCounted'
  <2>1. todo'["main"] # <<>>
    BY <1>2, <1>3, <1>4
  <2>2. \A x \in Threads : todo'[x] # <<>> => x \in threads
    BY <1>2, <1>3 DEF IInv, SignalsCounted
  <2>3. ASSUME signals' <= 1, NEW x \in Threads
        PROVE  todo'[x] = <<>> /\ joiner'[x] \in {"nobody", "main"}
    <3>1. signals = 0 /\ t = "main"
      BY <1>2, <1>5, <2>3
    <3> QED
      BY <1>1, <1>2, <1>3, <3>1 DEF IInv, SignalsCounted
  <2> QED
    BY <1>1, <1>5, <2>1, <2>2, <2>3 DEF IInv, SignalsCounted
<1>10. StartedParts' /\ StartedThings' /\ Up'
  BY <1>1, <1>5 DEF StartedParts, StartedThings, Starting, Up
<1>11. GeneratorParts' /\ LogOpen' /\ ChannelsOpen'
  BY <1>1 DEF IInv, GeneratorParts, LogOpen, Silent, ChannelsOpen, IsApplication
<1>12. JoinedEnded'
  <2>1. ASSUME NEW x \in Workers, NEW thread \in Threads, Handling(x)'
        PROVE  Ahead(x, Call(thread, "join"))' \/ thread \notin threads
    <3>1. CASE x = t
      <4>1. Call(thread, "join") \in Range(SignalHandler) \/ thread \notin threads
        BY <1>4 DEF IInv, GeneratorParts, Threads
      <4> QED
        BY <1>3, <3>1, <4>1 DEF Ahead
    <3>2. CASE x # t
      BY <1>1, <1>3, <2>1, <3>2 DEF IInv, JoinedEnded, Handling, Ahead
    <3> QED
      BY <3>1, <3>2
  <2> QED
    BY <1>1, <1>2, <2>1 DEF IInv, JoinedEnded
<1>13. StoppedLast'
  <2>1. CASE t = "main"
    BY <1>1, <1>3, <1>4, <2>1 DEF IInv, StoppedLast, Ahead
  <2>2. CASE t # "main"
    BY <1>1, <1>2, <1>3, <2>2 DEF IInv, StoppedLast, Ahead
  <2> QED
    BY <2>1, <2>2
<1>14. PassedIsDown'
  <2>1. CASE t = "main"
    <3>1. IsApplication \/ (state["logic"] = "CREATED" /\ state["consumer"] = "CREATED")
      BY DEF IInv, GeneratorParts
    <3> QED
      BY <1>1, <1>3, <1>4, <2>1, <3>1 DEF PassedIsDown, Ahead
  <2>2. CASE t # "main"
    BY <1>1, <1>2, <1>3, <2>2 DEF IInv, PassedIsDown, Handling, Ahead
  <2> QED
    BY <2>1, <2>2
<1>15. Destroyed'
  <2>1. CASE t = "main"
    BY <1>1, <1>2, <1>3, <1>4, <2>1 DEF Destroyed, Leaving, Ahead
  <2>2. CASE t # "main"
    BY <1>1, <1>2, <1>3, <2>2 DEF IInv, Destroyed, Leaving, Ahead
  <2> QED
    BY <2>1, <2>2
<1>16. EndsAreExplained'
  BY <1>1 DEF IInv, SignalsCounted, EndsAreExplained
<1>17. WentDown'
  <2>1. Uses' = Uses
    BY <1>1, SameProgram
  <2>2. CASE t = "main"
    <3>1. "consumer" \in Uses => IsApplication
      BY DEF Uses
    <3> QED
      BY <1>1, <1>3, <1>4, <2>1, <2>2, <3>1 DEF IInv, WentDown, Ahead
  <2>3. CASE t # "main"
    BY <1>1, <1>2, <1>3, <2>1, <2>3 DEF IInv, WentDown, Handling, Ahead
  <2> QED
    BY <2>2, <2>3
<1> QED
  BY <1>7, <1>8, <1>9, <1>10, <1>11, <1>12, <1>13, <1>14, <1>15, <1>16, <1>17 DEF IInv

LEMMA InterruptKeeps ==
    ASSUME IInv, ended = "no", Interrupt
    PROVE  IInv'
<1>1. /\ signals < MaxSignals /\ signals' = signals + 1
      /\ UNCHANGED <<program, partVars, threadVars, failed, installed, code, strayed>>
  BY DEF Interrupt
<1>2. CASE installed
  <2>1. PICK t \in Workers : /\ todo[t] = <<>> /\ Go(t, SignalHandler)
                             /\ t = "main" \/ (todo["main"] # <<>> /\ t \in threads)
    BY <1>2 DEF Interrupt, Handle, Workers, IInv, Types
  <2>2. UNCHANGED ended
    BY <1>2 DEF Interrupt
  <2> QED
    BY <1>1, <1>2, <2>1, <2>2, HandlerIsEntered
<1>3. CASE ~installed
  <2>1. ended' = "killed" /\ UNCHANGED todo
    BY <1>3 DEF Interrupt
  <2>2. signals \in 0..MaxSignals /\ signals' \in 0..MaxSignals
    BY <1>1, MaxSignalsAssumption DEF IInv, Types
  <2>3. Types'
    BY <1>1, <2>1, <2>2 DEF IInv, Types, partVars, threadVars
  <2>4. SignalsCounted'
    <3>1. signals' <= 1 => signals <= 1
      BY <1>1, <2>2
    <3> QED
      BY <1>1, <1>3, <2>1, <3>1 DEF IInv, SignalsCounted, threadVars
  <2>5. EndsAreExplained'
    BY <1>1, <2>1 DEF IInv, SignalsCounted, EndsAreExplained
  <2> QED
    BY <1>1, <1>3, <2>1, <2>3, <2>4, <2>5, RestIsKept DEF IInv, partVars, threadVars
<1> QED
  BY <1>2, <1>3

LEMMA NextKeeps ==
    IInv /\ [Next]_vars => IInv'
<1> SUFFICES ASSUME IInv, [Next]_vars PROVE IInv'
  OBVIOUS
<1>1. CASE UNCHANGED vars
  <2>1. UNCHANGED <<program, state, callback, consuming, registered, channels, threads, told, joiner,
                    asleep, todo, failed, signals, installed, code, ended, strayed>>
    BY <1>1 DEF vars, partVars, threadVars, processVars
  <2>2. Types' /\ SignalsCounted' /\ EndsAreExplained'
    BY <2>1 DEF IInv, Types, SignalsCounted, EndsAreExplained
  <2> QED
    BY <2>1, <2>2, RestIsKept DEF IInv
<1>2. CASE Next
  <2>1. ended = "no"
    BY <1>2 DEF Next
  <2>2. ASSUME NEW t \in Threads \cup {"main"}, Execute(t) PROVE IInv'
    BY <2>1, <2>2, ExecuteKeeps DEF Workers
  <2> QED
    BY <1>2, <2>1, <2>2, InterruptKeeps, DeliverKeeps, ThreadEndsKeeps DEF Next
<1> QED
  BY <1>1, <1>2

\* What a thread has not called yet tells what is up, what is down and who still runs, in
\* every state of both programs, for any number of SIGINTs.
THEOREM InvariantHolds ==
    Spec => []IInv
  BY InitEstablishes, NextKeeps, PTL DEF Spec

-----------------------------------------------------------------------------
(* The properties                                                          *)

\* IsSuffix compares the reversed sequences.
LEMMA RestIsSuffix ==
    ASSUME NEW S \in Seq(Calls), NEW s \in Seq(Calls), NEW k \in 1..(Len(S) + 1),
           Len(s) = Len(S) - k + 1, \A i \in 1..Len(s) : s[i] = S[k + i - 1]
    PROVE  IsSuffix(s, S)
<1> DEFINE m == Len(s)
           n == Len(S)
           r == Reverse(s)
           R == Reverse(S)
<1>1. m \in Nat /\ n \in Nat /\ m <= n /\ k = n - m + 1 /\ m \in Int /\ 1 \in Int
  BY LenProperties
<1>2. (\A i \in 1..m : s[i] \in Calls) /\ (\A i \in 1..n : S[i] \in Calls)
  BY <1>1, ElementOfSeq
<1>3. /\ r = [i \in 1..m |-> s[m - i + 1]]
      /\ R = [i \in 1..n |-> S[n - i + 1]]
  BY DEF Reverse
<1>4. \A i \in 1..m : m - i + 1 \in 1..m /\ n - i + 1 \in 1..n /\ k + (m - i + 1) - 1 = n - i + 1
  BY <1>1
<1>5. \A i \in 1..m : s[m - i + 1] = S[n - i + 1]
  BY <1>4
<1>6. \A i \in 1..m : i \in 1..n
  BY <1>1
<1> HIDE DEF m, n, r, R
<1>7. \A i \in 1..m : r[i] \in Calls /\ R[i] \in Calls /\ r[i] = R[i]
  BY <1>2, <1>3, <1>4, <1>5, <1>6
<1>8. /\ SubSeq(r, 1, m) \in Seq(Calls)
      /\ Len(SubSeq(r, 1, m)) = IF 1 <= m THEN m - 1 + 1 ELSE 0
      /\ \A i \in 1..(m - 1 + 1) : SubSeq(r, 1, m)[i] = r[1 + i - 1]
  BY <1>1, <1>7, SubSeqProperties
<1>9. /\ SubSeq(R, 1, m) \in Seq(Calls)
      /\ Len(SubSeq(R, 1, m)) = IF 1 <= m THEN m - 1 + 1 ELSE 0
      /\ \A i \in 1..(m - 1 + 1) : SubSeq(R, 1, m)[i] = R[1 + i - 1]
  BY <1>1, <1>7, SubSeqProperties
<1>10. SubSeq(r, 1, m) = SubSeq(R, 1, m)
  <2>1. (IF 1 <= m THEN m - 1 + 1 ELSE 0) = m /\ m - 1 + 1 = m /\ \A i \in 1..m : 1 + i - 1 = i
    BY <1>1
  <2>2. Len(SubSeq(r, 1, m)) = m /\ Len(SubSeq(R, 1, m)) = m
    BY <1>8, <1>9, <2>1
  <2>3. \A i \in 1..m : SubSeq(r, 1, m)[i] = SubSeq(R, 1, m)[i]
    BY <1>7, <1>8, <1>9, <2>1
  <2> QED
    BY <1>8, <1>9, <2>2, <2>3, SeqEqual
<1>11. Len(r) = m /\ Len(R) = n
  <2>1. \A i \in 1..n : n - i + 1 \in 1..n
    BY <1>1
  <2>2. r \in [1..m -> Calls] /\ R \in [1..n -> Calls]
    BY <1>2, <1>3, <1>4, <2>1
  <2> QED
    BY <1>1, <2>2
<1> QED
  BY <1>1, <1>10, <1>11 DEF IsSuffix, IsPrefix, m, n, r, R

LEMMA RestsAreSuffixes ==
    ASSUME NEW S \in Seq(Calls), NEW s, s = <<>> \/ IsRest(s, S)
    PROVE  IsSuffix(s, S)
<1>1. Len(S) \in Nat
  BY LenProperties
<1>2. CASE s = <<>>
  <2>1. s \in Seq(Calls) /\ Len(s) = 0
    BY <1>2, EmptySeq
  <2>2. Len(S) + 1 \in 1..(Len(S) + 1) /\ 0 = Len(S) - (Len(S) + 1) + 1
    BY <1>1
  <2>3. Len(s) = Len(S) - (Len(S) + 1) + 1 /\ \A i \in 1..Len(s) : s[i] = S[(Len(S) + 1) + i - 1]
    BY <2>1, <2>2
  <2> QED
    BY <2>1, <2>2, <2>3, RestIsSuffix
<1>3. ASSUME NEW k \in 1..Len(S), s = From(S, k)
      PROVE  IsSuffix(s, S)
  <2>1. \A i \in k..Len(S) : S[i] \in Calls
    BY <1>1, ElementOfSeq
  <2>2. k \in Int /\ Len(S) \in Int /\ k <= Len(S) /\ k \in 1..(Len(S) + 1)
    BY <1>1
  <2>3. /\ s \in Seq(Calls)
        /\ Len(s) = IF k <= Len(S) THEN Len(S) - k + 1 ELSE 0
        /\ \A i \in 1..(Len(S) - k + 1) : s[i] = S[k + i - 1]
    BY <1>3, <2>1, <2>2, SubSeqProperties DEF From
  <2> QED
    BY <2>2, <2>3, RestIsSuffix
<1> QED
  BY <1>2, <1>3 DEF IsRest

\* Every variable stays in its type, and what a thread still has to do is the rest of what
\* main, the handler or the destructors call.
THEOREM TypeCorrect ==
    Spec => []TypeOK
<1>1. IInv => TypeOK
  <2> SUFFICES ASSUME IInv PROVE TypeOK
    OBVIOUS
  <2>1. Main \in Seq(Calls) /\ SignalHandler \in Seq(Calls) /\ Destruction \in Seq(Calls)
    BY LengthOfMain, LengthOfHandler, LengthOfDestruction
  <2>2. ASSUME NEW t \in Threads \cup {"main"}
        PROVE  IsSuffix(todo[t], Main) \/ IsSuffix(todo[t], SignalHandler)
               \/ IsSuffix(todo[t], Destruction)
    <3>1. \/ todo[t] = <<>> \/ IsRest(todo[t], Main) \/ IsRest(todo[t], SignalHandler)
          \/ IsRest(todo[t], Destruction)
      BY DEF IInv, CallsLeft, Starting, Workers
    <3> QED
      BY <2>1, <3>1, RestsAreSuffixes
  <2>3. {asleep, callback, consuming, registered, failed, installed, strayed} \subseteq BOOLEAN
    BY Zenon DEF IInv, Types
  <2>4. /\ program \in Programs /\ state \in [Parts -> States] /\ told \subseteq Threads
        /\ threads \subseteq Threads /\ joiner \in [Threads -> Threads \cup {"main", "nobody"}]
        /\ channels \subseteq {"consumer", "publisher"} /\ signals \in 0..MaxSignals
        /\ code \in {0, 2, 3} /\ ended \in {"no", "exited", "killed", "aborted"}
    BY DEF IInv, Types
  <2> QED
    BY <2>2, <2>3, <2>4, Zenon DEF TypeOK
<1> QED
  BY <1>1, InvariantHolds, PTL

\* Application::start returns SUCCESS only when every part is up, and they stay up until
\* somebody sends SIGINT: main has passed all their calls, and a call that fails leaves the
\* rest of them out.
THEOREM StartedStaysStarted ==
    Spec => []StartedMeansStarted
<1>1. IInv => StartedMeansStarted
  BY DEF IInv, Up, StartedMeansStarted
<1> QED
  BY <1>1, InvariantHolds, PTL

\* However many SIGINTs are handled and by whom, Handler::stop and the destructors close a
\* channel only after Logic's threads that use it were joined.
THEOREM ChannelsStayOpen ==
    Spec => []ChannelsOutliveTheirUsers
<1>1. IInv => ChannelsOutliveTheirUsers
  BY DEF IInv, ChannelsOpen, ChannelsOutliveTheirUsers
<1> QED
  BY <1>1, InvariantHolds, PTL

\* The logger is started before the first part is initialized, and stopped after the last one
\* is deinitialized and every thread has ended.
THEOREM LogStaysOpen ==
    Spec => []LogIsOpen
<1>1. IInv => LogIsOpen
  BY DEF IInv, LogOpen, Silent, LogIsOpen
<1> QED
  BY <1>1, InvariantHolds, PTL

\* With one SIGINT at most, no order of the threads' steps aborts a program that was
\* started; it exits with code 0 only when everything is down.
THEOREM TheEndIsExplained ==
    Spec => []EndsAreExplained
<1>1. IInv => EndsAreExplained
  BY DEF IInv
<1> QED
  BY <1>1, InvariantHolds, PTL

=============================================================================
