------------------------ MODULE MongodbStorageProofs ------------------------
(***************************************************************************)
(* MongodbStorage with one processor thread implements the contract of     *)
(* Storage; with any number of them no deal is counted twice, and the      *)
(* leaderboards count every deal that was stored before.                   *)
(***************************************************************************)
EXTENDS MongodbStorage, FiniteSetTheorems, SequenceTheorems, TLAPS

-----------------------------------------------------------------------------
(* Sums.  The fold adds the values in the order in which CHOOSE picks the  *)
(* elements; any order gives the same.                                     *)

Total(fun, S) == FoldFunctionOnSet(+, 0, fun, S)

First(s) == CHOOSE x \in s : TRUE

\* What the fold defines recursively
IsIter(fun, S, h) ==
    h = [s \in SUBSET S |-> IF s = {} THEN 0 ELSE fun[First(s)] + h[s \ {First(s)}]]

Iter(fun, S) == CHOOSE h : IsIter(fun, S, h)

\* The sum is what the recursion gives.
LEMMA TotalIsIter ==
    ASSUME NEW fun, NEW S
    PROVE  Total(fun, S) = Iter(fun, S)[S]
  BY DEF Total, FoldFunctionOnSet, MapThenFoldSet, Iter, IsIter, First

\* Among sets of subsets of a finite set there is a least one.
LEMMA LeastSubset ==
    ASSUME NEW S, IsFiniteSet(S), NEW T \in SUBSET SUBSET S, T # {}
    PROVE  \E s \in T : \A t \in T : t \subseteq s => t = s
<1>1. IsWellFoundedOn(StrictSubsetOrdering(S), SUBSET S)
  BY FS_StrictSubsetOrderingWellFounded, FS_FiniteSubsetsOfFinite
<1>2. PICK s \in T : \A t \in T : ~(<<t, s>> \in StrictSubsetOrdering(S))
  BY <1>1, WFMin
<1> QED
  BY <1>2 DEF StrictSubsetOrdering

LEMMA FirstIsElement ==
    ASSUME NEW s, s # {}
    PROVE  First(s) \in s
  BY DEF First

\* The recursion determines its values, and they depend on the values added only.
LEMMA IterIsUnique ==
    ASSUME NEW f, NEW g, NEW A, NEW B, NEW h, NEW k, IsIter(f, A, h), IsIter(g, B, k),
           NEW S, IsFiniteSet(S), S \subseteq A, S \subseteq B, \A x \in S : f[x] = g[x]
    PROVE  h[S] = k[S]
<1> DEFINE T == {s \in SUBSET S : h[s] # k[s]}
<1> SUFFICES ASSUME T # {} PROVE FALSE
  OBVIOUS
<1>1. PICK s \in T : \A t \in T : t \subseteq s => t = s
  <2>1. T \in SUBSET SUBSET S
    OBVIOUS
  <2> HIDE DEF T
  <2> QED
    BY <2>1, LeastSubset
<1>2. /\ h[s] = IF s = {} THEN 0 ELSE f[First(s)] + h[s \ {First(s)}]
      /\ k[s] = IF s = {} THEN 0 ELSE g[First(s)] + k[s \ {First(s)}]
  <2>1. s \in SUBSET A /\ s \in SUBSET B
    BY <1>1
  <2> QED
    BY <2>1 DEF IsIter
<1>3. CASE s = {}
  BY <1>1, <1>2, <1>3
<1>4. CASE s # {}
  <2>1. First(s) \in s /\ First(s) \in S
    BY <1>1, <1>4, FirstIsElement
  <2>2. s \ {First(s)} \notin T
    BY <1>1, <2>1
  <2>3. h[s \ {First(s)}] = k[s \ {First(s)}]
    BY <1>1, <2>2
  <2> QED
    BY <1>1, <1>2, <1>4, <2>1, <2>3
<1> QED
  BY <1>3, <1>4

LEMMA IterExists ==
    ASSUME NEW fun, NEW S, IsFiniteSet(S)
    PROVE  IsIter(fun, S, Iter(fun, S))
<1> DEFINE T == {s \in SUBSET S : ~ \E h : IsIter(fun, s, h)}
<1>1. ASSUME T # {} PROVE FALSE
  <2>1. PICK s \in T : \A t \in T : t \subseteq s => t = s
    <3>1. T \in SUBSET SUBSET S
      OBVIOUS
    <3> HIDE DEF T
    <3> QED
      BY <1>1, <3>1, LeastSubset
  <2> DEFINE Value(t) == Iter(fun, t)[t]
             h == [t \in SUBSET s |->
                     IF t = {} THEN 0 ELSE fun[First(t)] + Value(t \ {First(t)})]
  <2>2. ASSUME NEW t \in SUBSET s, t # s PROVE IsIter(fun, t, Iter(fun, t))
    <3>1. \E k : IsIter(fun, t, k)
      BY <2>1, <2>2
    <3> QED
      BY <3>1 DEF Iter
  <2>3. ASSUME NEW u \in SUBSET s, u # s PROVE h[u] = Value(u)
    <3>1. Value(u) = IF u = {} THEN 0 ELSE fun[First(u)] + Iter(fun, u)[u \ {First(u)}]
      BY <2>2, <2>3 DEF IsIter
    <3>2. CASE u = {}
      BY <3>1, <3>2
    <3>3. CASE u # {}
      <4> DEFINE v == u \ {First(u)}
      <4>1. First(u) \in u /\ v \in SUBSET s /\ v # s /\ v \subseteq u
        BY <3>3, FirstIsElement
      <4>2. IsFiniteSet(v)
        BY <2>1, <4>1, FS_Subset
      <4>3. IsIter(fun, v, Iter(fun, v)) /\ IsIter(fun, u, Iter(fun, u))
        BY <2>2, <2>3, <4>1
      <4>4. Iter(fun, u)[v] = Iter(fun, v)[v]
        BY <4>1, <4>2, <4>3, IterIsUnique
      <4> QED
        BY <3>1, <3>3, <4>4
    <3> QED
      BY <3>2, <3>3
  <2>4. IsIter(fun, s, h)
    <3>1. ASSUME NEW t \in SUBSET s, t # {}
          PROVE  h[t \ {First(t)}] = Value(t \ {First(t)})
      <4>1. First(t) \in t
        BY <3>1, FirstIsElement
      <4>2. t \ {First(t)} \in SUBSET s /\ t \ {First(t)} # s
        BY <4>1
      <4> QED
        BY <2>3, <4>2
    <3> HIDE DEF Value
    <3>2. h = [t \in SUBSET s |-> IF t = {} THEN 0 ELSE fun[First(t)] + h[t \ {First(t)}]]
      BY <3>1
    <3> QED
      BY <3>2 DEF IsIter
  <2> QED
    BY <2>1, <2>4
<1>2. S \notin T
  BY <1>1
<1>3. \E h : IsIter(fun, S, h)
  BY <1>2
<1> QED
  BY <1>3 DEF Iter

\* Nothing sums up to zero.
LEMMA TotalOfNone ==
    ASSUME NEW fun
    PROVE  Total(fun, {}) = 0
<1>1. IsIter(fun, {}, Iter(fun, {}))
  BY IterExists, FS_EmptySet
<1> QED
  BY <1>1, TotalIsIter DEF IsIter

\* Functions that agree have the same sum.
LEMMA TotalAgrees ==
    ASSUME NEW f, NEW g, NEW S, IsFiniteSet(S), \A x \in S : f[x] = g[x]
    PROVE  Total(f, S) = Total(g, S)
<1>1. IsIter(f, S, Iter(f, S)) /\ IsIter(g, S, Iter(g, S))
  BY IterExists
<1>2. Iter(f, S)[S] = Iter(g, S)[S]
  BY <1>1, IterIsUnique
<1> QED
  BY <1>2, TotalIsIter

LEMMA TotalOfFirst ==
    ASSUME NEW fun, NEW S, IsFiniteSet(S), S # {}
    PROVE  Total(fun, S) = fun[First(S)] + Total(fun, S \ {First(S)})
<1> DEFINE R == S \ {First(S)}
<1>1. IsFiniteSet(R) /\ R \subseteq S
  BY FS_Subset
<1>2. IsIter(fun, S, Iter(fun, S)) /\ IsIter(fun, R, Iter(fun, R))
  BY <1>1, IterExists
<1>3. Iter(fun, S)[R] = Iter(fun, R)[R]
  BY <1>1, <1>2, IterIsUnique
<1>4. Iter(fun, S)[S] = fun[First(S)] + Iter(fun, S)[R]
  BY <1>2 DEF IsIter
<1> QED
  BY <1>3, <1>4, TotalIsIter

\* A sum of integers is one.
LEMMA TotalIsInteger ==
    ASSUME NEW fun, NEW S, IsFiniteSet(S), \A x \in S : fun[x] \in Int
    PROVE  Total(fun, S) \in Int
<1> DEFINE T == {s \in SUBSET S : Total(fun, s) \notin Int}
<1> SUFFICES ASSUME T # {} PROVE FALSE
  OBVIOUS
<1>1. PICK s \in T : \A t \in T : t \subseteq s => t = s
  <2>1. T \in SUBSET SUBSET S
    OBVIOUS
  <2> HIDE DEF T
  <2> QED
    BY <2>1, LeastSubset
<1>2. s # {}
  <2>1. Total(fun, {}) \in Int
    BY TotalOfNone
  <2> QED
    BY <1>1, <2>1
<1>3. First(s) \in s /\ s \ {First(s)} \in SUBSET S
  BY <1>1, <1>2, FirstIsElement
<1>4. Total(fun, s \ {First(s)}) \in Int
  BY <1>1, <1>3
<1>5. Total(fun, s) = fun[First(s)] + Total(fun, s \ {First(s)})
  BY <1>1, <1>2, FS_Subset, TotalOfFirst
<1> QED
  BY <1>1, <1>3, <1>4, <1>5

\* Any element can be added last.
LEMMA TotalOfOne ==
    ASSUME NEW fun, NEW S, IsFiniteSet(S), \A x \in S : fun[x] \in Int, NEW x \in S
    PROVE  Total(fun, S) = fun[x] + Total(fun, S \ {x})
<1> DEFINE T == {s \in SUBSET S : \E y \in s : Total(fun, s) # fun[y] + Total(fun, s \ {y})}
<1> SUFFICES ASSUME T # {} PROVE FALSE
  OBVIOUS
<1>1. PICK s \in T : \A t \in T : t \subseteq s => t = s
  <2>1. T \in SUBSET SUBSET S
    OBVIOUS
  <2> HIDE DEF T
  <2> QED
    BY <2>1, LeastSubset
<1>2. PICK y \in s : Total(fun, s) # fun[y] + Total(fun, s \ {y})
  BY <1>1
<1> DEFINE p == First(s)
<1>3. p \in s /\ s \in SUBSET S /\ IsFiniteSet(s)
  BY <1>1, <1>2, FirstIsElement, FS_Subset
<1>4. Total(fun, s) = fun[p] + Total(fun, s \ {p})
  BY <1>3, TotalOfFirst
<1> HIDE DEF p
<1>5. p # y
  BY <1>2, <1>4
<1>6. s \ {p} \notin T /\ s \ {y} \notin T
  BY <1>1, <1>2, <1>3
<1>7. Total(fun, s \ {p}) = fun[y] + Total(fun, (s \ {p}) \ {y})
  BY <1>2, <1>3, <1>5, <1>6
<1>8. Total(fun, s \ {y}) = fun[p] + Total(fun, (s \ {y}) \ {p})
  BY <1>2, <1>3, <1>5, <1>6
<1>9. (s \ {p}) \ {y} = (s \ {y}) \ {p}
  OBVIOUS
<1>10. Total(fun, (s \ {p}) \ {y}) \in Int
  <2>1. (s \ {p}) \ {y} \in SUBSET S /\ IsFiniteSet((s \ {p}) \ {y})
    BY <1>3, FS_Subset
  <2> QED
    BY <2>1, TotalIsInteger
<1>11. fun[p] \in Int /\ fun[y] \in Int
  BY <1>2, <1>3
<1>12. fun[p] + (fun[y] + Total(fun, (s \ {p}) \ {y})) = fun[y] + (fun[p] + Total(fun, (s \ {p}) \ {y}))
  BY <1>10, <1>11
<1> QED
  BY <1>2, <1>4, <1>7, <1>8, <1>9, <1>12

-----------------------------------------------------------------------------
(* Sums of sequences                                                       *)

\* A sequence sums up its elements.
LEMMA SumIsTotal ==
    ASSUME NEW seq
    PROVE  Sum(seq) = Total(seq, DOMAIN seq)
  BY DEF Sum, Total, FoldSeq, FoldFunction

LEMMA SumIsInteger ==
    ASSUME NEW seq \in Seq(Int)
    PROVE  Sum(seq) \in Int
<1>1. DOMAIN seq = 1..Len(seq) /\ Len(seq) \in Nat /\ \A i \in 1..Len(seq) : seq[i] \in Int
  BY ElementOfSeq
<1>2. IsFiniteSet(DOMAIN seq)
  BY <1>1, FS_Interval
<1> QED
  BY <1>1, <1>2, SumIsTotal, TotalIsInteger

LEMMA SumOfNone == Sum(<<>>) = 0
<1>1. DOMAIN <<>> = {}
  OBVIOUS
<1> QED
  BY <1>1, SumIsTotal, TotalOfNone

\* What is appended is added to the sum.
LEMMA SumOfAppend ==
    ASSUME NEW seq \in Seq(Int), NEW x \in Int
    PROVE  Sum(Append(seq, x)) = Sum(seq) + x
<1> DEFINE longer == Append(seq, x)
           S == 1..Len(seq)
<1>1. PICK n \in Nat : n = Len(seq)
  OBVIOUS
<1>2. /\ DOMAIN seq = S /\ DOMAIN longer = 1..(n + 1)
      /\ \A i \in S : longer[i] = seq[i] /\ seq[i] \in Int
      /\ longer[n + 1] = x
  BY <1>1, AppendProperties, ElementOfSeq
<1>3. IsFiniteSet(S) /\ IsFiniteSet(1..(n + 1)) /\ n + 1 \in 1..(n + 1) /\ (1..(n + 1)) \ {n + 1} = S
  <2>1. IsFiniteSet(S) /\ IsFiniteSet(1..(n + 1))
    BY <1>1, FS_Interval
  <2> QED
    BY <1>1, <2>1
<1>4. \A i \in 1..(n + 1) : longer[i] \in Int
  BY <1>1, <1>2
<1> HIDE DEF longer, S
<1>5. Total(longer, 1..(n + 1)) = x + Total(longer, S)
  BY <1>2, <1>3, <1>4, TotalOfOne
<1>6. Total(longer, S) = Total(seq, S)
  BY <1>2, <1>3, TotalAgrees
<1>7. Sum(longer) = Total(longer, 1..(n + 1)) /\ Sum(seq) = Total(seq, S)
  BY <1>2, SumIsTotal
<1>8. Total(seq, S) \in Int
  BY <1>2, <1>3, TotalIsInteger
<1> QED
  BY <1>5, <1>6, <1>7, <1>8 DEF longer

\* What is added to one entry is added to the sum.
LEMMA SumOfIncrement ==
    ASSUME NEW seq \in Seq(Int), NEW i \in 1..Len(seq), NEW a \in Int
    PROVE  /\ Sum([seq EXCEPT ![i] = @ + a]) = Sum(seq) + a
           /\ [seq EXCEPT ![i] = @ + a] \in Seq(Int)
<1> DEFINE more == [seq EXCEPT ![i] = @ + a]
           S == 1..Len(seq)
           R == S \ {i}
<1>1. DOMAIN seq = S /\ DOMAIN more = S /\ more[i] = seq[i] + a
      /\ \A j \in S : seq[j] \in Int /\ more[j] \in Int /\ (j # i => more[j] = seq[j])
  BY ElementOfSeq
<1>2. IsFiniteSet(S) /\ IsFiniteSet(R) /\ i \in S
  <2>1. IsFiniteSet(S)
    BY FS_Interval
  <2> QED
    BY <2>1, FS_Subset
<1>3. more \in Seq(Int)
  BY <1>1, ExceptSeq
<1> HIDE DEF more, S
<1>4. Total(more, S) = more[i] + Total(more, R) /\ Total(seq, S) = seq[i] + Total(seq, R)
  <2>1. \A j \in S : seq[j] \in Int
    BY <1>1
  <2>2. \A j \in S : more[j] \in Int
    BY <1>1
  <2> HIDE DEF R
  <2>3. \A j \in S : Total(more, S) = more[j] + Total(more, S \ {j})
    BY <1>2, <2>2, TotalOfOne, ZenonT(60)
  <2>4. \A j \in S : Total(seq, S) = seq[j] + Total(seq, S \ {j})
    BY <1>2, <2>1, TotalOfOne, ZenonT(60)
  <2> QED
    BY <1>2, <2>3, <2>4 DEF R
<1>5. Total(more, R) = Total(seq, R) /\ Total(seq, R) \in Int
  BY <1>1, <1>2, TotalAgrees, TotalIsInteger
<1>6. Sum(more) = Total(more, S) /\ Sum(seq) = Total(seq, S)
  BY <1>1, SumIsTotal
<1>7. Sum(more) = Sum(seq) + a
  BY <1>1, <1>2, <1>4, <1>5, <1>6
<1> QED
  BY <1>3, <1>7 DEF more

-----------------------------------------------------------------------------
(* The inductive invariant                                                 *)

\* The parts of a type invariant the argument needs
ShapeInv ==
    /\ names \in [Users -> Names \cup {NoName}]
    /\ scores \in [Users -> [Times -> Seq(Int)]]
    /\ call \in [Clients -> Requests \cup {NoCall}]
    /\ pc \in [Clients -> {"idle", "request", "find", "inc", "add", "return"}]
    /\ result \in [Clients -> StorageResults \cup {"none"}]
    /\ accepted \in [Users -> [Times -> Int]]

\* A client is in a call iff it is not idle, has a result iff it is about to return it, and
\* makes the three requests of a deal for a deal.
CallInv ==
    \A c \in Clients :
        /\ pc[c] = "idle" <=> call[c] = NoCall
        /\ pc[c] = "return" <=> result[c] # "none"
        /\ pc[c] = "request" => call[c].op # "storeUserDeal"
        /\ pc[c] \in {"find", "inc", "add"} => call[c].op = "storeUserDeal"

\* Nobody is ever removed: who was found is still there, and so is who has a score.
KnownInv ==
    /\ \A c \in Clients : pc[c] \in {"inc", "add"} => Registered(call[c].id)
    /\ \A u \in Users, t \in Times : scores[u][t] # <<>> => Registered(u)

IInv == ShapeInv /\ CallInv /\ KnownInv

\* What a client that is in a call was called with
LEMMA CallType ==
    ASSUME ShapeInv, CallInv, NEW c \in Clients, pc[c] # "idle"
    PROVE  /\ call[c] \in AllRequests
           /\ call[c].id \in Users /\ call[c].name \in Names /\ call[c].time \in Times
           /\ call[c].amount \in Amounts /\ call[c].amount \in Int
<1>1. call[c] \in Requests
  BY DEF ShapeInv, CallInv
<1>2. call[c] \in AllRequests
  BY <1>1, RequestsAssumption
<1> QED
  BY <1>2, RequestsAssumption DEF AllRequests

\* At the start nothing is stored and nobody is in a call.
LEMMA InitIInv == Init => IInv
<1> SUFFICES ASSUME Init PROVE IInv
  OBVIOUS
<1>1. <<>> \in Seq(Int)
  OBVIOUS
<1> QED
  BY <1>1 DEF Init, IInv, ShapeInv, CallInv, KnownInv, NothingEarned

\* A call that ends: its result is there, and nothing else is told of it but the history.
LEMMA FinishStep ==
    ASSUME ShapeInv, CallInv, NEW c \in Clients, pc[c] # "idle",
           NEW expected \in StorageResults, Finish(c, expected)
    PROVE  /\ UNCHANGED <<call, calls, loopVars>>
           /\ pc' = [pc EXCEPT ![c] = "return"]
           /\ CallInv'
           /\ result' \in [Clients -> StorageResults \cup {"none"}]
           /\ accepted' \in [Users -> [Times -> Int]]
<1>1. PICK res \in {expected} \cup (IF Unreliable THEN {"DB_ERROR"} ELSE {}) :
        /\ result' = [result EXCEPT ![c] = res]
        /\ Accept(c, res)
        /\ Goto(c, "return")
        /\ UNCHANGED <<call, calls, loopVars>>
  BY DEF Finish
<1>2. res \in StorageResults /\ res # "none"
  BY DEF StorageResults, StorageErrors
<1>3. pc' = [pc EXCEPT ![c] = "return"] /\ result' \in [Clients -> StorageResults \cup {"none"}]
  BY <1>1, <1>2 DEF Goto, ShapeInv
<1>4. CallInv'
  BY <1>1, <1>2, <1>3 DEF CallInv, ShapeInv
<1>5. accepted' \in [Users -> [Times -> Int]]
  <2>1. call[c].id \in Users /\ call[c].time \in Times /\ call[c].amount \in Int
    BY CallType
  <2>2. CASE accepted' = accepted
    BY <2>2 DEF ShapeInv
  <2>3. CASE accepted' = [accepted EXCEPT ![call[c].id][call[c].time] = @ + call[c].amount]
    BY <2>1, <2>3 DEF ShapeInv
  <2> QED
    BY <1>1, <2>2, <2>3 DEF Accept
<1> QED
  BY <1>1, <1>3, <1>4, <1>5

\* What the requests of a deal do to what is stored
LEMMA EntriesType ==
    ASSUME ShapeInv, CallInv, NEW c \in Clients, pc[c] # "idle"
    PROVE  Entries(c) \in Seq(Int) /\ (Modifies(c) => 1 \in 1..Len(Entries(c)))
<1>1. Entries(c) \in Seq(Int)
  BY CallType, SMTT(60) DEF Entries, ShapeInv
<1> QED
  BY <1>1, EmptySeq DEF Modifies

\* Incrementing the first entry adds the amount to one sum.
LEMMA IncrementStores ==
    ASSUME ShapeInv, CallInv, NEW c \in Clients, pc[c] # "idle", Modifies(c),
           scores' = [scores EXCEPT ![call[c].id][call[c].time][1] = @ + call[c].amount]
    PROVE  /\ scores' \in [Users -> [Times -> Seq(Int)]]
           /\ \A u \in Users, t \in Times :
                Stored(u, t)' = IF u = call[c].id /\ t = call[c].time
                                  THEN Stored(u, t) + call[c].amount ELSE Stored(u, t)
           /\ \A u \in Users, t \in Times : scores'[u][t] # <<>> => scores[u][t] # <<>>
<1> DEFINE id == call[c].id
           time == call[c].time
           more == [Entries(c) EXCEPT ![1] = @ + call[c].amount]
<1>1. id \in Users /\ time \in Times /\ call[c].amount \in Int
  BY CallType
<1>2. Entries(c) \in Seq(Int) /\ 1 \in 1..Len(Entries(c)) /\ Entries(c) # <<>>
  BY EntriesType DEF Modifies
<1>3. Sum(more) = Sum(Entries(c)) + call[c].amount /\ more \in Seq(Int)
  BY <1>1, <1>2, SumOfIncrement
<1> DEFINE row == [scores[id] EXCEPT ![time] = more]
<1>4. scores' = [scores EXCEPT ![id] = row]
  BY <1>1 DEF Entries, ShapeInv
<1> HIDE DEF more
<1>5. row \in [Times -> Seq(Int)] /\ \A t \in Times : row[t] = IF t = time THEN more ELSE scores[id][t]
  BY <1>1, <1>3 DEF ShapeInv
<1> HIDE DEF row
<1>6. /\ scores' \in [Users -> [Times -> Seq(Int)]]
      /\ \A u \in Users : scores'[u] = IF u = id THEN row ELSE scores[u]
  BY <1>1, <1>4, <1>5, ZenonT(60) DEF ShapeInv
<1>7. \A u \in Users, t \in Times : scores'[u][t] = IF u = id /\ t = time THEN more ELSE scores[u][t]
  BY <1>5, <1>6, SMTT(60)
<1> QED
  BY <1>2, <1>3, <1>6, <1>7, ZenonT(60) DEF Stored, Entries

\* Appending an entry adds its amount to one sum.
LEMMA AddStores ==
    ASSUME ShapeInv, CallInv, NEW c \in Clients, pc[c] # "idle",
           scores' = [scores EXCEPT ![call[c].id][call[c].time] = Append(@, call[c].amount)]
    PROVE  /\ scores' \in [Users -> [Times -> Seq(Int)]]
           /\ \A u \in Users, t \in Times :
                Stored(u, t)' = IF u = call[c].id /\ t = call[c].time
                                  THEN Stored(u, t) + call[c].amount ELSE Stored(u, t)
           /\ \A u \in Users \ {call[c].id}, t \in Times : scores'[u][t] = scores[u][t]
<1> DEFINE id == call[c].id
           time == call[c].time
           more == Append(Entries(c), call[c].amount)
<1>1. id \in Users /\ time \in Times /\ call[c].amount \in Int
  BY CallType
<1>2. Entries(c) \in Seq(Int)
  BY EntriesType
<1>3. Sum(more) = Sum(Entries(c)) + call[c].amount /\ more \in Seq(Int)
  BY <1>1, <1>2, SumOfAppend
<1> DEFINE row == [scores[id] EXCEPT ![time] = more]
<1>4. scores' = [scores EXCEPT ![id] = row]
  BY <1>1 DEF Entries, ShapeInv
<1> HIDE DEF more
<1>5. row \in [Times -> Seq(Int)] /\ \A t \in Times : row[t] = IF t = time THEN more ELSE scores[id][t]
  BY <1>1, <1>3 DEF ShapeInv
<1> HIDE DEF row
<1>6. /\ scores' \in [Users -> [Times -> Seq(Int)]]
      /\ \A u \in Users : scores'[u] = IF u = id THEN row ELSE scores[u]
  BY <1>1, <1>4, <1>5 DEF ShapeInv
<1>7. \A u \in Users, t \in Times : scores'[u][t] = IF u = id /\ t = time THEN more ELSE scores[u][t]
  BY <1>5, <1>6
<1> QED
  BY <1>2, <1>3, <1>6, <1>7 DEF Stored, Entries

\* A request of a call that ends with it
LEMMA EndingStep ==
    ASSUME IInv, NEW c \in Clients, pc[c] # "idle", NEW expected \in StorageResults,
           Finish(c, expected),
           names' \in [Users -> Names \cup {NoName}],
           scores' \in [Users -> [Times -> Seq(Int)]],
           \A u \in Users : Registered(u) => names'[u] # NoName,
           \A u \in Users, t \in Times : scores'[u][t] # <<>> =>
              scores[u][t] # <<>> \/ (u = call[c].id /\ Registered(u))
    PROVE  IInv'
<1> USE DEF IInv
<1>1. /\ UNCHANGED call
      /\ pc' = [pc EXCEPT ![c] = "return"]
      /\ CallInv'
      /\ result' \in [Clients -> StorageResults \cup {"none"}]
      /\ accepted' \in [Users -> [Times -> Int]]
  BY FinishStep
<1>2. ShapeInv'
  BY <1>1 DEF ShapeInv
<1>3. ASSUME NEW d \in Clients, pc'[d] \in {"inc", "add"} PROVE names'[call[d].id] # NoName
  <2>1. pc[d] \in {"inc", "add"}
    BY <1>1, <1>3 DEF ShapeInv
  <2>2. call[d].id \in Users
    BY <2>1, CallType
  <2> QED
    BY <2>1, <2>2 DEF KnownInv
<1>4. KnownInv'
  BY <1>1, <1>3 DEF KnownInv, Registered
<1> QED
  BY <1>1, <1>2, <1>4

\* A request of a deal after which the call goes on
LEMMA GoingOnStep ==
    ASSUME IInv, NEW c \in Clients, pc[c] \in {"find", "inc"}, NEW l \in {"inc", "add"}, Goto(c, l),
           Registered(call[c].id), UNCHANGED <<names, scores, call, result, accepted>>
    PROVE  IInv'
<1> USE DEF IInv
<1>1. pc' = [pc EXCEPT ![c] = l]
  BY DEF Goto
<1>2. ShapeInv' /\ CallInv'
  BY <1>1 DEF ShapeInv, CallInv
<1>3. KnownInv'
  BY <1>1 DEF ShapeInv, KnownInv, Registered
<1> QED
  BY <1>2, <1>3

\* A request that ends a call and stores nothing
LEMMA QuietEndingStep ==
    ASSUME IInv, NEW c \in Clients, pc[c] # "idle", NEW expected \in StorageResults,
           Finish(c, expected), UNCHANGED <<names, scores>>
    PROVE  IInv'
<1>1. names' \in [Users -> Names \cup {NoName}] /\ scores' \in [Users -> [Times -> Seq(Int)]]
  BY DEF IInv, ShapeInv
<1>2. \A u \in Users : Registered(u) => names'[u] # NoName
  BY DEF Registered
<1>3. \A u \in Users, t \in Times : scores'[u][t] # <<>> =>
         scores[u][t] # <<>> \/ (u = call[c].id /\ Registered(u))
  OBVIOUS
<1> QED
  BY <1>1, <1>2, <1>3, EndingStep

\* Every request keeps the invariant.
LEMMA RequestStep ==
    ASSUME IInv, NEW c \in Clients, Request(c)
    PROVE  IInv'
<1> USE DEF IInv
<1>0. pc[c] # "idle" /\ {"SUCCESS", "DB_ERROR", "USER_NOT_FOUND", "USER_CONN_ERROR"} \subseteq StorageResults
  BY DEF Request, FindUser, IncrementScore, AddScore, RequestFails, StorageResults, StorageErrors
<1>1. /\ call[c] \in AllRequests
      /\ call[c].id \in Users /\ call[c].name \in Names /\ call[c].time \in Times
      /\ call[c].amount \in Int
  BY <1>0, CallType
<1>2. CASE StoreUser(c) \/ RenameUser(c) \/ StoreConnectedUser(c) \/ RemoveConnectedUser(c)
  <2>1. PICK res \in {"SUCCESS", "DB_ERROR", "USER_NOT_FOUND", "USER_CONN_ERROR"} :
          /\ Finish(c, res) /\ UNCHANGED scores
          /\ names' = names \/ names' = [names EXCEPT ![call[c].id] = call[c].name]
    BY <1>2 DEF StoreUser, RenameUser, StoreConnectedUser, RemoveConnectedUser
  <2>2. /\ names' \in [Users -> Names \cup {NoName}]
        /\ \A u \in Users : Registered(u) => names'[u] # NoName
    BY <1>1, <2>1, RequestsAssumption DEF ShapeInv, Registered
  <2>3. scores' \in [Users -> [Times -> Seq(Int)]]
        /\ \A u \in Users, t \in Times : scores'[u][t] # <<>> =>
             scores[u][t] # <<>> \/ (u = call[c].id /\ Registered(u))
    BY <2>1 DEF ShapeInv
  <2>4. res \in StorageResults
    BY <1>0
  <2> HIDE DEF IInv
  <2> QED
    BY <1>0, <2>1, <2>2, <2>3, <2>4, EndingStep
<1>3. CASE FindUser(c)
  <2>1. CASE Registered(call[c].id)
    BY <1>3, <2>1, GoingOnStep DEF FindUser, dataVars
  <2>2. CASE ~Registered(call[c].id)
    BY <1>0, <1>3, <2>2, QuietEndingStep DEF FindUser, dataVars
  <2> QED
    BY <2>1, <2>2
<1>4. CASE IncrementScore(c)
  <2>1. pc[c] = "inc" /\ Registered(call[c].id)
    BY <1>4, SMTT(60) DEF IncrementScore, KnownInv
  <2>2. CASE Modifies(c)
    <3>1. /\ Finish(c, "SUCCESS") /\ UNCHANGED names
          /\ scores' = [scores EXCEPT ![call[c].id][call[c].time][1] = @ + call[c].amount]
      BY <1>4, <2>2, SMTT(60) DEF IncrementScore, NextAfterInc
    <3>2. /\ scores' \in [Users -> [Times -> Seq(Int)]]
          /\ \A u \in Users, t \in Times : scores'[u][t] # <<>> => scores[u][t] # <<>>
      BY <1>0, <2>2, <3>1, IncrementStores, ZenonT(60)
    <3>3. names' \in [Users -> Names \cup {NoName}]
          /\ \A u \in Users : Registered(u) => names'[u] # NoName
      BY <3>1 DEF ShapeInv, Registered
    <3>4. \A u \in Users, t \in Times : scores'[u][t] # <<>> =>
             scores[u][t] # <<>> \/ (u = call[c].id /\ Registered(u))
      BY <3>2
    <3>5. "SUCCESS" \in StorageResults
      BY <1>0
    <3> HIDE DEF IInv
    <3> QED
      BY <1>0, <3>1, <3>2, <3>3, <3>4, <3>5, EndingStep, ZenonT(60)
  <2>3. CASE ~Modifies(c)
    BY <1>4, <2>1, <2>3, GoingOnStep DEF IncrementScore, NextAfterInc
  <2> QED
    BY <2>2, <2>3
<1>5. CASE AddScore(c)
  <2>1. pc[c] = "add" /\ Registered(call[c].id) /\ Finish(c, "SUCCESS") /\ UNCHANGED names
    BY <1>5 DEF AddScore, KnownInv
  <2>2. /\ scores' \in [Users -> [Times -> Seq(Int)]]
        /\ \A u \in Users \ {call[c].id}, t \in Times : scores'[u][t] = scores[u][t]
    <3>1. CASE scores' = scores
      BY <3>1 DEF ShapeInv
    <3>2. CASE scores' = [scores EXCEPT ![call[c].id][call[c].time] = Append(@, call[c].amount)]
      BY <1>0, <3>2, AddStores
    <3> QED
      BY <1>5, <3>1, <3>2, SMTT(60) DEF AddScore
  <2>3. names' \in [Users -> Names \cup {NoName}]
        /\ \A u \in Users : Registered(u) => names'[u] # NoName
    BY <2>1 DEF ShapeInv, Registered
  <2>4. \A u \in Users, t \in Times : scores'[u][t] # <<>> =>
           scores[u][t] # <<>> \/ (u = call[c].id /\ Registered(u))
    BY <2>1, <2>2
  <2>5. "SUCCESS" \in StorageResults
    BY <1>0
  <2> HIDE DEF IInv
  <2> QED
    BY <1>0, <2>1, <2>2, <2>3, <2>4, <2>5, EndingStep
<1>6. CASE RequestFails(c)
  BY <1>0, <1>6, QuietEndingStep DEF RequestFails, dataVars
<1> QED
  BY <1>2, <1>3, <1>4, <1>5, <1>6, SMTT(60) DEF Request

\* A call begins.
LEMMA InvokeStep ==
    ASSUME IInv, NEW c \in Clients, Invoke(c)
    PROVE  IInv'
<1> USE DEF IInv
<1>1. PICK r \in Requests :
        /\ call' = [call EXCEPT ![c] = r]
        /\ pc' = [pc EXCEPT ![c] = IF r.op = "storeUserDeal" THEN "find" ELSE "request"]
        /\ pc[c] = "idle" /\ UNCHANGED <<names, scores, result, accepted>>
  BY DEF Invoke, Goto, dataVars
<1>2. r # NoCall
  BY <1>1, RequestsAssumption
<1>3. ShapeInv' /\ CallInv'
  BY <1>1, <1>2 DEF ShapeInv, CallInv
<1>4. KnownInv'
  BY <1>1 DEF ShapeInv, KnownInv, Registered
<1> QED
  BY <1>3, <1>4

\* A call returns.
LEMMA ReturnStep ==
    ASSUME IInv, NEW c \in Clients, Return(c)
    PROVE  IInv'
<1> USE DEF IInv
<1>1. /\ call' = [call EXCEPT ![c] = NoCall]
      /\ result' = [result EXCEPT ![c] = "none"]
      /\ pc' = [pc EXCEPT ![c] = "idle"]
      /\ UNCHANGED <<names, scores, accepted>>
  BY DEF Return, Goto, dataVars
<1>2. ShapeInv' /\ CallInv'
  BY <1>1 DEF ShapeInv, CallInv
<1>3. KnownInv'
  BY <1>1 DEF ShapeInv, KnownInv, Registered
<1> QED
  BY <1>2, <1>3

\* getLeaderboards only reads.
LEMMA ReadingStep ==
    ASSUME GetLeaderboards
    PROVE  UNCHANGED <<dataVars, callVars>>
  BY DEF GetLeaderboards, CallGetLeaderboards, GetConnectedUsers, ReadUser, TitleLeaderboard,
         EndAggregate, ReturnLeaderboards, AggregateFails, Forget

\* The invariant is inductive.
LEMMA NextIInv == IInv /\ [Next]_vars => IInv'
<1> SUFFICES ASSUME IInv, [Next]_vars PROVE IInv'
  OBVIOUS
<1>1. ASSUME NEW c \in Clients, Client(c) PROVE IInv'
  BY <1>1, InvokeStep, RequestStep, ReturnStep DEF Client
<1>2. ASSUME UNCHANGED <<dataVars, callVars>> PROVE IInv'
  BY <1>2 DEF dataVars, callVars, IInv, ShapeInv, CallInv, KnownInv, Registered
<1>3. CASE GetLeaderboards
  BY <1>2, <1>3, ReadingStep
<1>4. CASE UNCHANGED vars
  BY <1>2, <1>4 DEF vars
<1> QED
  BY <1>1, <1>3, <1>4 DEF Next

\* Every reachable state satisfies the invariant.
THEOREM InvariantHolds == Spec => []IInv
  BY InitIInv, NextIInv, PTL DEF Spec

-----------------------------------------------------------------------------
(* What is stored against what was answered                                *)

\* What is stored and what was answered are integers.
LEMMA StoredType ==
    ASSUME ShapeInv
    PROVE  \A u \in Users, t \in Times : Stored(u, t) \in Int /\ accepted[u][t] \in Int
<1>1. \A u \in Users, t \in Times : scores[u][t] \in Seq(Int) /\ accepted[u][t] \in Int
  BY DEF ShapeInv
<1> QED
  BY <1>1, SumIsInteger DEF Stored

\* Without a lost answer the client is told what the request did, and a deal that is
\* answered with SUCCESS is noted.
LEMMA ReliableFinish ==
    ASSUME ~Unreliable, ShapeInv, CallInv, NEW c \in Clients, pc[c] # "idle",
           NEW expected, Finish(c, expected)
    PROVE  \A u \in Users, t \in Times :
             accepted'[u][t] = IF /\ call[c].op = "storeUserDeal" /\ expected = "SUCCESS"
                                  /\ u = call[c].id /\ t = call[c].time
                               THEN accepted[u][t] + call[c].amount ELSE accepted[u][t]
<1>1. Accept(c, expected)
  BY DEF Finish
<1>2. call[c].id \in Users /\ call[c].time \in Times
  BY CallType
<1>3. CASE accepted' = accepted /\ ~(call[c].op = "storeUserDeal" /\ expected = "SUCCESS")
  BY <1>3
<1>4. CASE /\ accepted' = [accepted EXCEPT ![call[c].id][call[c].time] = @ + call[c].amount]
           /\ call[c].op = "storeUserDeal" /\ expected = "SUCCESS"
  BY <1>2, <1>4, SMTT(60) DEF ShapeInv
<1> QED
  BY <1>1, <1>3, <1>4 DEF Accept

\* A deal is stored as often as it is answered with SUCCESS, or not at all.
LEMMA RequestCounts ==
    ASSUME ~Unreliable, Amounts \subseteq Nat, IInv, NeverCountedTwice, NEW c \in Clients, Request(c)
    PROVE  NeverCountedTwice'
<1> USE DEF IInv
<1> DEFINE Added(u, t) == u = call[c].id /\ t = call[c].time
<1>1. pc[c] # "idle"
  BY DEF Request, FindUser, IncrementScore, AddScore, RequestFails
<1>2. /\ call[c].amount \in Nat
      /\ \A u \in Users, t \in Times : Stored(u, t) \in Int /\ accepted[u][t] \in Int
  BY <1>1, CallType, StoredType
<1>3. \A u \in Users, t \in Times : Stored(u, t) <= accepted[u][t]
  BY DEF NeverCountedTwice
<1>4. ASSUME NEW expected, Finish(c, expected), UNCHANGED scores
      PROVE  NeverCountedTwice'
  <2>1. \A u \in Users, t \in Times : Stored(u, t)' = Stored(u, t)
    BY <1>4 DEF Stored
  <2>2. \A u \in Users, t \in Times :
           accepted'[u][t] = accepted[u][t] + call[c].amount \/ accepted'[u][t] = accepted[u][t]
    BY <1>1, <1>4, ReliableFinish
  <2>3. \A u \in Users, t \in Times : Stored(u, t)' <= accepted'[u][t]
    BY <1>2, <1>3, <2>1, <2>2
  <2> QED
    BY <2>3 DEF NeverCountedTwice
<1>5. ASSUME Finish(c, "SUCCESS"), call[c].op = "storeUserDeal",
             \A u \in Users, t \in Times :
                Stored(u, t)' = IF Added(u, t) THEN Stored(u, t) + call[c].amount ELSE Stored(u, t)
      PROVE  NeverCountedTwice'
  <2>1. \A u \in Users, t \in Times :
           accepted'[u][t] = IF Added(u, t) THEN accepted[u][t] + call[c].amount ELSE accepted[u][t]
    BY <1>1, <1>5, ReliableFinish
  <2>2. \A u \in Users, t \in Times : Stored(u, t)' <= accepted'[u][t]
    BY <1>2, <1>3, <1>5, <2>1
  <2> QED
    BY <2>2 DEF NeverCountedTwice
<1> HIDE DEF Added
<1>6. ASSUME UNCHANGED <<scores, accepted>> PROVE NeverCountedTwice'
  BY <1>6 DEF NeverCountedTwice, Stored
<1>7. CASE StoreUser(c) \/ RenameUser(c) \/ StoreConnectedUser(c) \/ RemoveConnectedUser(c)
  BY <1>4, <1>7 DEF StoreUser, RenameUser, StoreConnectedUser, RemoveConnectedUser
<1>8. CASE FindUser(c)
  BY <1>4, <1>6, <1>8 DEF FindUser, dataVars
<1>9. CASE IncrementScore(c)
  <2>1. call[c].op = "storeUserDeal"
    BY <1>9, SMTT(60) DEF IncrementScore, CallInv
  <2>2. CASE Modifies(c)
    <3>1. Finish(c, "SUCCESS")
      BY <1>9, <2>2 DEF IncrementScore, NextAfterInc
    <3>2. scores' = [scores EXCEPT ![call[c].id][call[c].time][1] = @ + call[c].amount]
      BY <1>9, <2>2 DEF IncrementScore
    <3> QED
      BY <1>1, <1>5, <2>1, <2>2, <3>1, <3>2, IncrementStores, ZenonT(60) DEF Added
  <2>3. CASE ~Modifies(c)
    BY <1>6, <1>9, <2>3, SMTT(60) DEF IncrementScore, NextAfterInc
  <2> QED
    BY <2>2, <2>3
<1>10. CASE AddScore(c)
  <2>1. Finish(c, "SUCCESS") /\ call[c].op = "storeUserDeal"
    BY <1>10 DEF AddScore, CallInv
  <2>2. CASE scores' = scores
    BY <1>4, <2>1, <2>2, SMTT(60)
  <2>3. CASE scores' = [scores EXCEPT ![call[c].id][call[c].time] = Append(@, call[c].amount)]
    BY <1>1, <1>5, <2>1, <2>3, AddStores DEF Added
  <2> QED
    BY <1>10, <2>2, <2>3 DEF AddScore
<1> QED
  BY <1>7, <1>8, <1>9, <1>10 DEF Request, RequestFails

\* No step counts a deal twice.
LEMMA NextCounts ==
    ASSUME ~Unreliable, Amounts \subseteq Nat, IInv, NeverCountedTwice, [Next]_vars
    PROVE  NeverCountedTwice'
<1>1. ASSUME UNCHANGED <<scores, accepted>> PROVE NeverCountedTwice'
  BY <1>1 DEF NeverCountedTwice, Stored
<1>2. ASSUME NEW c \in Clients, Client(c) PROVE NeverCountedTwice'
  <2>1. CASE Invoke(c)
    BY <1>1, <2>1 DEF Invoke, dataVars
  <2>2. CASE Return(c)
    BY <1>1, <2>2 DEF Return, dataVars
  <2> QED
    BY <1>2, <2>1, <2>2, RequestCounts DEF Client
<1>3. CASE GetLeaderboards
  BY <1>1, <1>3, ReadingStep DEF dataVars, callVars
<1>4. CASE UNCHANGED vars
  BY <1>1, <1>4 DEF vars, dataVars, callVars
<1> QED
  BY <1>2, <1>3, <1>4 DEF Next

\* Whatever any number of processor threads interleave, no deal is counted twice: with a
\* reliable database and deals that are not negative, the entries of a user and time never
\* add up to more than the deals answered with SUCCESS.
THEOREM CountedOnce ==
    ASSUME ~Unreliable, Amounts \subseteq Nat
    PROVE  Spec => []NeverCountedTwice
<1>1. Init => NeverCountedTwice
  BY SumOfNone DEF Init, NeverCountedTwice, Stored, NothingEarned
<1>2. IInv /\ NeverCountedTwice /\ [Next]_vars => NeverCountedTwice'
  BY NextCounts
<1> QED
  BY <1>1, <1>2, InvariantHolds, PTL DEF Spec

-----------------------------------------------------------------------------
(* One processor thread: the requests of a deal amount to one addition     *)

OneClient == \A c \in Clients, d \in Clients : c = d

\* The entry is added only if there was nothing to increase, and nobody else adds meanwhile.
AddInv == \A c \in Clients : pc[c] = "add" => ~Modifies(c)

\* AddInv is inductive if there is one client.
LEMMA NextAdd ==
    ASSUME OneClient, IInv, AddInv, [Next]_vars
    PROVE  AddInv'
<1> USE DEF IInv
<1>1. ASSUME NEW c \in Clients, UNCHANGED <<scores, call>>, pc'[c] = "add", pc[c] = "add"
      PROVE  ~Modifies(c)'
  BY <1>1 DEF AddInv, Modifies, Entries
<1>2. ASSUME NEW c \in Clients, Client(c), pc'[c] = "add" PROVE ~Modifies(c)'
  <2>1. CASE Request(c)
    <3>1. ASSUME NEW expected, Finish(c, expected) PROVE FALSE
      BY <1>2, <3>1 DEF Finish, Goto, ShapeInv
    <3>2. CASE IncrementScore(c)
      <4>1. ~Modifies(c) /\ UNCHANGED <<scores, call>>
        BY <3>1, <3>2 DEF IncrementScore, NextAfterInc
      <4> QED
        BY <4>1 DEF Modifies, Entries
    <3>3. CASE FindUser(c)
      BY <1>2, <3>1, <3>3 DEF FindUser, Goto, ShapeInv
    <3> QED
      BY <2>1, <3>1, <3>2, <3>3 DEF Request, AddScore, RequestFails, StoreUser, RenameUser,
           StoreConnectedUser, RemoveConnectedUser
  <2>2. CASE Invoke(c) \/ Return(c)
    BY <1>2, <2>2 DEF Invoke, Return, Goto, ShapeInv
  <2> QED
    BY <1>2, <2>1, <2>2 DEF Client
<1>3. ASSUME NEW c \in Clients, Client(c) PROVE AddInv'
  BY <1>2, <1>3 DEF OneClient, AddInv
<1>4. ASSUME UNCHANGED <<scores, call, pc>> PROVE AddInv'
  BY <1>4 DEF AddInv, Modifies, Entries
<1>5. CASE GetLeaderboards
  BY <1>4, <1>5, ReadingStep DEF dataVars, callVars
<1>6. CASE UNCHANGED vars
  BY <1>4, <1>6 DEF vars, dataVars, callVars
<1> QED
  BY <1>3, <1>5, <1>6 DEF Next

\* The ending of a call is the answer of the contract.
LEMMA FinishAnswers ==
    ASSUME IInv, NEW c \in Clients, pc[c] \in {"request", "find", "inc", "add"},
           NEW expected, Finish(c, expected)
    PROVE  \E res \in {expected} \cup (IF Unreliable THEN {"DB_ERROR"} ELSE {}) :
              Contract!Answer(c, AnswerOf(res))
<1> DEFINE reply == [d \in Clients |-> AnswerOf(result[d])]
<1> USE DEF IInv
<1>1. PICK res \in {expected} \cup (IF Unreliable THEN {"DB_ERROR"} ELSE {}) :
        result' = [result EXCEPT ![c] = res] /\ UNCHANGED call
  BY DEF Finish
<1>2. call[c] # NoCall /\ result[c] = "none"
  BY DEF CallInv
<1>3. reply[c] = "none"
  BY <1>2 DEF AnswerOf, StorageErrors
<1>4. reply' = [reply EXCEPT ![c] = AnswerOf(res)]
  BY <1>1 DEF ShapeInv
<1>5. Contract!Answer(c, AnswerOf(res))
  BY <1>1, <1>2, <1>3, <1>4 DEF Contract!Answer
<1> QED
  BY <1>5

\* What the contract calls the results
LEMMA AnswersAre ==
    AnswerOf("SUCCESS") = "SUCCESS" /\ \A e \in StorageErrors : AnswerOf(e) = "ERROR"
  BY DEF AnswerOf, StorageErrors

\* A call that ends with SUCCESS or loses it is a step of the contract.
LEMMA Succeeds ==
    ASSUME IInv, NEW c \in Clients, pc[c] \in {"request", "find", "inc", "add"},
           Finish(c, "SUCCESS"), Contract!Effect(call[c])
    PROVE  Contract!Next
<1>1. PICK res \in {"SUCCESS"} \cup (IF Unreliable THEN {"DB_ERROR"} ELSE {}) :
        Contract!Answer(c, AnswerOf(res))
  BY FinishAnswers
<1>2. CASE res = "SUCCESS"
  BY <1>1, <1>2, AnswersAre DEF Contract!Succeed, Contract!Next
<1>3. CASE Unreliable /\ res = "DB_ERROR"
  <2>1. AnswerOf(res) = "ERROR"
    BY <1>3, AnswersAre DEF StorageErrors
  <2> QED
    BY <1>1, <1>3, <2>1 DEF Contract!LoseAnswer, Contract!Next
<1> QED
  BY <1>2, <1>3

\* So is a call that is refused.
LEMMA Refuses ==
    ASSUME IInv, NEW c \in Clients, pc[c] \in {"request", "find", "inc", "add"},
           NEW expected \in StorageErrors, Finish(c, expected),
           Contract!Futile(call[c]) \/ Unreliable, UNCHANGED dataVars
    PROVE  Contract!Next
<1>1. PICK res \in {expected} \cup (IF Unreliable THEN {"DB_ERROR"} ELSE {}) :
        Contract!Answer(c, AnswerOf(res))
  BY FinishAnswers
<1>2. AnswerOf(res) = "ERROR"
  BY AnswersAre DEF StorageErrors
<1>3. UNCHANGED Contract!dataVars
  BY DEF Contract!dataVars, dataVars, Stored
<1> QED
  BY <1>1, <1>2, <1>3 DEF Contract!Refuse, Contract!Next

\* An addition to what is stored of one user and time is the effect of the deal.
LEMMA DealTakesEffect ==
    ASSUME IInv, NEW c \in Clients, pc[c] \in {"inc", "add"}, Finish(c, "SUCCESS"),
           UNCHANGED <<names, connected>>,
           \A u \in Users, t \in Times :
              Stored(u, t)' = IF u = call[c].id /\ t = call[c].time
                                THEN Stored(u, t) + call[c].amount ELSE Stored(u, t)
    PROVE  Contract!Next
<1> DEFINE earned == [u \in Users |-> [t \in Times |-> Stored(u, t)]]
<1> USE DEF IInv
<1>1. call[c].id \in Users /\ call[c].time \in Times
  BY CallType
<1>2. call[c].op = "storeUserDeal" /\ Registered(call[c].id)
  BY DEF CallInv, KnownInv
<1>3. earned' = [earned EXCEPT ![call[c].id][call[c].time] = @ + call[c].amount]
  BY <1>1
<1>4. Contract!Effect(call[c])
  BY <1>2, <1>3 DEF Contract!Effect, Contract!Registered, Registered
<1> QED
  BY <1>4, Succeeds

\* The last request of a call is where it takes effect; the others stutter.
LEMMA RequestImplements ==
    ASSUME IInv, AddInv, NEW c \in Clients, Request(c)
    PROVE  [Contract!Next]_(Contract!vars)
<1> USE DEF IInv
<1>0. /\ pc[c] \in {"request", "find", "inc", "add"}
      /\ {"DB_ERROR", "USER_NOT_FOUND", "USER_CONN_ERROR"} \subseteq StorageErrors
  BY DEF Request, FindUser, IncrementScore, AddScore, RequestFails, StorageErrors
<1>1. ASSUME scores' = scores
      PROVE  UNCHANGED [u \in Users |-> [t \in Times |-> Stored(u, t)]]
  BY <1>1 DEF Stored
<1>2. ASSUME UNCHANGED <<dataVars, call, result>> PROVE UNCHANGED Contract!vars
  BY <1>1, <1>2 DEF Contract!vars, Contract!dataVars, dataVars
<1> USE DEF Contract!Effect, Contract!Futile, Contract!Registered, Registered, dataVars
<1>3. CASE StoreUser(c)
  BY <1>0, <1>1, <1>3, Succeeds, Refuses DEF StoreUser
<1>4. CASE RenameUser(c)
  BY <1>0, <1>1, <1>4, Succeeds, Refuses DEF RenameUser
<1>5. CASE StoreConnectedUser(c)
  BY <1>0, <1>1, <1>5, Succeeds, Refuses DEF StoreConnectedUser
<1>6. CASE RemoveConnectedUser(c)
  BY <1>0, <1>1, <1>6, Succeeds, Refuses DEF RemoveConnectedUser
<1>7. CASE FindUser(c)
  <2>1. call[c].op = "storeUserDeal"
    BY <1>7 DEF FindUser, CallInv
  <2> QED
    BY <1>0, <1>2, <1>7, <2>1, Refuses DEF FindUser
<1>8. CASE IncrementScore(c)
  <2>1. CASE Modifies(c)
    <3>1. /\ pc[c] = "inc" /\ Finish(c, "SUCCESS") /\ UNCHANGED <<names, connected>>
          /\ scores' = [scores EXCEPT ![call[c].id][call[c].time][1] = @ + call[c].amount]
      BY <1>8, <2>1 DEF IncrementScore, NextAfterInc
    <3> QED
      BY <2>1, <3>1, IncrementStores, DealTakesEffect, ZenonT(60)
  <2>2. CASE ~Modifies(c)
    BY <1>2, <1>8, <2>2, SMTT(60) DEF IncrementScore, NextAfterInc
  <2> QED
    BY <2>1, <2>2, SMTT(60)
<1>9. CASE AddScore(c)
  <2>1. pc[c] = "add" /\ Finish(c, "SUCCESS") /\ UNCHANGED <<names, connected>> /\ ~Modifies(c)
    BY <1>9 DEF AddScore, AddInv
  <2>2. CASE call[c].amount \in ToSet(Entries(c))
    <3>1. Entries(c) # <<>>
      <4>1. SUFFICES ASSUME Entries(c) = <<>> PROVE FALSE
        OBVIOUS
      <4>2. DOMAIN Entries(c) = {}
        BY <4>1
      <4> QED
        BY <2>2, <4>2 DEF ToSet
    <3>2. call[c].amount = 0 /\ scores' = scores
      BY <1>9, <2>1, <2>2, <3>1 DEF AddScore, Modifies
    <3>3. \A u \in Users, t \in Times :
             Stored(u, t) \in Int /\ Stored(u, t)' = Stored(u, t)
      BY <3>2, StoredType DEF Stored
    <3>4. \A u \in Users, t \in Times :
             Stored(u, t)' = IF u = call[c].id /\ t = call[c].time
                               THEN Stored(u, t) + call[c].amount ELSE Stored(u, t)
      BY <3>2, <3>3, SMTT(60)
    <3> QED
      BY <2>1, <3>4, DealTakesEffect
  <2>3. CASE scores' = [scores EXCEPT ![call[c].id][call[c].time] = Append(@, call[c].amount)]
    BY <2>1, <2>3, AddStores, DealTakesEffect
  <2> QED
    BY <1>9, <2>2, <2>3 DEF AddScore
<1>10. CASE RequestFails(c)
  BY <1>0, <1>10, Refuses DEF RequestFails
<1> QED
  BY <1>3, <1>4, <1>5, <1>6, <1>7, <1>8, <1>9, <1>10, SMTT(60) DEF Request

\* Every step is a step of the contract or stutters.
LEMMA StepImplements == IInv /\ AddInv /\ [Next]_vars => [Contract!Next]_(Contract!vars)
<1> SUFFICES ASSUME IInv, AddInv, [Next]_vars PROVE [Contract!Next]_(Contract!vars)
  OBVIOUS
<1> DEFINE reply == [d \in Clients |-> AnswerOf(result[d])]
<1> USE DEF IInv
<1>1. ASSUME UNCHANGED <<dataVars, call, result>> PROVE UNCHANGED Contract!vars
  BY <1>1 DEF Contract!vars, Contract!dataVars, dataVars, Stored
<1>2. ASSUME NEW c \in Clients, Invoke(c) PROVE Contract!Next
  <2>1. UNCHANGED Contract!dataVars
    BY <1>2 DEF Invoke, Contract!dataVars, dataVars, Stored
  <2>2. Contract!Invoke(c)
    BY <1>2, <2>1 DEF Invoke, Contract!Invoke, CallInv
  <2> QED
    BY <2>2 DEF Contract!Next
<1>3. ASSUME NEW c \in Clients, Return(c) PROVE Contract!Next
  <2>1. UNCHANGED Contract!dataVars
    BY <1>3 DEF Return, Contract!dataVars, dataVars, Stored
  <2>2. reply[c] # "none"
    BY <1>3 DEF Return, CallInv, AnswerOf
  <2>3. reply' = [reply EXCEPT ![c] = "none"]
    BY <1>3 DEF Return, ShapeInv, AnswerOf, StorageErrors
  <2>4. Contract!Return(c)
    BY <1>3, <2>1, <2>2, <2>3 DEF Return, Contract!Return
  <2> QED
    BY <2>4 DEF Contract!Next
<1>4. CASE GetLeaderboards
  BY <1>1, <1>4, ReadingStep DEF callVars
<1>5. CASE UNCHANGED vars
  BY <1>1, <1>5 DEF vars, callVars
<1> QED
  BY <1>2, <1>3, <1>4, <1>5, RequestImplements DEF Next, Client

\* It begins where the contract begins.
LEMMA InitImplements == Init => Contract!Init
<1> SUFFICES ASSUME Init PROVE Contract!Init
  OBVIOUS
<1>1. [c \in Clients |-> AnswerOf(result[c])] = [c \in Clients |-> "none"]
  BY DEF Init, AnswerOf, StorageErrors
<1>2. [u \in Users |-> [t \in Times |-> Stored(u, t)]] = [u \in Users |-> [t \in Times |-> 0]]
  BY SumOfNone DEF Init, Stored
<1> QED
  BY <1>1, <1>2 DEF Init, Contract!Init

\* With one processor thread MongodbStorage implements db::Storage: the up to three requests
\* of a deal amount to one addition at the moment of the last, an error other than that of an
\* unreliable connection means that nothing was changed, and SUCCESS that it was.
THEOREM Implementation ==
    ASSUME OneClient
    PROVE  Spec => ImplementsStorage
<1>1. Init => AddInv
  BY DEF Init, AddInv
<1>2. IInv /\ AddInv /\ [Next]_vars => AddInv'
  BY NextAdd
<1> QED
  BY <1>1, <1>2, InitImplements, StepImplements, InvariantHolds, PTL
  DEF Spec, ImplementsStorage, Contract!Spec

-----------------------------------------------------------------------------
(* The leaderboards                                                        *)

\* A sum of natural numbers is one.
LEMMA TotalIsNatural ==
    ASSUME NEW fun, NEW S, IsFiniteSet(S), \A x \in S : fun[x] \in Nat
    PROVE  Total(fun, S) \in Nat
<1> DEFINE T == {s \in SUBSET S : Total(fun, s) \notin Nat}
<1> SUFFICES ASSUME T # {} PROVE FALSE
  OBVIOUS
<1>1. PICK s \in T : \A t \in T : t \subseteq s => t = s
  <2>1. T \in SUBSET SUBSET S
    OBVIOUS
  <2> HIDE DEF T
  <2> QED
    BY <2>1, LeastSubset
<1>2. s # {}
  <2>1. Total(fun, {}) \in Nat
    BY TotalOfNone
  <2> QED
    BY <1>1, <2>1
<1>3. First(s) \in s /\ s \ {First(s)} \in SUBSET S
  BY <1>1, <1>2, FirstIsElement
<1>4. Total(fun, s \ {First(s)}) \in Nat
  BY <1>1, <1>3
<1>5. Total(fun, s) = fun[First(s)] + Total(fun, s \ {First(s)})
  BY <1>1, <1>2, FS_Subset, TotalOfFirst
<1> QED
  BY <1>1, <1>3, <1>4, <1>5

\* What counts of a user is at least what is stored under any time that counts.
LEMMA WeeklyScoreCountsTimes ==
    ASSUME IsFiniteSet(Recent), NEW u \in Users, \A t \in Times : Stored(u, t) \in Nat,
           NEW time \in Recent
    PROVE  WeeklyScore(u) \in Nat /\ WeeklyScore(u) >= Stored(u, time)
<1> DEFINE fun == [t \in Times |-> Stored(u, t)]
           S == {t \in Times : Counted(t)}
<1>1. S = Recent /\ IsFiniteSet(S)
  BY MongodbAssumption DEF Counted
<1>2. WeeklyScore(u) = Total(fun, S)
  BY DEF WeeklyScore, Total
<1>3. fun[time] = Stored(u, time) /\ \A x \in S : fun[x] \in Nat
  BY <1>1
<1> HIDE DEF fun, S
<1>4. Total(fun, S) = fun[time] + Total(fun, S \ {time})
  BY <1>1, <1>3, TotalOfOne
<1>5. Total(fun, S \ {time}) \in Nat /\ Total(fun, S) \in Nat
  <2>1. IsFiniteSet(S \ {time})
    BY <1>1, FS_Subset
  <2> QED
    BY <1>1, <1>3, <2>1, TotalIsNatural
<1>6. fun[time] \in Nat
  BY <1>1, <1>3
<1> QED
  BY <1>2, <1>3, <1>4, <1>5, <1>6

\* What is stored only grows; what was there before the call is in the row of every user the
\* aggregation has read, and it reads all of them.
CountsBefore(u) ==
    \A t \in Recent : before[u][t] > 0 => u \in DOMAIN board /\ board[u].score >= before[u][t]

ReadInv ==
    /\ \A u \in Users, t \in Times : Stored(u, t) \in Nat
    /\ \A u \in Users, t \in Times : before[u][t] \in Nat
    /\ loopPc # "idle" => \A u \in Users, t \in Times : before[u][t] <= Stored(u, t)
    /\ loopPc \in {"aggregate", "titles"} => \A u \in Users \ unread : CountsBefore(u)
    /\ loopPc = "titles" => unread = {}

\* Where deals are not negative, a call only adds to what is stored.
LEMMA ClientStores ==
    ASSUME Amounts \subseteq Nat, IInv, NEW c \in Clients, Client(c)
    PROVE  /\ UNCHANGED loopVars
           /\ \A u \in Users, t \in Times :
                \/ Stored(u, t)' = Stored(u, t)
                \/ \E a \in Nat : Stored(u, t)' = Stored(u, t) + a
<1> USE DEF IInv
<1>1. ASSUME NEW expected, Finish(c, expected) PROVE UNCHANGED loopVars
  BY <1>1 DEF Finish
<1>2. ASSUME UNCHANGED scores PROVE \A u \in Users, t \in Times : Stored(u, t)' = Stored(u, t)
  BY <1>2 DEF Stored
<1>3. UNCHANGED loopVars
  <2>1. CASE Request(c)
    BY <1>1, <2>1 DEF Request, StoreUser, RenameUser, StoreConnectedUser, RemoveConnectedUser,
         FindUser, IncrementScore, AddScore, RequestFails
  <2> QED
    BY <2>1, SMTT(60) DEF Client, Invoke, Return
<1>4. CASE UNCHANGED scores
  BY <1>2, <1>3, <1>4, SMTT(60)
<1>5. CASE Modifies(c) /\ IncrementScore(c)
  <2>1. scores' = [scores EXCEPT ![call[c].id][call[c].time][1] = @ + call[c].amount]
    BY <1>5 DEF IncrementScore
  <2>2. pc[c] # "idle" /\ call[c].amount \in Nat
    BY <1>5, CallType DEF IncrementScore
  <2> QED
    BY <1>3, <1>5, <2>1, <2>2, IncrementStores, ZenonT(60)
<1>6. CASE AddScore(c)
  <2>1. pc[c] # "idle" /\ call[c].amount \in Nat
    BY <1>6, CallType DEF AddScore
  <2>2. CASE scores' = [scores EXCEPT ![call[c].id][call[c].time] = Append(@, call[c].amount)]
    <3>1. \A u \in Users, t \in Times :
             Stored(u, t)' = IF u = call[c].id /\ t = call[c].time
                               THEN Stored(u, t) + call[c].amount ELSE Stored(u, t)
      BY <2>1, <2>2, AddStores
    <3> QED
      BY <1>3, <2>1, <3>1
  <2> QED
    BY <1>4, <1>6, <2>2 DEF AddScore
<1> QED
  BY <1>4, <1>5, <1>6 DEF Client, Invoke, Return, Request, StoreUser, RenameUser,
       StoreConnectedUser, RemoveConnectedUser, FindUser, IncrementScore, RequestFails, dataVars

\* So a processor's step keeps what the aggregation has read at least at what it was.
LEMMA ClientReads ==
    ASSUME Amounts \subseteq Nat, IInv, ReadInv, NEW c \in Clients, Client(c)
    PROVE  ReadInv'
<1>1. /\ UNCHANGED <<loopPc, unread, board, before>>
      /\ \A u \in Users, t \in Times :
           \/ Stored(u, t)' = Stored(u, t)
           \/ \E a \in Nat : Stored(u, t)' = Stored(u, t) + a
  BY ClientStores DEF loopVars
<1>2. \A u \in Users, t \in Times : Stored(u, t) \in Nat /\ before[u][t] \in Nat
  BY DEF ReadInv
<1>3. \A u \in Users, t \in Times : Stored(u, t)' \in Nat /\ Stored(u, t)' >= Stored(u, t)
  BY <1>1, <1>2
<1>4. loopPc' # "idle" => \A u \in Users, t \in Times : before'[u][t] <= Stored(u, t)'
  <2>1. SUFFICES ASSUME loopPc # "idle", NEW u \in Users, NEW t \in Times
                 PROVE  before[u][t] <= Stored(u, t)'
    BY <1>1
  <2>2. before[u][t] <= Stored(u, t)
    BY <2>1 DEF ReadInv
  <2> QED
    BY <1>2, <1>3, <2>2
<1>5. \A u \in Users : CountsBefore(u)' <=> CountsBefore(u)
  BY <1>1 DEF CountsBefore
<1> QED
  BY <1>1, <1>2, <1>3, <1>4, <1>5 DEF ReadInv

\* A row of the aggregation counts what was stored before the call.
LEMMA ReadUserCounts ==
    ASSUME IsFiniteSet(Recent), IInv, ReadInv, NEW u \in Users, ReadUser(u)
    PROVE  CountsBefore(u)'
<1> USE DEF IInv
<1>1. SUFFICES ASSUME NEW t \in Recent, before[u][t] > 0
               PROVE  u \in DOMAIN board' /\ board'[u].score >= before[u][t]
  BY DEF CountsBefore, ReadUser
<1>2. t \in Times /\ loopPc = "aggregate"
  BY <1>1, MongodbAssumption DEF ReadUser
<1>3. before[u][t] \in Nat /\ Stored(u, t) \in Nat /\ before[u][t] <= Stored(u, t)
  BY <1>2 DEF ReadInv
<1>4. scores[u][t] # <<>>
  BY <1>1, <1>3, SumOfNone DEF Stored
<1>5. HasRow(u)
  BY <1>1, <1>2, <1>4 DEF HasRow, KnownInv, Counted
<1>6. board' = [v \in DOMAIN board \cup {u} |->
                  IF v = u THEN [name |-> names[u], score |-> WeeklyScore(u)] ELSE board[v]]
  BY <1>5 DEF ReadUser
<1>7. u \in DOMAIN board' /\ board'[u].score = WeeklyScore(u)
  BY <1>6
<1>8. WeeklyScore(u) \in Nat /\ WeeklyScore(u) >= Stored(u, t)
  BY <1>1, WeeklyScoreCountsTimes DEF ReadInv
<1> QED
  BY <1>3, <1>7, <1>8

\* The steps of getLeaderboards
LEMMA LoopReads ==
    ASSUME IsFiniteSet(Recent), IInv, ReadInv, GetLeaderboards
    PROVE  ReadInv'
<1>1. \A u \in Users, t \in Times :
         Stored(u, t)' = Stored(u, t) /\ Stored(u, t) \in Nat /\ before[u][t] \in Nat
  BY ReadingStep DEF dataVars, Stored, ReadInv
<1>2. CASE CallGetLeaderboards
  <2>1. \A u \in Users, t \in Times : before'[u][t] = Stored(u, t)
    BY <1>2 DEF CallGetLeaderboards
  <2>2. loopPc' = "connected"
    BY <1>2 DEF CallGetLeaderboards
  <2> QED
    BY <1>1, <2>1, <2>2 DEF ReadInv
<1>3. CASE GetConnectedUsers
  BY <1>1, <1>3 DEF GetConnectedUsers, ReadInv
<1>4. ASSUME NEW u \in Users, ReadUser(u) PROVE ReadInv'
  <2>1. CountsBefore(u)'
    BY <1>4, ReadUserCounts
  <2>2. ASSUME NEW v \in Users \ unread' PROVE CountsBefore(v)'
    <3>1. CASE v = u
      BY <2>1, <3>1
    <3>2. CASE v # u
      <4>1. CountsBefore(v)
        BY <1>4, <2>2, <3>2 DEF ReadUser, ReadInv
      <4>2. ASSUME v \in DOMAIN board PROVE v \in DOMAIN board' /\ board'[v] = board[v]
        BY <1>4, <3>2, <4>2 DEF ReadUser
      <4> QED
        BY <1>4, <4>1, <4>2 DEF ReadUser, CountsBefore
    <3> QED
      BY <3>1, <3>2
  <2>3. UNCHANGED <<before, loopPc>> /\ loopPc = "aggregate"
    BY <1>4 DEF ReadUser
  <2> QED
    BY <1>1, <2>2, <2>3 DEF ReadInv
<1>5. ASSUME NEW u \in Users, TitleLeaderboard(u) PROVE ReadInv'
  BY <1>1, <1>5 DEF TitleLeaderboard, ReadInv, CountsBefore
<1>6. CASE EndAggregate
  BY <1>1, <1>6 DEF EndAggregate, ReadInv, CountsBefore
<1>7. CASE ReturnLeaderboards \/ AggregateFails
  <2>1. loopPc' = "idle" /\ before' = NothingEarned
    BY <1>7 DEF ReturnLeaderboards, AggregateFails, Forget
  <2>2. \A u \in Users, t \in Times : before'[u][t] \in Nat
    BY <2>1 DEF NothingEarned
  <2> QED
    BY <1>1, <2>1, <2>2 DEF ReadInv
<1> QED
  BY <1>2, <1>3, <1>4, <1>5, <1>6, <1>7 DEF GetLeaderboards

\* The leaderboards count every deal that was stored before getLeaderboards was called,
\* although the aggregation reads the users one by one while the processors go on, and
\* although a deal is stored by several requests (deals are not negative).
THEOREM EarlierDealsAreCounted ==
    ASSUME Amounts \subseteq Nat, IsFiniteSet(Recent)
    PROVE  Spec => LeaderboardsCountEarlierDeals
<1>1. Init => ReadInv
  BY SumOfNone DEF Init, ReadInv, Stored, NothingEarned
<1>2. IInv /\ ReadInv /\ [Next]_vars => ReadInv'
  <2>1. ASSUME ReadInv, UNCHANGED vars PROVE ReadInv'
    BY <2>1 DEF vars, dataVars, loopVars, ReadInv, CountsBefore, Stored
  <2> QED
    BY <2>1, ClientReads, LoopReads DEF Next
<1>3. ReadInv /\ [Next]_vars =>
         [ReturnLeaderboards =>
            \A u \in Users, t \in Recent :
               before[u][t] > 0 => u \in DOMAIN board /\ board[u].score >= before[u][t]]_vars
  BY DEF ReturnLeaderboards, ReadInv, CountsBefore
<1> QED
  BY <1>1, <1>2, <1>3, InvariantHolds, PTL DEF Spec, LeaderboardsCountEarlierDeals

=============================================================================
