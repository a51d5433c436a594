-------------------------- MODULE LeaderboardsProofs --------------------------
(***************************************************************************)
(* The walk of getLeaderboards gives every connected user the rows around  *)
(* it in the ranking, for any users, scores and parameters.                *)
(***************************************************************************)
EXTENDS Leaderboards, FiniteSetTheorems, SequenceTheorems, FunctionTheorems, TLAPS

-----------------------------------------------------------------------------
(* Facts about sets and sequences                                          *)

\* A set of positions that is not empty has a largest one, and Max is it.
LEMMA MaxIsElement ==
    ASSUME NEW n \in Nat, NEW T, T \subseteq 1..n, T # {}
    PROVE  Max(T) \in T /\ \A x \in T : Max(T) >= x
<1> DEFINE Less == {ss \in Nat \X Nat : ss[1] < ss[2]}
           U == {m \in Nat : \A x \in T : x <= m}
<1>1. IsWellFoundedOn(Less, Nat)
  BY NatLessThanWellFounded DEF OpToRel
<1>2. U \subseteq Nat /\ n \in U
  OBVIOUS
<1>3. PICK m \in U : \A k \in U : ~ (<<k, m>> \in Less)
  <2> HIDE DEF Less, U
  <2> QED
    BY <1>1, <1>2, WFMin
<1>4. m \in Nat /\ \A x \in T : x \in Nat /\ x >= 1 /\ x <= m
  OBVIOUS
<1>5. m \in T
  <2>1. SUFFICES ASSUME m \notin T PROVE FALSE
    OBVIOUS
  <2>2. \A x \in T : x <= m - 1
    BY <1>4, <2>1
  <2>3. m - 1 \in U
    <3>1. PICK x \in T : TRUE
      OBVIOUS
    <3>2. m - 1 \in Nat
      BY <1>4, <3>1
    <3> QED
      BY <2>2, <3>2
  <2>4. <<m - 1, m>> \in Less
    BY <1>4, <2>3
  <2> QED
    BY <1>3, <2>3, <2>4
<1>6. m \in T /\ \A y \in T : m >= y
  BY <1>4, <1>5
<1> QED
  BY <1>6 DEF Max

\* The smaller and the larger of two integers
LEMMA OfTwo ==
    ASSUME NEW a \in Int, NEW b \in Int
    PROVE  /\ Min({a, b}) = IF a <= b THEN a ELSE b
           /\ Max({a, b}) = IF a >= b THEN a ELSE b
<1>1. Min({a, b}) = IF a <= b THEN a ELSE b
  <2>1. PICK m \in {a, b} : m = IF a <= b THEN a ELSE b
    OBVIOUS
  <2>2. \A y \in {a, b} : m =< y
    BY <2>1
  <2>3. \A x \in {a, b} : (\A y \in {a, b} : x =< y) => x = m
    BY <2>1
  <2> QED
    BY <2>1, <2>2, <2>3 DEF Min
<1>2. Max({a, b}) = IF a >= b THEN a ELSE b
  <2>1. PICK m \in {a, b} : m = IF a >= b THEN a ELSE b
    OBVIOUS
  <2>2. \A y \in {a, b} : m >= y
    BY <2>1
  <2>3. \A x \in {a, b} : (\A y \in {a, b} : x >= y) => x = m
    BY <2>1
  <2> QED
    BY <2>1, <2>2, <2>3 DEF Max
<1> QED
  BY <1>1, <1>2

\* What InsertAt does, position by position.
LEMMA Inserted ==
    ASSUME NEW S, NEW seq \in Seq(S), NEW at \in 1..Len(seq) + 1, NEW e \in S
    PROVE  /\ InsertAt(seq, at, e) \in Seq(S)
           /\ Len(InsertAt(seq, at, e)) = Len(seq) + 1
           /\ \A i \in 1..Len(seq) + 1 :
                InsertAt(seq, at, e)[i] = IF i < at THEN seq[i]
                                          ELSE IF i = at THEN e ELSE seq[i - 1]
<1> DEFINE head == SubSeq(seq, 1, at - 1)
           tail == SubSeq(seq, at, Len(seq))
<1>1. PICK n \in Nat : n = Len(seq)
  BY LenProperties
<1>2. head \in Seq(S) /\ Len(head) = at - 1 /\ \A i \in 1..at - 1 : head[i] = seq[i]
  <2>1. \A i \in 1..at - 1 : seq[i] \in S
    BY <1>1, ElementOfSeq
  <2> QED
    BY <1>1, <2>1, SubSeqProperties
<1>3. /\ tail \in Seq(S) /\ Len(tail) = (n + 1) - at
      /\ \A i \in 1..(n + 1) - at : tail[i] = seq[at + i - 1]
  <2>1. \A i \in at..n : seq[i] \in S
    BY <1>1, ElementOfSeq
  <2> QED
    BY <1>1, <2>1, SubSeqProperties
<1> HIDE DEF head, tail
<1>4. <<e>> \in Seq(S) /\ Len(<<e>>) = 1 /\ <<e>>[1] = e
  OBVIOUS
<1>5. /\ head \o <<e>> \in Seq(S) /\ Len(head \o <<e>>) = at
      /\ \A i \in 1..at : (head \o <<e>>)[i] = IF i < at THEN seq[i] ELSE e
  BY <1>1, <1>2, <1>4, ConcatProperties
<1>6. PICK front : front = head \o <<e>>
  OBVIOUS
<1>7. /\ front \o tail \in Seq(S) /\ Len(front \o tail) = n + 1
      /\ \A i \in 1..n + 1 : (front \o tail)[i] = IF i <= at THEN front[i] ELSE tail[i - at]
  <2>1. front \in Seq(S) /\ Len(front) = at
    BY <1>5, <1>6
  <2>2. Len(front) + Len(tail) = n + 1
    BY <1>1, <1>3, <2>1
  <2>3. /\ front \o tail \in Seq(S) /\ Len(front \o tail) = Len(front) + Len(tail)
        /\ \A i \in 1..Len(front) + Len(tail) :
             (front \o tail)[i] = IF i <= Len(front) THEN front[i] ELSE tail[i - Len(front)]
    BY <1>3, <2>1, ConcatProperties
  <2> QED
    BY <2>1, <2>2, <2>3
<1>8. \A i \in 1..n + 1 : i > at => tail[i - at] = seq[i - 1]
  <2>1. ASSUME NEW i \in 1..n + 1, i > at PROVE tail[i - at] = seq[i - 1]
    <3>1. i - at \in 1..(n + 1) - at /\ (at + (i - at)) - 1 = i - 1
      BY <1>1, <2>1
    <3> QED
      BY <1>1, <1>3, <3>1
  <2> QED
    BY <2>1
<1>9. InsertAt(seq, at, e) = front \o tail
  BY <1>6 DEF InsertAt, head, tail
<1> QED
  BY <1>1, <1>5, <1>6, <1>7, <1>8, <1>9, SMTT(60)

\* A sequence that enumerates a set has each of its elements once.
LEMMA Enumerated ==
    ASSUME NEW S, IsFiniteSet(S), NEW o \in SetToSeqs(S)
    PROVE  /\ o \in Seq(S) /\ Len(o) = Cardinality(S)
           /\ \A i, j \in 1..Len(o) : o[i] = o[j] => i = j
           /\ {o[i] : i \in 1..Len(o)} = S
<1> DEFINE D == 1..Cardinality(S)
<1>1. Cardinality(S) \in Nat
  BY FS_CardinalityType
<1>2. o \in [D -> S] /\ \A i, j \in D : i # j => o[i] # o[j]
  BY DEF SetToSeqs
<1>3. o \in Seq(S) /\ Len(o) = Cardinality(S)
  BY <1>1, <1>2
<1>4. o \in Injection(D, S)
  BY <1>2 DEF Injection, IsInjective
<1>5. Cardinality(D) = Cardinality(S)
  BY <1>1, FS_Interval
<1>6. o \in Surjection(D, S)
  BY <1>4, <1>5, FS_Injection
<1>7. {o[i] : i \in D} = S
  BY <1>2, <1>6 DEF Surjection
<1> QED
  BY <1>2, <1>3, <1>7

\* As many positions as there are elements, if each is there once
LEMMA Counted ==
    ASSUME NEW n \in Nat, NEW f, \A i, j \in 1..n : f[i] = f[j] => i = j, f \in [1..n -> {f[i] : i \in 1..n}]
    PROVE  Cardinality({f[i] : i \in 1..n}) = n
<1> DEFINE S == {f[i] : i \in 1..n}
<1>1. f \in Bijection(1..n, S)
  BY Fun_IsBij DEF Injection, Surjection, IsInjective, Bijection
<1> QED
  BY <1>1, FS_CountingElements DEF ExistsBijection

-----------------------------------------------------------------------------
(* The inductive invariant                                                 *)

Rows == [score : Scores, position : Nat, id : Ids]

Descends(lb) == \A i, j \in 1..Len(lb) : i < j => lb[i].score >= lb[j].score

InputInv ==
    /\ backend \in Backends
    /\ pc \in {"collect", "walk", "done"}
    /\ score \in [Users -> Scores] /\ Users \subseteq Ids
    /\ connected \subseteq Ids

\* The ranking descends, nobody is in it twice, and the positions are those at which its rows
\* were made.
RankingInv ==
    /\ ranking \in Seq(Rows)
    /\ Descends(ranking)
    /\ \A i, j \in 1..Len(ranking) : ranking[i].id = ranking[j].id => i = j
    /\ \A i \in 1..Len(ranking) : ranking[i].position <= Len(ranking)
    /\ backend = "mongo" => \A i \in 1..Len(ranking) : ranking[i].position = i

\* Who is not in the ranking is still to be collected.
CollectInv ==
    /\ todo \in Seq(Users)
    /\ \A i, j \in 1..Len(todo) : todo[i] = todo[j] => i = j
    /\ \A i \in 1..Len(todo), j \in 1..Len(ranking) : todo[i] # ranking[j].id
    /\ {ranking[i].id : i \in 1..Len(ranking)} \cup {todo[i] : i \in 1..Len(todo)} = Users
    /\ pc # "collect" => todo = <<>>
    /\ pc = "collect" => /\ backend = "inmemory" /\ next = 1 /\ window = <<>>
                         /\ leaderboards = EmptyMap /\ tracked = EmptyMap

\* InMemoryStorage without a count: there is nothing to walk over.
Skipped == backend = "inmemory" /\ Count <= 0

\* The first and the last row that the user at a rank is to see, as far as the ranking goes
From(rank) == IF rank > Before THEN rank - Before ELSE 1
Until(rank) == rank + (IF After > 1 THEN After ELSE 1)

\* Where the walk is: the rows before next are done.
LastShown(rank) == IF Until(rank) < next THEN Until(rank) ELSE next - 1

\* Whether the id is not that of the top leaderboard while that one is already there.
Plain(u) == backend = "mongo" \/ u # TopId

\* The window holds the rows above the next one.  A user the walk has passed has a leaderboard
\* from the window of that moment down to here, and is tracked while it is to grow.
WalkInv ==
    /\ next \in 1..Len(ranking) + 1
    /\ window = SubSeq(ranking, From(next), next - 1)
    /\ \A r \in 1..Len(ranking) : ranking[r].id \in served /\ r < next /\ Plain(ranking[r].id) =>
         /\ ranking[r].id \in DOMAIN leaderboards
         /\ leaderboards[ranking[r].id] = SubSeq(ranking, From(r), LastShown(r))
    /\ \A r \in 1..Len(ranking) : ranking[r].id \in DOMAIN tracked <=>
         ranking[r].id \in served /\ r < next /\ next <= Until(r)
    /\ \A r \in 1..Len(ranking) : ranking[r].id \in DOMAIN tracked =>
         tracked[ranking[r].id] = next - 1 - r

\* Nobody else has a leaderboard but the top.
DomainInv ==
    /\ DOMAIN tracked \subseteq Users
    /\ \A u \in DOMAIN leaderboards :
         \/ \E r \in 1..Len(ranking) : r < next /\ ranking[r].id = u /\ u \in served
         \/ u = TopId /\ (backend = "mongo" => pc = "done" /\ leaderboards[TopId] = TopRows)

\* The top leaderboard is there, from the beginning or from the end of the walk on.
TopInv ==
    pc = "done" \/ (pc = "walk" /\ backend = "inmemory") =>
        /\ TopId \in DOMAIN leaderboards
        /\ TopId \notin Ids => leaderboards[TopId] = TopRows

EndInv ==
    /\ pc # "collect" => DomainInv /\ (Skipped => next = Len(ranking) + 1 /\ tracked = EmptyMap)
    /\ pc # "collect" /\ ~Skipped => WalkInv
    /\ pc = "done" => next = Len(ranking) + 1 \/ connected = {}

IInv == InputInv /\ RankingInv /\ CollectInv /\ EndInv /\ TopInv

-----------------------------------------------------------------------------
(* Inserting rows                                                          *)

\* A row is inserted where those it precedes begin to be all that follow.
LEMMA EmplaceAt ==
    ASSUME NEW lb \in Seq(Rows), NEW row \in Rows
    PROVE  \E at \in 1..Len(lb) + 1 :
             /\ Emplace(lb, row) = InsertAt(lb, at, row)
             /\ \A i \in at..Len(lb) : Precedes(row, lb[i])
             /\ at > 1 => ~Precedes(row, lb[at - 1])
<1> DEFINE before == {i \in 1..Len(lb) : ~Precedes(row, lb[i])}
<1>1. PICK n \in Nat : n = Len(lb)
  BY LenProperties
<1>2. CASE before = {}
  <2>1. Emplace(lb, row) = InsertAt(lb, 1, row)
    BY <1>2 DEF Emplace
  <2> QED
    BY <1>1, <1>2, <2>1
<1>3. CASE before # {}
  <2>1. PICK m : m = Max(before)
    OBVIOUS
  <2>2. before \subseteq 1..n
    BY <1>1
  <2>3. m \in before /\ \A x \in before : m >= x
    <3> HIDE DEF before
    <3> QED
      BY <1>3, <2>1, <2>2, MaxIsElement
  <2>4. m \in 1..n /\ \A i \in m + 1..n : i \notin before
    BY <1>1, <2>3
  <2>5. Emplace(lb, row) = InsertAt(lb, m + 1, row)
    BY <1>3, <2>1 DEF Emplace
  <2>6. \A i \in m + 1..n : Precedes(row, lb[i])
    BY <1>1, <2>4
  <2>7. ~Precedes(row, lb[m]) /\ (m + 1) - 1 = m /\ m + 1 \in 1..n + 1
    BY <1>1, <2>3, <2>4
  <2> QED
    BY <1>1, <2>5, <2>6, <2>7
<1> QED
  BY <1>2, <1>3

\* Behind rows with at least its score a row comes last.
LEMMA EmplaceAppends ==
    ASSUME NEW lb \in Seq(Rows), NEW row \in Rows, \A i \in 1..Len(lb) : lb[i].score >= row.score
    PROVE  Emplace(lb, row) = Append(lb, row) /\ IsPartitioned(lb, row)
<1>1. PICK n \in Nat : n = Len(lb)
  BY LenProperties
<1>2. \A i \in 1..n : lb[i] \in Rows /\ ~Precedes(row, lb[i])
  <2>1. \A i \in 1..n : lb[i] \in Rows /\ lb[i].score >= row.score
    BY <1>1, ElementOfSeq
  <2>2. row.score \in Int /\ \A i \in 1..n : lb[i].score \in Int
    BY <2>1, LeaderboardsAssumption DEF Rows
  <2>3. \A i \in 1..n : ~(row.score > lb[i].score)
    BY <2>1, <2>2
  <2> QED
    BY <2>1, <2>3 DEF Precedes
<1>3. PICK at \in 1..n + 1 :
        /\ Emplace(lb, row) = InsertAt(lb, at, row)
        /\ \A i \in at..n : Precedes(row, lb[i])
  BY <1>1, EmplaceAt
<1>4. at = n + 1
  BY <1>2, <1>3
<1>5. InsertAt(lb, n + 1, row) = Append(lb, row)
  <2>1. /\ InsertAt(lb, n + 1, row) \in Seq(Rows) /\ Len(InsertAt(lb, n + 1, row)) = n + 1
        /\ \A i \in 1..n + 1 : InsertAt(lb, n + 1, row)[i] = IF i < n + 1 THEN lb[i]
                                    ELSE IF i = n + 1 THEN row ELSE lb[i - 1]
    <3>1. \A k \in 1..Len(lb) + 1 :
            /\ InsertAt(lb, k, row) \in Seq(Rows) /\ Len(InsertAt(lb, k, row)) = Len(lb) + 1
            /\ \A i \in 1..Len(lb) + 1 : InsertAt(lb, k, row)[i] = IF i < k THEN lb[i]
                                             ELSE IF i = k THEN row ELSE lb[i - 1]
      BY Inserted
    <3>2. n + 1 \in 1..Len(lb) + 1
      BY <1>1
    <3> QED
      BY <1>1, <3>1, <3>2
  <2>2. /\ Append(lb, row) \in Seq(Rows) /\ Len(Append(lb, row)) = n + 1
        /\ \A i \in 1..n + 1 : Append(lb, row)[i] = IF i < n + 1 THEN lb[i] ELSE row
    BY <1>1, AppendProperties
  <2>3. \A i \in 1..n + 1 : InsertAt(lb, n + 1, row)[i] = Append(lb, row)[i]
    BY <2>1, <2>2
  <2> QED
    BY <2>1, <2>2, <2>3, SeqEqual
<1> QED
  BY <1>1, <1>2, <1>3, <1>4, <1>5 DEF IsPartitioned

\* A row with a new position comes behind those with at least its score, and before the others.
LEMMA EmplaceSorts ==
    ASSUME NEW lb \in Seq(Rows), NEW row \in Rows, Descends(lb),
           \A i \in 1..Len(lb) : lb[i].position < row.position
    PROVE  /\ IsPartitioned(lb, row)
           /\ Descends(Emplace(lb, row))
           /\ \E at \in 1..Len(lb) + 1 : Emplace(lb, row) = InsertAt(lb, at, row)
<1>1. PICK n \in Nat : n = Len(lb)
  BY LenProperties
<1>2. \A i \in 1..n : lb[i] \in Rows /\ lb[i].score \in Int /\ row.score \in Int
  <2>1. \A i \in 1..n : lb[i] \in Rows
    BY <1>1, ElementOfSeq
  <2> QED
    BY <2>1, LeaderboardsAssumption DEF Rows
<1>3. \A i \in 1..n : Precedes(row, lb[i]) <=> row.score > lb[i].score
  <2>1. \A i \in 1..n : lb[i].position \in Nat /\ row.position \in Nat
    BY <1>2 DEF Rows
  <2> QED
    BY <1>1, <1>2, <2>1 DEF Precedes
<1>4. \A i, j \in 1..n : i < j => lb[i].score >= lb[j].score
  BY <1>1 DEF Descends
<1>5. IsPartitioned(lb, row)
  BY <1>1, <1>2, <1>3, <1>4 DEF IsPartitioned
<1>6. PICK at \in 1..n + 1 :
        /\ Emplace(lb, row) = InsertAt(lb, at, row)
        /\ \A i \in at..n : Precedes(row, lb[i])
        /\ at > 1 => ~Precedes(row, lb[at - 1])
  BY <1>1, EmplaceAt
<1>7. PICK new : new = InsertAt(lb, at, row)
  OBVIOUS
<1>8. /\ Len(new) = n + 1
      /\ \A i \in 1..n + 1 : new[i] = IF i < at THEN lb[i] ELSE IF i = at THEN row ELSE lb[i - 1]
  BY <1>1, <1>7, Inserted
<1>9. \A i \in 1..n : i < at => lb[i].score >= row.score
  <2>1. ASSUME NEW i \in 1..n, i < at PROVE lb[i].score >= row.score
    <3>1. at - 1 \in 1..n /\ i <= at - 1 /\ at > 1
      BY <2>1
    <3>2. lb[at - 1].score >= row.score
      BY <1>2, <1>3, <1>6, <3>1
    <3>3. i = at - 1 \/ lb[i].score >= lb[at - 1].score
      BY <1>4, <2>1, <3>1
    <3> QED
      BY <1>2, <2>1, <3>1, <3>2, <3>3
  <2> QED
    BY <2>1
<1>10. \A i \in 1..n : i >= at => row.score >= lb[i].score
  BY <1>2, <1>3, <1>6
<1>11. ASSUME NEW i \in 1..n + 1, NEW j \in 1..n + 1, i < j PROVE new[i].score >= new[j].score
  <2>1. CASE j < at
    BY <1>4, <1>8, <1>11, <2>1
  <2>2. CASE j = at
    BY <1>8, <1>9, <1>11, <2>2
  <2>3. CASE j > at /\ i = at
    BY <1>8, <1>10, <1>11, <2>3
  <2>4. CASE j > at /\ i < at
    <3>1. i \in 1..n /\ j - 1 \in 1..n /\ j - 1 >= at
      BY <1>11, <2>4
    <3>2. lb[i].score >= row.score /\ row.score >= lb[j - 1].score
      BY <1>9, <1>10, <2>4, <3>1
    <3> QED
      BY <1>2, <1>8, <2>4, <3>1, <3>2, SMTT(60)
  <2>5. CASE j > at /\ i > at
    <3>1. i - 1 \in 1..n /\ j - 1 \in 1..n /\ i - 1 < j - 1
      BY <1>11, <2>5
    <3>2. new[i] = lb[i - 1] /\ new[j] = lb[j - 1]
      BY <1>8, <2>5
    <3> QED
      BY <1>4, <3>1, <3>2
  <2> QED
    BY <2>1, <2>2, <2>3, <2>4, <2>5
<1>12. Descends(new)
  BY <1>8, <1>11 DEF Descends
<1> QED
  BY <1>1, <1>5, <1>6, <1>7, <1>12

\* Pieces of the ranking: behind one comes its next row, and without the first row it begins
\* one row later.
LEMMA Pieces ==
    ASSUME ranking \in Seq(Rows), NEW a \in 1..Len(ranking) + 1, NEW b \in a - 1..Len(ranking)
    PROVE  /\ SubSeq(ranking, a, b) \in Seq(Rows)
           /\ Len(SubSeq(ranking, a, b)) = (b - a) + 1
           /\ \A i \in 1..(b - a) + 1 : SubSeq(ranking, a, b)[i] = ranking[(a + i) - 1]
           /\ b < Len(ranking) => Append(SubSeq(ranking, a, b), ranking[b + 1]) = SubSeq(ranking, a, b + 1)
           /\ a <= b => Tail(SubSeq(ranking, a, b)) = SubSeq(ranking, a + 1, b)
<1>1. PICK n \in Nat : n = Len(ranking)
  BY LenProperties
<1>2. \A i \in 1..n : ranking[i] \in Rows
  BY <1>1, ElementOfSeq
<1>3. /\ SubSeq(ranking, a, b) \in Seq(Rows)
      /\ Len(SubSeq(ranking, a, b)) = (b - a) + 1
      /\ \A i \in 1..(b - a) + 1 : SubSeq(ranking, a, b)[i] = ranking[(a + i) - 1]
  <2>1. \A i \in a..b : ranking[i] \in Rows
    BY <1>1, <1>2
  <2>2. a \in Int /\ b \in Int
    BY <1>1
  <2> QED
    BY <1>1, <2>1, <2>2, SubSeqProperties
<1>4. ASSUME b < n PROVE Append(SubSeq(ranking, a, b), ranking[b + 1]) = SubSeq(ranking, a, b + 1)
  <2>1. b + 1 \in a..n /\ a \in 1..n /\ (b + 1) - 1 = b
    BY <1>1, <1>4
  <2>2. SubSeq(ranking, a, b + 1) = SubSeq(ranking, a, b) \o <<ranking[b + 1]>>
    <3>1. \A k \in a..n : SubSeq(ranking, a, k) = SubSeq(ranking, a, k - 1) \o <<ranking[k]>>
      BY <1>1, <2>1, SubSeqRecursiveSecond
    <3> QED
      BY <2>1, <3>1
  <2>3. ranking[b + 1] \in Rows
    BY <1>2, <2>1
  <2> QED
    BY <1>3, <2>2, <2>3, AppendIsConcat
<1>5. ASSUME a <= b PROVE Tail(SubSeq(ranking, a, b)) = SubSeq(ranking, a + 1, b)
  <2>1. a \in 1..n /\ b \in a..n
    BY <1>1, <1>5
  <2> QED
    BY <1>1, <2>1, HeadTailOfSubSeq
<1> QED
  BY <1>1, <1>3, <1>4, <1>5

\* Where the leaderboard of a rank begins and ends
LEMMA Bounds ==
    ASSUME NEW r \in Nat \ {0}
    PROVE  /\ From(r) \in 1..r
           /\ From(r + 1) = IF (r - From(r)) + 1 > Before THEN From(r) + 1 ELSE From(r)
           /\ Until(r) \in Nat /\ Until(r) >= r + 1
           /\ \A n \in Nat : n > r => (n + 1 <= Until(r) <=> n - r < After)
  BY LeaderboardsAssumption DEF From, Until

\* The next row is appended to any piece of the ranking that ends above it.
LEMMA NextRowAppends ==
    ASSUME ranking \in Seq(Rows), Descends(ranking), next \in 1..Len(ranking), NEW a \in 1..next
    PROVE  /\ Emplace(SubSeq(ranking, a, next - 1), ranking[next]) = SubSeq(ranking, a, next)
           /\ IsPartitioned(SubSeq(ranking, a, next - 1), ranking[next])
<1>1. PICK n \in Nat : n = Len(ranking)
  BY LenProperties
<1>2. PICK k \in 1..n : k = next
  BY <1>1
<1>3. PICK piece : piece = SubSeq(ranking, a, k - 1)
  OBVIOUS
<1>4. /\ piece \in Seq(Rows) /\ Len(piece) = k - a
      /\ \A i \in 1..k - a : piece[i] = ranking[(a + i) - 1]
      /\ Append(piece, ranking[k]) = SubSeq(ranking, a, k)
  <2>1. a \in 1..n + 1 /\ k - 1 \in a - 1..n /\ k - 1 < n /\ (k - 1) + 1 = k /\ ((k - 1) - a) + 1 = k - a
    BY <1>1, <1>2
  <2>2. a \in 1..Len(ranking) + 1 /\ k - 1 \in a - 1..Len(ranking) /\ k - 1 < Len(ranking)
    BY <1>1, <2>1
  <2>3. /\ SubSeq(ranking, a, k - 1) \in Seq(Rows)
        /\ Len(SubSeq(ranking, a, k - 1)) = ((k - 1) - a) + 1
        /\ \A i \in 1..((k - 1) - a) + 1 : SubSeq(ranking, a, k - 1)[i] = ranking[(a + i) - 1]
        /\ Append(SubSeq(ranking, a, k - 1), ranking[(k - 1) + 1]) = SubSeq(ranking, a, (k - 1) + 1)
    BY <2>2, Pieces
  <2> QED
    BY <1>3, <2>1, <2>3
<1>5. ranking[k] \in Rows
  BY <1>1, <1>2, ElementOfSeq
<1>6. \A i \in 1..Len(piece) : piece[i].score >= ranking[k].score
  <2>1. ASSUME NEW i \in 1..k - a PROVE piece[i].score >= ranking[k].score
    <3>1. (a + i) - 1 \in 1..n /\ (a + i) - 1 < k
      BY <1>2
    <3> QED
      BY <1>1, <1>2, <1>4, <3>1 DEF Descends
  <2> QED
    BY <1>4, <2>1
<1> QED
  BY <1>2, <1>3, <1>4, <1>5, <1>6, EmplaceAppends

-----------------------------------------------------------------------------
(* The steps                                                               *)

\* The ranking a database cursor returns satisfies the invariant, and so does none at all.
LEMMA InitIInv == Init => IInv
<1> SUFFICES ASSUME Init PROVE IInv
  OBVIOUS
<1> USE DEF Init
<1>1. PICK S \in SUBSET Ids : score \in [S -> Scores]
  OBVIOUS
<1>2. Users = S /\ score \in [Users -> Scores] /\ Users \subseteq Ids /\ IsFiniteSet(Users)
  BY <1>1, FS_Subset, LeaderboardsAssumption DEF Users
<1>3. InputInv
  BY <1>2, LeaderboardsAssumption DEF InputInv
<1>4. DOMAIN EmptyMap = {}
  BY DEF EmptyMap
<1>5. CASE backend = "inmemory"
  <2>1. pc = "collect" /\ todo \in SetToSeqs(Users) /\ ranking = <<>>
    BY <1>5
  <2>2. /\ todo \in Seq(Users) /\ \A i, j \in 1..Len(todo) : todo[i] = todo[j] => i = j
        /\ {todo[i] : i \in 1..Len(todo)} = Users
    BY <1>2, <2>1, Enumerated
  <2>3. ranking \in Seq(Rows) /\ Len(ranking) = 0
    BY <2>1, EmptySeq
  <2>4. RankingInv
    BY <1>5, <2>3 DEF RankingInv, Descends
  <2>5. CollectInv
    BY <1>5, <2>1, <2>2, <2>3 DEF CollectInv
  <2> QED
    BY <1>3, <2>1, <2>4, <2>5 DEF IInv, EndInv, TopInv
<1>6. CASE backend # "inmemory"
  <2>1. backend = "mongo" /\ pc = "walk" /\ todo = <<>> /\ ranking \in Cursors(score)
    BY <1>6, LeaderboardsAssumption
  <2>2. PICK o \in SetToSeqs(Users) :
          /\ \A i, j \in DOMAIN o : i < j => score[o[i]] >= score[o[j]]
          /\ ranking = [i \in 1..Cardinality(Users) |-> [score |-> score[o[i]], position |-> i, id |-> o[i]]]
    BY <2>1 DEF Cursors, Users
  <2>3. /\ o \in Seq(Users) /\ Len(o) = Cardinality(Users)
        /\ \A i, j \in 1..Len(o) : o[i] = o[j] => i = j
        /\ {o[i] : i \in 1..Len(o)} = Users
    BY <1>2, Enumerated
  <2>4. PICK n \in Nat : n = Cardinality(Users)
    BY <1>2, FS_CardinalityType
  <2>5. \A i \in 1..n : o[i] \in Users
    BY <2>3, <2>4, ElementOfSeq
  <2>6. \A i \in 1..n : ranking[i] = [score |-> score[o[i]], position |-> i, id |-> o[i]]
    BY <2>2, <2>4
  <2>7. \A i \in 1..n : /\ ranking[i].score = score[o[i]] /\ ranking[i].position = i
                         /\ ranking[i].id = o[i] /\ ranking[i] \in Rows
    <3>1. \A i \in 1..n : score[o[i]] \in Scores /\ o[i] \in Ids /\ i \in Nat
      BY <1>2, <2>5
    <3>2. \A i \in 1..n : [score |-> score[o[i]], position |-> i, id |-> o[i]] \in Rows
      BY <3>1 DEF Rows
    <3>3. ASSUME NEW i \in 1..n
          PROVE  /\ ranking[i].score = score[o[i]] /\ ranking[i].position = i
                 /\ ranking[i].id = o[i] /\ ranking[i] \in Rows
      <4>1. ranking[i] = [score |-> score[o[i]], position |-> i, id |-> o[i]]
        BY <2>6
      <4>2. ranking[i] \in Rows
        BY <3>2, <4>1
      <4> QED
        BY <4>1, <4>2
    <3> QED
      BY <3>3
  <2>8. ranking \in Seq(Rows) /\ Len(ranking) = n
    BY <2>2, <2>4, <2>7
  <2>9. DOMAIN o = 1..n
    BY <2>3, <2>4, LenProperties
  <2>10. RankingInv
    <3>1. \A i, j \in 1..n : i < j => ranking[i].score >= ranking[j].score
      <4>1. ASSUME NEW i \in 1..n, NEW j \in 1..n, i < j PROVE ranking[i].score >= ranking[j].score
        <5>1. score[o[i]] >= score[o[j]]
          BY <2>2, <2>9, <4>1
        <5>2. ranking[i].score = score[o[i]] /\ ranking[j].score = score[o[j]]
          BY <2>7
        <5> QED
          BY <5>1, <5>2
      <4> QED
        BY <4>1
    <3>2. \A i, j \in 1..n : ranking[i].id = ranking[j].id => i = j
      BY <2>3, <2>4, <2>7
    <3>3. \A i \in 1..n : ranking[i].position <= n
      BY <2>7
    <3> QED
      BY <2>7, <2>8, <3>1, <3>2, <3>3 DEF RankingInv, Descends
  <2>11. CollectInv
    <3>1. {ranking[i].id : i \in 1..n} = {o[i] : i \in 1..n}
      BY <2>7
    <3>2. Len(todo) = 0 /\ todo \in Seq(Users)
      BY <2>1, EmptySeq
    <3>3. {todo[i] : i \in 1..Len(todo)} = {}
      BY <3>2
    <3>4. {ranking[i].id : i \in 1..Len(ranking)} = Users
      BY <2>3, <2>4, <2>8, <3>1
    <3> QED
      BY <2>1, <3>2, <3>3, <3>4 DEF CollectInv
  <2>12. WalkInv
    <3>1. From(1) = 1
      BY Bounds
    <3>2. SubSeq(ranking, 1, 0) = <<>>
      BY SubSeqEmpty
    <3> QED
      BY <1>4, <2>8, <3>1, <3>2 DEF WalkInv
  <2> QED
    BY <1>3, <1>4, <2>1, <2>8, <2>10, <2>11, <2>12 DEF IInv, EndInv, DomainInv, TopInv, Skipped
<1> QED
  BY <1>5, <1>6

\* A collected user moves from what is to be collected to the ranking.
LEMMA CollectStep ==
    ASSUME IInv, Collect
    PROVE  IInv'
<1> DEFINE row == [score |-> score[Head(todo)], position |-> Len(ranking) + 1, id |-> Head(todo)]
<1> USE DEF IInv
<1>1. /\ pc = "collect" /\ todo # <<>> /\ todo' = Tail(todo) /\ ranking' = Emplace(ranking, row)
      /\ UNCHANGED <<input, pc, next, window, leaderboards, tracked>>
  BY DEF Collect
<1>2. PICK n \in Nat : n = Len(ranking)
  BY LenProperties DEF RankingInv
<1>3. PICK k \in Nat : k = Len(todo)
  BY LenProperties DEF CollectInv
<1>4. PICK u : u = Head(todo)
  OBVIOUS
<1>5. /\ k > 0 /\ u = todo[1] /\ u \in Users /\ todo' \in Seq(Users) /\ Len(todo') = k - 1
      /\ \A i \in 1..k - 1 : todo'[i] = todo[i + 1]
  BY <1>1, <1>3, <1>4, HeadTailProperties, EmptySeq DEF CollectInv
<1>6. row \in Rows /\ row.position = n + 1 /\ row.id = u
  BY <1>2, <1>4, <1>5 DEF InputInv, Rows
<1> HIDE DEF row
<1>7. \A i \in 1..n : ranking[i] \in Rows /\ ranking[i].position < row.position
  <2>1. \A i \in 1..n : ranking[i] \in Rows /\ ranking[i].position <= n
    BY <1>2, ElementOfSeq DEF RankingInv
  <2>2. \A i \in 1..n : ranking[i].position \in Nat
    BY <2>1 DEF Rows
  <2> QED
    BY <1>6, <2>1, <2>2
<1>8. Descends(ranking') /\ \E at \in 1..n + 1 : ranking' = InsertAt(ranking, at, row)
  BY <1>1, <1>2, <1>6, <1>7, EmplaceSorts DEF RankingInv
<1>9. PICK at \in 1..n + 1 : ranking' = InsertAt(ranking, at, row)
  BY <1>8
<1>10. /\ ranking' \in Seq(Rows) /\ Len(ranking') = n + 1
       /\ \A i \in 1..n + 1 : ranking'[i] = IF i < at THEN ranking[i]
                                            ELSE IF i = at THEN row ELSE ranking[i - 1]
  BY <1>2, <1>6, <1>9, Inserted, SMTT(60) DEF RankingInv
<1>11. \A i \in 1..n : ranking[i].id # u
  BY <1>2, <1>3, <1>5 DEF CollectInv
<1>12. InputInv'
  BY <1>1 DEF InputInv, input, Users
<1>13. RankingInv'
  <2>1. \A i, j \in 1..n : ranking[i].id = ranking[j].id => i = j
    BY <1>2 DEF RankingInv
  <2>2. ASSUME NEW i \in 1..n + 1, NEW j \in 1..n + 1, ranking'[i].id = ranking'[j].id PROVE i = j
    BY <1>6, <1>10, <1>11, <2>1, <2>2, SMTT(60)
  <2>3. \A i \in 1..n + 1 : ranking'[i].position <= n + 1
    <3>1. \A i \in 1..n : ranking[i].position <= n /\ ranking[i].position \in Nat
      BY <1>2, <1>7 DEF RankingInv, Rows
    <3> QED
      BY <1>6, <1>10, <3>1
  <2>4. backend' # "mongo"
    BY <1>1 DEF CollectInv, input
  <2> QED
    BY <1>8, <1>10, <2>2, <2>3, <2>4 DEF RankingInv
<1>14. CollectInv'
  <2>1. ASSUME NEW i \in 1..k - 1, NEW j \in 1..n + 1 PROVE todo'[i] # ranking'[j].id
    <3>1. i + 1 \in 1..k /\ todo'[i] = todo[i + 1] /\ todo[i + 1] # u
      BY <1>3, <1>5 DEF CollectInv
    <3>2. \A m \in 1..n : todo[i + 1] # ranking[m].id
      BY <1>2, <1>3, <3>1 DEF CollectInv
    <3>3. CASE j < at
      BY <1>10, <3>1, <3>2, <3>3
    <3>4. CASE j = at
      BY <1>6, <1>10, <3>1, <3>4
    <3>5. CASE j > at
      <4>1. j - 1 \in 1..n /\ ranking'[j] = ranking[j - 1]
        BY <1>10, <3>5
      <4> QED
        BY <3>1, <3>2, <4>1
    <3> QED
      BY <3>3, <3>4, <3>5
  <2>2. ASSUME NEW i \in 1..k - 1, NEW j \in 1..k - 1, todo'[i] = todo'[j] PROVE i = j
    BY <1>3, <1>5, <2>2 DEF CollectInv
  <2>3. {ranking'[i].id : i \in 1..n + 1} = {ranking[i].id : i \in 1..n} \cup {u}
    <3>1. ASSUME NEW i \in 1..n PROVE \E j \in 1..n + 1 : ranking'[j].id = ranking[i].id
      <4>1. CASE i < at
        BY <1>10, <4>1
      <4>2. CASE i >= at
        <5>1. i + 1 \in 1..n + 1 /\ ranking'[i + 1] = ranking[i]
          BY <1>10, <4>2
        <5> QED
          BY <5>1
      <4> QED
        BY <4>1, <4>2
    <3>2. ranking'[at].id = u
      BY <1>6, <1>10
    <3>3. ASSUME NEW j \in 1..n + 1
          PROVE  ranking'[j].id = u \/ \E i \in 1..n : ranking'[j].id = ranking[i].id
      <4>1. CASE j < at
        BY <1>10, <4>1
      <4>2. CASE j = at
        BY <1>6, <1>10, <4>2
      <4>3. CASE j > at
        <5>1. j - 1 \in 1..n /\ ranking'[j] = ranking[j - 1]
          BY <1>10, <4>3
        <5> QED
          BY <5>1
      <4> QED
        BY <4>1, <4>2, <4>3
    <3> QED
      BY <3>1, <3>2, <3>3
  <2>4. {todo[i] : i \in 1..k} = {u} \cup {todo'[i] : i \in 1..k - 1}
    <3>1. ASSUME NEW i \in 1..k PROVE todo[i] = u \/ \E j \in 1..k - 1 : todo[i] = todo'[j]
      <4>1. CASE i = 1
        BY <1>5, <4>1
      <4>2. CASE i # 1
        <5>1. i - 1 \in 1..k - 1 /\ todo'[i - 1] = todo[i]
          BY <1>5, <4>2
        <5> QED
          BY <5>1
      <4> QED
        BY <4>1, <4>2
    <3>2. \A j \in 1..k - 1 : \E i \in 1..k : todo[i] = todo'[j]
      BY <1>5
    <3>3. u \in {todo[i] : i \in 1..k}
      BY <1>5
    <3> QED
      BY <3>1, <3>2, <3>3
  <2>5. {ranking[i].id : i \in 1..n} \cup {todo[i] : i \in 1..k} = Users
    BY <1>2, <1>3 DEF CollectInv
  <2>6. Users' = Users /\ UNCHANGED <<backend, next, window, leaderboards, tracked, pc>>
    BY <1>1 DEF input, Users
  <2> QED
    <3>1. {ranking'[i].id : i \in 1..n + 1} \cup {todo'[i] : i \in 1..k - 1} = Users
      BY <2>3, <2>4, <2>5
    <3> HIDE DEF IInv
    <3>2. /\ pc = "collect" /\ backend = "inmemory" /\ next = 1 /\ window = <<>>
          /\ leaderboards = EmptyMap /\ tracked = EmptyMap
      BY <1>1 DEF IInv, CollectInv
    <3> QED
      BY <1>5, <1>10, <2>1, <2>2, <2>6, <3>1, <3>2 DEF CollectInv
<1>15. EndInv' /\ TopInv'
  BY <1>1 DEF EndInv, TopInv
<1> QED
  BY <1>12, <1>13, <1>14, <1>15

\* Whoever was collected is in the ranking; the top leaderboard is there before the walk.
LEMMA EndCollectStep ==
    ASSUME IInv, EndCollect
    PROVE  IInv'
<1> USE DEF IInv
<1>1. /\ pc = "collect" /\ todo = <<>> /\ leaderboards' = Enter(leaderboards, TopId, TopRows)
      /\ pc' = IF connected = {} THEN "done" ELSE "walk"
      /\ next' = IF Count <= 0 THEN Len(ranking) + 1 ELSE 1
      /\ UNCHANGED <<backend, score, connected, served, todo, ranking, window, tracked>>
  BY DEF EndCollect, input
<1>2. /\ backend = "inmemory" /\ window = <<>> /\ tracked = EmptyMap /\ leaderboards = EmptyMap
      /\ DOMAIN EmptyMap = {}
  BY <1>1 DEF CollectInv, EmptyMap
<1>3. PICK n \in Nat : n = Len(ranking)
  BY LenProperties DEF RankingInv
<1>4. DOMAIN leaderboards' = {TopId} /\ leaderboards'[TopId] = TopRows /\ TopRows' = TopRows
  BY <1>1, <1>2 DEF TopRows, Enter
<1>5. InputInv' /\ RankingInv' /\ CollectInv'
  BY <1>1, <1>2 DEF InputInv, RankingInv, CollectInv, Users, Descends
<1>6. DomainInv' /\ TopInv'
  BY <1>1, <1>2, <1>4 DEF DomainInv, TopInv, Users
<1>7. ASSUME ~Skipped' PROVE WalkInv'
  <2>1. next' = 1
    BY <1>1, <1>2, <1>7, LeaderboardsAssumption DEF Skipped
  <2>2. From(1) = 1
    BY Bounds
  <2>3. SubSeq(ranking, 1, 0) = <<>>
    BY SubSeqEmpty
  <2>4. window' = SubSeq(ranking', From(next'), next' - 1)
    BY <1>1, <1>2, <2>1, <2>2, <2>3
  <2>5. next' \in 1..n + 1 /\ \A r \in 1..n : ~(r < next')
    BY <2>1
  <2> QED
    BY <1>1, <1>2, <1>3, <2>4, <2>5 DEF WalkInv
<1>8. Skipped' => next' = Len(ranking') + 1 /\ tracked' = EmptyMap
  BY <1>1, <1>2 DEF Skipped
<1>9. pc' = "done" => connected' = {}
  BY <1>1
<1> QED
  BY <1>5, <1>6, <1>7, <1>8, <1>9 DEF EndInv

\* What one round of the walk does with the row it is at.
LEMMA WalkRow ==
    ASSUME IInv, Walk
    PROVE  /\ ~Skipped /\ WalkInv /\ DomainInv /\ next \in 1..Len(ranking)
           /\ \A a \in 1..next : Emplace(SubSeq(ranking, a, next - 1), ranking[next]) = SubSeq(ranking, a, next)
           /\ From(next) \in 1..next
           /\ Emplace(window, ranking[next]) = SubSeq(ranking, From(next), next)
           /\ \A r \in 1..Len(ranking) : r # next => ranking[r].id # ranking[next].id
           /\ ranking[next].id \in Users
<1> USE DEF IInv
<1>1. PICK n \in Nat : n = Len(ranking)
  BY LenProperties DEF RankingInv
<1>2. pc = "walk" /\ next <= n
  BY <1>1 DEF Walk
<1>3. ~Skipped /\ WalkInv /\ DomainInv
  BY <1>1, <1>2 DEF EndInv
<1>4. next \in 1..n
  BY <1>1, <1>2, <1>3 DEF WalkInv
<1>5. \A a \in 1..next : Emplace(SubSeq(ranking, a, next - 1), ranking[next]) = SubSeq(ranking, a, next)
  BY <1>1, <1>4, NextRowAppends DEF RankingInv
<1>6. From(next) \in 1..next
  BY <1>4, Bounds
<1>7. Emplace(window, ranking[next]) = SubSeq(ranking, From(next), next)
  BY <1>3, <1>5, <1>6 DEF WalkInv
<1>8. \A r \in 1..n : r # next => ranking[r].id # ranking[next].id
  BY <1>1, <1>4 DEF RankingInv
<1>9. ranking[next].id \in Users
  BY <1>1, <1>4 DEF CollectInv
<1> QED
  BY <1>1, <1>3, <1>4, <1>5, <1>6, <1>7, <1>8, <1>9

\* The leaderboards and the tracked users behind one round of the walk
LEMMA WalkMaps ==
    ASSUME Walk
    PROVE  LET row == ranking[next]
               mine == IF row.id \in served THEN {row.id} ELSE {}
           IN  /\ DOMAIN leaderboards' = DOMAIN leaderboards \cup mine
               /\ \A u \in DOMAIN leaderboards :
                    leaderboards'[u] = IF u \in DOMAIN tracked THEN Emplace(leaderboards[u], row)
                                                               ELSE leaderboards[u]
               /\ \A u \in mine \ DOMAIN leaderboards : leaderboards'[u] = Emplace(window, row)
               /\ DOMAIN tracked' = {v \in DOMAIN tracked : StillTracked(v)} \cup mine
               /\ \A u \in DOMAIN tracked : StillTracked(u) => tracked'[u] = tracked[u] + 1
               /\ \A u \in mine \ DOMAIN tracked : tracked'[u] = 0
<1> DEFINE row == ranking[next]
           mine == IF row.id \in served THEN {row.id} ELSE {}
           shown == Emplace(window, row)
           grown == [u \in DOMAIN leaderboards |->
                        IF u \in DOMAIN tracked THEN Emplace(leaderboards[u], row)
                                                ELSE leaderboards[u]]
           counted == [u \in {v \in DOMAIN tracked : StillTracked(v)} |-> tracked[u] + 1]
<1>1. IF row.id \in served
        THEN leaderboards' = Enter(grown, row.id, shown) /\ tracked' = Enter(counted, row.id, 0)
        ELSE leaderboards' = grown /\ tracked' = counted
  BY DEF Walk
<1> HIDE DEF row, shown
<1>2. /\ DOMAIN leaderboards' = DOMAIN leaderboards \cup mine
      /\ \A u \in DOMAIN leaderboards :
           leaderboards'[u] = IF u \in DOMAIN tracked THEN Emplace(leaderboards[u], row)
                                                      ELSE leaderboards[u]
      /\ \A u \in mine \ DOMAIN leaderboards : leaderboards'[u] = shown
  BY <1>1 DEF Enter
<1>3. /\ DOMAIN tracked' = {v \in DOMAIN tracked : StillTracked(v)} \cup mine
      /\ \A u \in DOMAIN tracked : StillTracked(u) => tracked'[u] = tracked[u] + 1
      /\ \A u \in mine \ DOMAIN tracked : tracked'[u] = 0
  <2>1. PICK old : old = {v \in DOMAIN tracked : StillTracked(v)}
    OBVIOUS
  <2>2. PICK c : c = counted
    OBVIOUS
  <2>3. DOMAIN c = old /\ \A u \in old : c[u] = tracked[u] + 1
    BY <2>1, <2>2
  <2>4. tracked' = IF row.id \in served THEN Enter(c, row.id, 0) ELSE c
    BY <1>1, <2>2
  <2>5. DOMAIN tracked' = old \cup mine /\ \A u \in old : tracked'[u] = c[u]
    BY <2>3, <2>4 DEF Enter
  <2>6. \A u \in mine \ old : tracked'[u] = 0
    BY <2>3, <2>4 DEF Enter
  <2>7. old \subseteq DOMAIN tracked /\ \A u \in DOMAIN tracked : StillTracked(u) <=> u \in old
    BY <2>1
  <2> HIDE DEF counted, mine
  <2> QED
    BY <2>1, <2>3, <2>5, <2>6, <2>7
<1> QED
  BY <1>2, <1>3 DEF row, shown

\* The window slides on, the leaderboards of tracked users grow by the row.
LEMMA WalkStep ==
    ASSUME IInv, Walk
    PROVE  IInv'
<1> USE DEF IInv
<1>1. PICK n \in Nat : n = Len(ranking)
  BY LenProperties DEF RankingInv
<1>2. PICK k \in 1..n : k = next
  BY <1>1, WalkRow
<1>3. PICK id : id = ranking[k].id
  OBVIOUS
<1>4. /\ ~Skipped /\ WalkInv /\ DomainInv /\ From(k) \in 1..k /\ id \in Users
      /\ \A a \in 1..k : Emplace(SubSeq(ranking, a, k - 1), ranking[k]) = SubSeq(ranking, a, k)
      /\ Emplace(window, ranking[k]) = SubSeq(ranking, From(k), k)
      /\ \A r \in 1..n : r # k => ranking[r].id # id
  BY <1>1, <1>2, <1>3, WalkRow
<1>5. /\ pc = "walk" /\ next' = k + 1
      /\ UNCHANGED <<backend, score, connected, served, pc, todo, ranking>>
  BY <1>2 DEF Walk, input
<1>6. PICK mine : mine = IF id \in served THEN {id} ELSE {}
  OBVIOUS
<1>7. /\ DOMAIN leaderboards' = DOMAIN leaderboards \cup mine
      /\ \A u \in DOMAIN leaderboards :
           leaderboards'[u] = IF u \in DOMAIN tracked THEN Emplace(leaderboards[u], ranking[k])
                                                      ELSE leaderboards[u]
      /\ \A u \in mine \ DOMAIN leaderboards : leaderboards'[u] = SubSeq(ranking, From(k), k)
      /\ DOMAIN tracked' = {v \in DOMAIN tracked : StillTracked(v)} \cup mine
      /\ \A u \in DOMAIN tracked : StillTracked(u) => tracked'[u] = tracked[u] + 1
      /\ \A u \in mine \ DOMAIN tracked : tracked'[u] = 0
  BY <1>2, <1>3, <1>4, <1>6, WalkMaps
<1>8. \A r \in 1..n : ranking[r].id \in mine <=> r = k /\ id \in served
  BY <1>3, <1>4, <1>6
<1>9. \A r \in 1..n : /\ Until(r) \in Nat /\ Until(r) >= r + 1
                      /\ k > r => (k + 1 <= Until(r) <=> k - r < After)
  BY Bounds, SMTT(60)
<1>10. \A r \in 1..n :
          /\ ranking[r].id \in DOMAIN tracked <=> ranking[r].id \in served /\ r < k /\ k <= Until(r)
          /\ ranking[r].id \in DOMAIN tracked => tracked[ranking[r].id] = (k - 1) - r
          /\ ranking[r].id \in served /\ r < k /\ Plain(ranking[r].id) =>
               /\ ranking[r].id \in DOMAIN leaderboards
               /\ leaderboards[ranking[r].id] =
                    SubSeq(ranking, From(r), IF Until(r) < k THEN Until(r) ELSE k - 1)
  BY <1>1, <1>2, <1>4 DEF WalkInv, LastShown
<1>11. \A r \in 1..n :
          /\ ranking[r].id \in DOMAIN tracked' <=>
               ranking[r].id \in served /\ r < k + 1 /\ k + 1 <= Until(r)
          /\ ranking[r].id \in DOMAIN tracked' => tracked'[ranking[r].id] = k - r
  <2>1. SUFFICES ASSUME NEW r \in 1..n
                 PROVE  /\ ranking[r].id \in DOMAIN tracked' <=>
                             ranking[r].id \in served /\ r < k + 1 /\ k + 1 <= Until(r)
                        /\ ranking[r].id \in DOMAIN tracked' => tracked'[ranking[r].id] = k - r
    OBVIOUS
  <2>2. CASE r = k
    BY <1>3, <1>7, <1>8, <1>9, <1>10, <2>2
  <2>3. CASE r # k
    <3>1. ranking[r].id \notin mine
      BY <1>8, <2>3
    <3>2. ranking[r].id \in DOMAIN tracked =>
            (StillTracked(ranking[r].id) <=> k - r < After) /\ tracked[ranking[r].id] + 1 = k - r
      BY <1>10, LeaderboardsAssumption DEF StillTracked
    <3> QED
      BY <1>7, <1>9, <1>10, <2>3, <3>1, <3>2
  <2> QED
    BY <2>2, <2>3
<1>12. \A r \in 1..n :
          ranking[r].id \in served /\ r < k + 1 /\ Plain(ranking[r].id) =>
            /\ ranking[r].id \in DOMAIN leaderboards'
            /\ leaderboards'[ranking[r].id] =
                 SubSeq(ranking, From(r), IF Until(r) < k + 1 THEN Until(r) ELSE k)
  <2>1. SUFFICES ASSUME NEW r \in 1..n, ranking[r].id \in served, r < k + 1, Plain(ranking[r].id)
                 PROVE  /\ ranking[r].id \in DOMAIN leaderboards'
                        /\ leaderboards'[ranking[r].id] =
                             SubSeq(ranking, From(r), IF Until(r) < k + 1 THEN Until(r) ELSE k)
    OBVIOUS
  <2>2. CASE r = k
    <3>1. id \notin DOMAIN leaderboards
      <4>1. SUFFICES ASSUME id \in DOMAIN leaderboards PROVE FALSE
        OBVIOUS
      <4>2. \/ \E q \in 1..n : q < k /\ ranking[q].id = id
            \/ id = TopId /\ (backend = "mongo" => pc = "done")
        BY <1>1, <1>2, <1>4, <4>1 DEF DomainInv
      <4> QED
        BY <1>3, <1>4, <1>5, <2>1, <2>2, <4>2 DEF Plain
    <3>2. id \in mine /\ ~(Until(k) < k + 1)
      BY <1>3, <1>6, <1>9, <2>1, <2>2
    <3> QED
      BY <1>3, <1>7, <2>2, <3>1, <3>2
  <2>3. CASE r < k
    <3>1. /\ ranking[r].id \in DOMAIN leaderboards
          /\ leaderboards[ranking[r].id] =
               SubSeq(ranking, From(r), IF Until(r) < k THEN Until(r) ELSE k - 1)
      BY <1>10, <2>1, <2>3
    <3>2. CASE ranking[r].id \in DOMAIN tracked
      <4>1. k <= Until(r) /\ ~(Until(r) < k)
        <5>1. Until(r) \in Nat
          BY <1>9
        <5>2. k <= Until(r)
          BY <1>10, <3>2
        <5> QED
          BY <5>1, <5>2
      <4>2. From(r) \in 1..k
        <5>1. From(r) \in 1..r
          BY Bounds
        <5> QED
          BY <2>3, <5>1
      <4>3. leaderboards'[ranking[r].id] = SubSeq(ranking, From(r), k)
        BY <1>4, <1>7, <3>1, <3>2, <4>1, <4>2
      <4>4. (IF Until(r) < k + 1 THEN Until(r) ELSE k) = k
        BY <1>9, <4>1, SMTT(60)
      <4> QED
        BY <1>7, <3>1, <4>3, <4>4
    <3>3. CASE ranking[r].id \notin DOMAIN tracked
      <4>1. Until(r) < k /\ Until(r) < k + 1
        BY <1>9, <1>10, <2>1, <2>3, <3>3
      <4> QED
        BY <1>7, <3>1, <3>3, <4>1
    <3> QED
      BY <3>2, <3>3
  <2> QED
    BY <2>1, <2>2, <2>3
<1>13. window' = SubSeq(ranking, From(k + 1), k)
  <2>1. PICK w : w = SubSeq(ranking, From(k), k)
    OBVIOUS
  <2>2. window' = Trim(w)
    BY <1>2, <1>4, <2>1 DEF Walk
  <2>3. Len(w) = (k - From(k)) + 1 /\ Tail(w) = SubSeq(ranking, From(k) + 1, k)
    <3>1. From(k) \in 1..Len(ranking) + 1 /\ k \in From(k) - 1..Len(ranking) /\ From(k) <= k
      BY <1>1, <1>4
    <3> QED
      BY <2>1, <3>1, Pieces DEF RankingInv
  <2>4. From(k + 1) = IF (k - From(k)) + 1 > Before THEN From(k) + 1 ELSE From(k)
    BY Bounds
  <2> QED
    BY <2>1, <2>2, <2>3, <2>4 DEF Trim
<1>14. InputInv' /\ RankingInv' /\ CollectInv'
  BY <1>5 DEF InputInv, RankingInv, CollectInv, Users, Descends
<1>15. WalkInv'
  <2>1. (k + 1) - 1 = k /\ k + 1 \in 1..n + 1
    OBVIOUS
  <2>2. \A r \in 1..n : LastShown(r)' = IF Until(r) < k + 1 THEN Until(r) ELSE k
    BY <1>5, <2>1 DEF LastShown
  <2>3. \A u : Plain(u)' <=> Plain(u)
    BY <1>5 DEF Plain
  <2>4. \A r \in 1..n : ((k + 1) - 1) - r = k - r
    OBVIOUS
  <2> HIDE DEF IInv
  <2> QED
    BY <1>1, <1>5, <1>11, <1>12, <1>13, <2>1, <2>2, <2>3, <2>4 DEF WalkInv
<1>16. DomainInv'
  <2>1. DOMAIN tracked' \subseteq Users'
    BY <1>4, <1>5, <1>6, <1>7 DEF DomainInv, Users
  <2>2. ASSUME NEW u \in DOMAIN leaderboards'
        PROVE  \/ \E r \in 1..n : r < k + 1 /\ ranking[r].id = u /\ u \in served
               \/ u = TopId /\ backend # "mongo"
    <3>1. CASE u \in DOMAIN leaderboards
      <4>1. \/ \E r \in 1..n : r < k /\ ranking[r].id = u /\ u \in served
            \/ u = TopId /\ backend # "mongo"
        BY <1>1, <1>2, <1>4, <1>5, <3>1 DEF DomainInv
      <4>2. \A r \in 1..n : r < k => r < k + 1
        OBVIOUS
      <4> QED
        BY <4>1, <4>2
    <3>2. CASE u \in mine
      BY <1>3, <1>6, <3>2
    <3> QED
      BY <1>7, <2>2, <3>1, <3>2
  <2> QED
    BY <1>1, <1>5, <2>1, <2>2 DEF DomainInv
<1>17. TopInv'
  <2>1. SUFFICES ASSUME backend = "inmemory"
                 PROVE  /\ TopId \in DOMAIN leaderboards'
                        /\ TopId \notin Ids => leaderboards'[TopId] = TopRows
    BY <1>5 DEF TopInv, TopRows
  <2>2. TopId \in DOMAIN leaderboards /\ (TopId \notin Ids => leaderboards[TopId] = TopRows)
    BY <1>5, <2>1 DEF TopInv
  <2>3. TopId \notin Ids => TopId \notin DOMAIN tracked
    BY <1>4 DEF DomainInv, InputInv
  <2> QED
    BY <1>7, <2>2, <2>3
<1> QED
  BY <1>4, <1>5, <1>14, <1>15, <1>16, <1>17 DEF EndInv, Skipped

\* At the end of the ranking nothing is left to be done but the top leaderboard.
LEMMA EndWalkStep ==
    ASSUME IInv, EndWalk
    PROVE  IInv'
<1> USE DEF IInv
<1>1. /\ pc = "walk" /\ next > Len(ranking) /\ pc' = "done"
      /\ leaderboards' = IF backend = "mongo" THEN Entered(leaderboards) ELSE leaderboards
      /\ UNCHANGED <<backend, score, connected, served, todo, ranking, next, window, tracked>>
  BY DEF EndWalk, input
<1>2. PICK n \in Nat : n = Len(ranking)
  BY LenProperties DEF RankingInv
<1>3. next = n + 1 /\ DomainInv
  BY <1>1, <1>2 DEF EndInv, WalkInv
<1>4. /\ \A u \in DOMAIN leaderboards : u \in DOMAIN leaderboards' /\ leaderboards'[u] = leaderboards[u]
      /\ backend = "mongo" => /\ DOMAIN leaderboards' = DOMAIN leaderboards \cup {TopId}
                              /\ TopId \notin DOMAIN leaderboards => leaderboards'[TopId] = TopRows
      /\ backend # "mongo" => leaderboards' = leaderboards
  BY <1>1 DEF Entered, Enter
<1>5. TopRows' = TopRows
  BY <1>1 DEF TopRows
<1>6. InputInv' /\ RankingInv' /\ CollectInv'
  BY <1>1 DEF InputInv, RankingInv, CollectInv, Users, Descends
<1>7. WalkInv => WalkInv'
  BY <1>1, <1>4 DEF WalkInv, LastShown, Plain
<1>8. DomainInv'
  <2>1. ASSUME NEW u \in DOMAIN leaderboards'
        PROVE  \/ \E r \in 1..n : r < next /\ ranking[r].id = u /\ u \in served
               \/ u = TopId /\ (backend = "mongo" => leaderboards'[TopId] = TopRows)
    <3>1. CASE u \in DOMAIN leaderboards
      BY <1>1, <1>2, <1>3, <3>1 DEF DomainInv
    <3>2. CASE u \notin DOMAIN leaderboards
      BY <1>4, <2>1, <3>2
    <3> QED
      BY <3>1, <3>2
  <2> QED
    BY <1>1, <1>2, <1>3, <1>5, <2>1 DEF DomainInv, Users
<1>9. TopInv'
  <2>1. CASE backend = "inmemory"
    BY <1>1, <1>4, <1>5, <2>1 DEF TopInv
  <2>2. CASE backend = "mongo"
    <3>1. ASSUME TopId \notin Ids PROVE TopId \notin DOMAIN leaderboards
      <4>1. \A r \in 1..n : ranking[r].id \in Ids
        <5>1. \A r \in 1..n : ranking[r] \in Rows
          BY <1>2, ElementOfSeq DEF RankingInv
        <5> QED
          BY <5>1 DEF Rows
      <4> QED
        BY <1>1, <1>2, <1>3, <2>2, <3>1, <4>1 DEF DomainInv
    <3> QED
      BY <1>1, <1>4, <1>5, <2>2, <3>1 DEF TopInv
  <2> QED
    BY <2>1, <2>2, LeaderboardsAssumption DEF InputInv
<1> QED
  BY <1>1, <1>2, <1>3, <1>6, <1>7, <1>8, <1>9 DEF EndInv, Skipped

\* The invariant is inductive.
LEMMA NextIInv == IInv /\ [Next]_vars => IInv'
<1> SUFFICES ASSUME IInv, [Next]_vars PROVE IInv'
  OBVIOUS
<1>1. CASE UNCHANGED vars
  <2>1. UNCHANGED <<backend, score, connected, served, pc, todo, ranking, next, window, leaderboards, tracked>>
    BY <1>1 DEF vars, input
  <2>2. InputInv' /\ RankingInv'
    BY <2>1 DEF IInv, InputInv, RankingInv, Users, Descends
  <2>3. CollectInv'
    BY <2>1 DEF IInv, CollectInv, Users
  <2>4. (WalkInv' <=> WalkInv) /\ (DomainInv' <=> DomainInv)
    <3>1. TopRows' = TopRows /\ Users' = Users /\ \A r : LastShown(r)' = LastShown(r)
      BY <2>1 DEF TopRows, Users, LastShown
    <3> QED
      BY <2>1, <3>1 DEF WalkInv, DomainInv, Plain
  <2>5. EndInv' /\ TopInv'
    BY <2>1, <2>4 DEF IInv, EndInv, TopInv, Skipped, TopRows
  <2> QED
    BY <2>2, <2>3, <2>5 DEF IInv
<1> QED
  BY <1>1, CollectStep, EndCollectStep, WalkStep, EndWalkStep DEF Next

\* Always: the ranking descends and nobody is in it twice, the window and the leaderboards of the
\* walk are pieces of it, and whoever is not in it is still to be collected.
THEOREM InvariantHolds == Spec => []IInv
BY InitIInv, NextIInv, PTL DEF Spec

-----------------------------------------------------------------------------
(* What follows from it                                                    *)

\* When everybody is collected, the ids of the ranking are those of the week.
LEMMA Collected ==
    ASSUME IInv, pc # "collect"
    PROVE  {ranking[i].id : i \in 1..Len(ranking)} = Users /\ Len(ranking) = Cardinality(Users)
<1> USE DEF IInv
<1>1. PICK n \in Nat : n = Len(ranking)
  BY LenProperties DEF RankingInv
<1>2. {ranking[i].id : i \in 1..n} = Users
  <2>1. Len(todo) = 0
    BY EmptySeq DEF CollectInv
  <2> QED
    BY <1>1, <2>1 DEF CollectInv
<1>3. PICK f : f = [i \in 1..n |-> ranking[i].id]
  OBVIOUS
<1>4. {f[i] : i \in 1..n} = Users /\ f \in [1..n -> {f[i] : i \in 1..n}]
  BY <1>2, <1>3
<1>5. \A i, j \in 1..n : f[i] = f[j] => i = j
  BY <1>1, <1>3 DEF RankingInv
<1>6. Cardinality({f[i] : i \in 1..n}) = n
  BY <1>4, <1>5, Counted
<1> QED
  BY <1>1, <1>2, <1>4, <1>6

\* The ranking that the walk goes down descends and has every user of the week once, whatever
\* the hash order or the order of equal scores in the database.
THEOREM RankingIsCompleteAlways == Spec => []RankingIsComplete
<1>1. IInv => RankingIsComplete
  <2>1. SUFFICES ASSUME IInv, pc # "collect"
                 PROVE  /\ \A i, j \in 1..Len(ranking) : i < j => ranking[i].score >= ranking[j].score
                        /\ {ranking[i].id : i \in 1..Len(ranking)} = Users
                        /\ Len(ranking) = Cardinality(Users)
    BY DEF RankingIsComplete
  <2>2. \A i, j \in 1..Len(ranking) : i < j => ranking[i].score >= ranking[j].score
    BY <2>1 DEF IInv, RankingInv, Descends
  <2> QED
    BY <2>1, <2>2, Collected
<1> QED
  BY <1>1, InvariantHolds, PTL

\* With a positive count, or for MongodbStorage with any, the sliding window and the counters of
\* the one walk give every connected user that can be looked up exactly the rows Before above
\* and After below, whoever else cannot be.
THEOREM WindowsAreExactAlways ==
    ASSUME Count > 0 \/ "inmemory" \notin Backends
    PROVE  Spec => []WindowsAreExact
<1>1. IInv => WindowsAreExact
  <2>1. SUFFICES ASSUME IInv, pc = "done", NEW u \in connected \ {TopId}, HasRank(u)
                 PROVE  IF u \in served
                          THEN u \in DOMAIN leaderboards /\ leaderboards[u] = Neighbourhood(u)
                          ELSE u \notin DOMAIN leaderboards
    BY DEF WindowsAreExact
  <2>2. PICK n \in Nat : n = Len(ranking)
    BY <2>1, LenProperties DEF IInv, RankingInv
  <2>3. PICK r \in 1..n : ranking[r].id = u
    BY <2>1, <2>2 DEF HasRank
  <2>4. Rank(u) = r
    <3>1. \A i \in 1..n : ranking[i].id = u <=> i = r
      BY <2>1, <2>2, <2>3 DEF IInv, RankingInv
    <3> QED
      BY <2>2, <3>1 DEF Rank
  <2>5. ~Skipped
    BY <2>1, LeaderboardsAssumption DEF IInv, InputInv, Skipped
  <2>6. WalkInv /\ next = n + 1
    BY <2>1, <2>2, <2>5 DEF IInv, EndInv
  <2>7. u \in served =>
          u \in DOMAIN leaderboards /\ leaderboards[u] = SubSeq(ranking, From(r), LastShown(r))
    <3>1. r < next /\ Plain(u)
      BY <2>1, <2>6 DEF Plain
    <3> QED
      BY <2>1, <2>2, <2>3, <2>6, <3>1 DEF WalkInv
  <2>8. Max({1, r - Before}) = From(r)
    <3>1. Max({1, r - Before}) = IF 1 >= r - Before THEN 1 ELSE r - Before
      BY OfTwo, LeaderboardsAssumption
    <3> QED
      BY <3>1, LeaderboardsAssumption DEF From
  <2>9. r + Max({After, 1}) = Until(r)
    <3>1. Max({After, 1}) = IF After >= 1 THEN After ELSE 1
      BY OfTwo, LeaderboardsAssumption
    <3> QED
      BY <3>1, LeaderboardsAssumption DEF Until
  <2>10. Min({n, Until(r)}) = LastShown(r)
    <3>1. Until(r) \in Nat
      BY Bounds
    <3>2. Min({n, Until(r)}) = IF n <= Until(r) THEN n ELSE Until(r)
      BY <3>1, OfTwo
    <3> QED
      BY <2>6, <3>1, <3>2 DEF LastShown
  <2>11. u \notin served => u \notin DOMAIN leaderboards
    BY <2>1, <2>6 DEF IInv, EndInv, DomainInv
  <2> QED
    BY <2>2, <2>4, <2>7, <2>8, <2>9, <2>10, <2>11 DEF Neighbourhood
<1> QED
  BY <1>1, InvariantHolds, PTL

\* The comparator of the multimap is no strict weak order, but wherever the code inserts a row, the
\* rows it is to precede are the last ones: the place does not depend on the search tree.
THEOREM InsertionsAreDefinedAlways ==
    ASSUME TopId \notin Ids
    PROVE  Spec => []InsertionsAreDefined
<1>1. ASSUME IInv, pc = "collect", todo # <<>>
      PROVE  IsPartitioned(ranking, [score |-> score[Head(todo)],
                                     position |-> Len(ranking) + 1, id |-> Head(todo)])
  <2>1. PICK row : row = [score |-> score[Head(todo)], position |-> Len(ranking) + 1, id |-> Head(todo)]
    OBVIOUS
  <2>2. PICK n \in Nat : n = Len(ranking)
    BY <1>1, LenProperties DEF IInv, RankingInv
  <2>3. Head(todo) \in Users
    BY <1>1, HeadTailProperties DEF IInv, CollectInv
  <2>4. row \in Rows /\ row.position = n + 1
    BY <1>1, <2>1, <2>2, <2>3 DEF IInv, InputInv, Rows
  <2>5. \A i \in 1..n : ranking[i].position < row.position
    <3>1. \A i \in 1..n : ranking[i] \in Rows /\ ranking[i].position <= n
      BY <1>1, <2>2, ElementOfSeq DEF IInv, RankingInv
    <3>2. \A i \in 1..n : ranking[i].position \in Nat
      BY <3>1 DEF Rows
    <3> QED
      BY <2>4, <3>1, <3>2
  <2>6. IsPartitioned(ranking, row)
    BY <1>1, <2>2, <2>4, <2>5, EmplaceSorts DEF IInv, RankingInv
  <2> QED
    BY <2>1, <2>6
<1>2. ASSUME IInv, pc = "walk", next <= Len(ranking)
      PROVE  /\ IsPartitioned(window, ranking[next])
             /\ \A u \in DOMAIN tracked : IsPartitioned(leaderboards[u], ranking[next])
  <2>1. PICK n \in Nat : n = Len(ranking)
    BY <1>2, LenProperties DEF IInv, RankingInv
  <2>2. ~Skipped /\ WalkInv /\ DomainInv
    BY <1>2, <2>1 DEF IInv, EndInv
  <2>3. next \in 1..n
    BY <1>2, <2>1, <2>2 DEF WalkInv
  <2>4. \A a \in 1..next : IsPartitioned(SubSeq(ranking, a, next - 1), ranking[next])
    BY <1>2, <2>1, <2>3, NextRowAppends DEF IInv, RankingInv
  <2>5. IsPartitioned(window, ranking[next])
    <3>1. From(next) \in 1..next
      BY <2>3, Bounds
    <3> QED
      BY <2>2, <2>4, <3>1 DEF WalkInv
  <2>6. ASSUME NEW u \in DOMAIN tracked PROVE IsPartitioned(leaderboards[u], ranking[next])
    <3>1. u \in Users /\ u \in Ids
      BY <1>2, <2>2 DEF DomainInv, IInv, InputInv
    <3>2. PICK r \in 1..n : ranking[r].id = u
      BY <1>2, <2>1, <3>1, Collected
    <3>3. u \in served /\ r < next /\ next <= Until(r) /\ Plain(u)
      BY <2>1, <2>2, <2>6, <3>1, <3>2 DEF WalkInv, Plain
    <3>4. leaderboards[u] = SubSeq(ranking, From(r), LastShown(r))
      BY <2>1, <2>2, <3>2, <3>3 DEF WalkInv
    <3>5. From(r) \in 1..r /\ Until(r) \in Nat
      BY Bounds
    <3>6. LastShown(r) = next - 1
      BY <2>3, <3>3, <3>5 DEF LastShown
    <3>7. From(r) \in 1..next
      BY <2>3, <3>3, <3>5
    <3> QED
      BY <2>4, <3>4, <3>6, <3>7
  <2> QED
    BY <2>5, <2>6
<1>3. IInv => InsertionsAreDefined
  BY <1>1, <1>2 DEF InsertionsAreDefined
<1> QED
  BY <1>3, InvariantHolds, PTL

\* Unless a user has the id of the top leaderboard, that one is the first Count rows of the ranking.
THEOREM TopIsTopAlways ==
    ASSUME TopId \notin Ids
    PROVE  Spec => []TopIsTop
<1>1. IInv => TopIsTop
  <2>1. SUFFICES ASSUME IInv, pc = "done" PROVE TopIsTop
    BY DEF TopIsTop
  <2>2. PICK n \in Nat : n = Len(ranking)
    BY <2>1, LenProperties DEF IInv, RankingInv
  <2>3. n = Cardinality(Users)
    BY <2>1, <2>2, Collected
  <2>4. TopId \in DOMAIN leaderboards /\ leaderboards[TopId] = TopRows
    BY <2>1 DEF IInv, TopInv
  <2>5. PICK m \in 0..n : m = IF Count <= 0 THEN n ELSE IF n <= Count THEN n ELSE Count
    BY LeaderboardsAssumption
  <2>6. (IF Count <= 0 THEN n ELSE Min({n, Count})) = m
    BY <2>5, OfTwo, LeaderboardsAssumption
  <2>7. (IF Count > 0 THEN Min({Count, n}) ELSE n) = m
    BY <2>5, OfTwo, LeaderboardsAssumption
  <2>8. TopRows = SubSeq(ranking, 1, m)
    BY <2>2, <2>6 DEF TopRows
  <2>9. /\ Len(SubSeq(ranking, 1, m)) = (m - 1) + 1
        /\ \A i \in 1..(m - 1) + 1 : SubSeq(ranking, 1, m)[i] = ranking[(1 + i) - 1]
    <3>1. 1 \in 1..Len(ranking) + 1 /\ m \in 1 - 1..Len(ranking)
      BY <2>2
    <3> QED
      BY <2>1, <3>1, Pieces DEF IInv, RankingInv
  <2>10. Len(TopRows) = m /\ \A i \in 1..m : TopRows[i] = ranking[i]
    <3>1. (m - 1) + 1 = m /\ \A i \in 1..m : (1 + i) - 1 = i
      OBVIOUS
    <3> QED
      BY <2>8, <2>9, <3>1
  <2> QED
    BY <2>3, <2>4, <2>7, <2>10 DEF TopIsTop
<1> QED
  BY <1>1, InvariantHolds, PTL

=============================================================================
