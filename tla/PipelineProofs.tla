--------------------------- MODULE PipelineProofs ---------------------------
(***************************************************************************)
(* What is acked is stored, or was a deal that another one raced with in   *)
(* MongoDB; no delivery has its effect twice, a score is the sum of the    *)
(* deals that had theirs, and a refusal has a reason: for any messages,    *)
(* processors, crashes and failures of the storage.                        *)
(***************************************************************************)
EXTENDS Pipeline, FiniteSetTheorems, TLAPS

-----------------------------------------------------------------------------
(* The inductive invariant                                                 *)

\* The parts of the type invariant the argument needs.
ShapeInv ==
    /\ script \in Seq(Range(script))
    /\ published \in 0..Len(script)
    /\ verdict \in [Messages -> {"none", "acked", "rejected"}]
    /\ queue \in Seq(Messages)
    /\ item \in [Clients -> Messages \cup {0}]
    /\ parsed \in [Clients -> {"none", "SUCCESS", "FAILED", "INVALID_FORMAT", "CMD_NOT_SUPPORTED"}]
    /\ call \in [Clients -> {RequestOf(script[m]) : m \in Messages} \cup {NoCall}]
    /\ reply \in [Clients -> {"none", "SUCCESS", "ERROR"}]
    /\ crashes \in Nat
    /\ failures \in Nat
    /\ applied \in [Messages -> Nat]

\* A message that waits for its verdict is in the queue once or with one processor.
PlaceInv ==
    /\ \A m \in unsettled : m \in Messages /\ verdict[m] = "none"
    /\ \A i \in DOMAIN queue :
         /\ queue[i] \in unsettled
         /\ \A j \in DOMAIN queue : queue[i] = queue[j] => i = j
         /\ \A p \in Clients : item[p] # queue[i]
    /\ \A p \in Clients : item[p] # 0 =>
         /\ item[p] \in unsettled
         /\ \A q \in Clients : item[p] = item[q] => p = q

\* Where a processor is: it has a message, calls the storage with it if it is well-formed,
\* gets a reply, returns from the parser.
CallInv ==
    \A p \in Clients :
        /\ reply[p] # "none" => call[p] # NoCall
        /\ call[p] # NoCall =>
             item[p] # 0 /\ parsed[p] = "none" /\ IsWellFormed(script[item[p]])
        /\ parsed[p] # "none" => item[p] # 0

NothingKept == storageType # "MONGODB" /\ crashes > 0

Succeeded(p) == reply[p] = "SUCCESS" \/ parsed[p] = "SUCCESS"
Failed(p) == reply[p] = "ERROR" \/ parsed[p] \notin {"none", "SUCCESS"}

\* A message that is still to be tried has had no effect since the last crash.
FreshInv ==
    \A m \in Messages :
        verdict[m] = "none" /\ (\A p \in Clients : item[p] = m => ~Succeeded(p) /\ ~Failed(p))
            => applied[m] <= crashes

\* What a processor was told is true.
ToldInv ==
    \A p \in Clients : item[p] # 0 =>
        /\ Succeeded(p) => applied[item[p]] > 0 \/ NothingKept \/ Raced(item[p])
        /\ Failed(p) /\ applied[item[p]] > 0 => failures + crashes > 0

\* The requests of a deal: one that is about to add an entry, and has found none to
\* increment, finds one only if another deal was stored in between.
RaceInv ==
    /\ request \in [Clients -> {"first", "inc", "add"}]
    /\ \A p \in Clients : request[p] # "first" =>
         storageType = "MONGODB" /\ IsDeal(p) /\ reply[p] = "none"
    /\ \A p \in Clients :
         request[p] = "add" /\ call[p].amount # 0 /\ Entries(p) # <<>> => Raced(item[p])

IInv == ShapeInv /\ PlaceInv /\ CallInv /\ FreshInv /\ ToldInv /\ AckedIsStored /\ EffectsAreCounted

-----------------------------------------------------------------------------
(* Numbers and sums                                                        *)

\* A set of natural numbers that is not empty has a least element: what holds of 0 and
\* of n + 1 when it holds of n is proved from a least number that it does not hold of.
LEMMA LeastNumber ==
    ASSUME NEW T, T \subseteq Nat, T # {}
    PROVE  \E n \in T : \A k \in T : ~(k < n)
<1> DEFINE R == OpToRel(<, Nat)
<1>1. PICK n \in T : \A k \in T : <<k, n>> \notin R
  <2>1. IsWellFoundedOn(R, Nat)
    BY NatLessThanWellFounded
  <2> HIDE DEF R
  <2> QED
    BY <2>1, WFMin
<1>2. ASSUME NEW k \in T, k < n PROVE FALSE
  <2>1. k \in Nat /\ n \in Nat
    OBVIOUS
  <2>2. <<k, n>> \in R
    BY <1>2, <2>1 DEF OpToRel
  <2> QED
    BY <1>1, <2>2
<1> QED
  BY <1>1, <1>2

\* Positions up to n have a last one, and Max is it: the least bound of theirs.
LEMMA LastPosition ==
    ASSUME NEW n \in Nat, NEW T, T \subseteq 1..n, T # {}
    PROVE  Max(T) \in T /\ \A x \in T : Max(T) >= x
<1> DEFINE Bounds == {b \in Nat : \A x \in T : x <= b}
<1>1. n \in Bounds /\ Bounds \subseteq Nat
  OBVIOUS
<1>2. PICK b \in Bounds : \A k \in Bounds : ~(k < b)
  <2> HIDE DEF Bounds
  <2> QED
    BY <1>1, LeastNumber
<1>3. b \in Nat /\ \A x \in T : x \in Nat /\ 1 <= x /\ x <= b
  OBVIOUS
<1>4. b \in T
  <2>1. SUFFICES ASSUME b \notin T PROVE b - 1 \in Bounds
    <3>1. b - 1 < b
      BY <1>3
    <3> QED
      BY <1>2, <2>1, <3>1
  <2>2. \A x \in T : x <= b - 1
    BY <1>3, <2>1
  <2>3. b - 1 \in Nat
    <3>1. \E x \in T : 1 <= x /\ x <= b
      BY <1>3
    <3> QED
      BY <1>3, <3>1
  <2> QED
    BY <2>2, <2>3
<1>5. b \in T /\ \A x \in T : b >= x
  BY <1>3, <1>4
<1> QED
  BY <1>5 DEF Max

\* h gives the sums of the first numbers of share.
Sums(share, n, h) == h[0] = 0 /\ \A k \in 1..n : h[k] = h[k - 1] + share[k]

\* The recursion of Sum has the values of a function that does what it says.
LEMMA SumIsLast ==
    ASSUME NEW n \in Nat, NEW share, NEW h \in [0..n -> Int], Sums(share, n, h)
    PROVE  Sum(share, n) = h[n]
<1> DEFINE Fits(c) == c = [k \in 0..n |-> IF k = 0 THEN 0 ELSE c[k - 1] + share[k]]
           c == CHOOSE d : Fits(d)
           T == {k \in 0..n : c[k] # h[k]}
<1>1. Fits(h)
  <2>1. \A k \in 0..n : k # 0 => k \in 1..n
    OBVIOUS
  <2>2. \A k \in 0..n : h[k] = IF k = 0 THEN 0 ELSE h[k - 1] + share[k]
    BY <2>1 DEF Sums
  <2> QED
    BY <2>2
<1>2. Fits(c)
  BY <1>1
<1>3. Sum(share, n) = c[n]
  BY DEF Sum
<1> HIDE DEF c
<1>4. T = {}
  <2>1. SUFFICES ASSUME T # {} PROVE FALSE
    OBVIOUS
  <2>2. PICK k \in T : \A j \in T : ~(j < k)
    <3>1. T \subseteq Nat
      OBVIOUS
    <3> HIDE DEF T
    <3> QED
      BY <2>1, <3>1, LeastNumber
  <2>3. k \in 0..n /\ c[k] # h[k] /\ c[k] = IF k = 0 THEN 0 ELSE c[k - 1] + share[k]
    BY <1>2, <2>2
  <2>4. k \in 1..n
    BY <2>3 DEF Sums
  <2>5. k - 1 \in 0..n /\ k - 1 < k
    BY <2>4
  <2>6. c[k - 1] = h[k - 1]
    BY <2>2, <2>5
  <2>7. h[k] = h[k - 1] + share[k]
    BY <2>4 DEF Sums
  <2> QED
    BY <2>3, <2>4, <2>6, <2>7
<1> QED
  BY <1>3, <1>4

\* There is one for any integers.
LEMMA SumsExist ==
    ASSUME NEW n \in Nat, NEW share, \A k \in 1..n : share[k] \in Int
    PROVE  \E h \in [0..n -> Int] : Sums(share, n, h)
<1> DEFINE T == {m \in 0..n : ~ \E h \in [0..m -> Int] : Sums(share, m, h)}
<1>1. SUFFICES ASSUME T # {} PROVE FALSE
  <2>1. n \in 0..n
    OBVIOUS
  <2> QED
    BY <1>1, <2>1
<1>2. PICK m \in T : \A k \in T : ~(k < m)
  <2>1. T \subseteq Nat
    OBVIOUS
  <2> HIDE DEF T
  <2> QED
    BY <1>1, <2>1, LeastNumber
<1>3. m # 0
  <2>1. SUFFICES ASSUME m = 0 PROVE FALSE
    OBVIOUS
  <2> DEFINE h == [k \in 0..0 |-> 0]
  <2>2. h \in [0..0 -> Int] /\ Sums(share, 0, h)
    BY DEF Sums
  <2> QED
    BY <1>2, <2>1, <2>2
<1>4. m \in 1..n /\ m - 1 \in 0..n /\ m - 1 < m
  BY <1>3
<1>5. PICK h \in [0..m - 1 -> Int] : Sums(share, m - 1, h)
  BY <1>2, <1>4
<1> DEFINE g == [k \in 0..m |-> IF k = m THEN h[m - 1] + share[m] ELSE h[k]]
<1>6. h[m - 1] + share[m] \in Int
  BY <1>4
<1>7. \A k \in 0..m : k # m => k \in 0..m - 1
  BY <1>4
<1>8. g \in [0..m -> Int]
  BY <1>6, <1>7
<1>9. \A k \in 1..m : g[k] = g[k - 1] + share[k]
  <2> TAKE k \in 1..m
  <2>1. k \in 0..m /\ k - 1 \in 0..m /\ k - 1 # m /\ g[k - 1] = h[k - 1]
    BY <1>4
  <2>2. CASE k = m
    BY <2>1, <2>2
  <2>3. CASE k # m
    <3>1. k \in 1..m - 1
      BY <1>4, <2>3
    <3>2. h[k] = h[k - 1] + share[k]
      BY <1>5, <3>1 DEF Sums
    <3> QED
      BY <2>1, <2>3, <3>2
  <2> QED
    BY <2>2, <2>3
<1>10. g[0] = 0
  BY <1>4, <1>5 DEF Sums
<1> HIDE DEF g
<1>11. Sums(share, m, g)
  BY <1>9, <1>10 DEF Sums
<1> QED
  BY <1>2, <1>8, <1>11

\* Sums of integers are integers.
LEMMA SumIsInteger ==
    ASSUME NEW n \in Nat, NEW share, \A k \in 1..n : share[k] \in Int
    PROVE  Sum(share, n) \in Int
<1>1. PICK h \in [0..n -> Int] : Sums(share, n, h)
  BY SumsExist
<1>2. Sum(share, n) = h[n] /\ n \in 0..n
  BY <1>1, SumIsLast
<1> QED
  BY <1>2

\* Adding to one number adds to the sum.
LEMMA SumGrows ==
    ASSUME NEW n \in Nat, NEW f, NEW g, \A k \in 1..n : f[k] \in Int,
           NEW m \in 1..n, NEW a \in Int, g[m] = f[m] + a,
           \A k \in 1..n : k # m => g[k] = f[k]
    PROVE  Sum(g, n) = Sum(f, n) + a
<1>1. PICK h \in [0..n -> Int] : Sums(f, n, h)
  BY SumsExist
<1> DEFINE more == [k \in 0..n |-> IF k < m THEN h[k] ELSE h[k] + a]
<1>2. more \in [0..n -> Int]
  OBVIOUS
<1>3. more[0] = 0
  BY <1>1 DEF Sums
<1>4. \A k \in 1..n : more[k] = more[k - 1] + g[k]
  <2> TAKE k \in 1..n
  <2>1. k \in 0..n /\ k - 1 \in 0..n /\ h[k] = h[k - 1] + f[k] /\ f[k] \in Int /\ h[k - 1] \in Int
    BY <1>1 DEF Sums
  <2>2. CASE k < m
    <3>1. k - 1 < m /\ g[k] = f[k]
      BY <2>2
    <3> QED
      BY <2>1, <2>2, <3>1
  <2>3. CASE k = m
    <3>1. k - 1 < m /\ ~(k < m) /\ g[k] = f[k] + a
      BY <2>3
    <3> QED
      BY <2>1, <3>1
  <2>4. CASE k > m
    <3>1. ~(k - 1 < m) /\ ~(k < m) /\ g[k] = f[k]
      BY <2>4
    <3> QED
      BY <2>1, <3>1
  <2> QED
    BY <2>2, <2>3, <2>4
<1>5. Sums(g, n, more)
  <2> HIDE DEF more
  <2> QED
    BY <1>3, <1>4 DEF Sums
<1>6. Sum(g, n) = more[n] /\ Sum(f, n) = h[n]
  <2> HIDE DEF more
  <2> QED
    BY <1>1, <1>2, <1>5, SumIsLast
<1>7. n \in 0..n /\ ~(n < m)
  OBVIOUS
<1> QED
  BY <1>6, <1>7

\* Equal numbers have equal sums, and one more adds to it.
LEMMA SumExtends ==
    ASSUME NEW n \in Nat, NEW f, NEW g, \A k \in 1..n : f[k] \in Int,
           NEW a \in Int, g[n + 1] = a, \A k \in 1..n : g[k] = f[k]
    PROVE  Sum(g, n + 1) = Sum(f, n) + a
<1>1. PICK h \in [0..n -> Int] : Sums(f, n, h)
  BY SumsExist
<1> DEFINE more == [k \in 0..(n + 1) |-> IF k = n + 1 THEN h[n] + a ELSE h[k]]
<1>2. more \in [0..(n + 1) -> Int]
  <2>1. \A k \in 0..(n + 1) : k # n + 1 => k \in 0..n
    OBVIOUS
  <2>2. n \in 0..n
    OBVIOUS
  <2> QED
    BY <2>1, <2>2
<1>3. more[0] = 0
  BY <1>1 DEF Sums
<1>4. \A k \in 1..(n + 1) : more[k] = more[k - 1] + g[k]
  <2> TAKE k \in 1..(n + 1)
  <2>1. k \in 0..(n + 1) /\ k - 1 \in 0..(n + 1) /\ k - 1 # n + 1 /\ more[k - 1] = h[k - 1]
    OBVIOUS
  <2>2. CASE k = n + 1
    BY <2>1, <2>2
  <2>3. CASE k # n + 1
    <3>1. k \in 1..n
      BY <2>3
    <3>2. h[k] = h[k - 1] + f[k]
      BY <1>1, <3>1 DEF Sums
    <3> QED
      BY <2>1, <2>3, <3>1, <3>2
  <2> QED
    BY <2>2, <2>3
<1>5. Sums(g, n + 1, more)
  <2> HIDE DEF more
  <2> QED
    BY <1>3, <1>4 DEF Sums
<1>6. Sum(g, n + 1) = more[n + 1] /\ Sum(f, n) = h[n]
  <2>1. n + 1 \in Nat
    OBVIOUS
  <2> HIDE DEF more
  <2> QED
    BY <1>1, <1>2, <1>5, <2>1, SumIsLast
<1>7. n + 1 \in 0..(n + 1)
  OBVIOUS
<1> QED
  BY <1>6, <1>7

\* Zeros add up to zero.
LEMMA SumOfZeros ==
    ASSUME NEW n \in Nat, NEW share, \A k \in 1..n : share[k] = 0
    PROVE  Sum(share, n) = 0
<1> DEFINE h == [k \in 0..n |-> 0]
<1>1. h \in [0..n -> Int] /\ h[n] = 0
  OBVIOUS
<1>2. Sums(share, n, h)
  BY DEF Sums
<1> HIDE DEF h
<1> QED
  BY <1>1, <1>2, SumIsLast

-----------------------------------------------------------------------------
(* Facts about the queue                                                   *)

LEMMA MessagesAreNumbers ==
    ASSUME ShapeInv
    PROVE  Messages = 1..Len(script) /\ Len(script) \in Nat /\ 0 \notin Messages
  BY DEF ShapeInv, Messages

\* Append puts a new element behind the others.
LEMMA AppendElements ==
    ASSUME NEW T, NEW s \in Seq(T), NEW e \in T
    PROVE  /\ Append(s, e) \in Seq(T)
           /\ \A i \in DOMAIN Append(s, e) :
                \/ i \in DOMAIN s /\ Append(s, e)[i] = s[i]
                \/ i = Len(s) + 1 /\ Append(s, e)[i] = e
           /\ DOMAIN s \subseteq 1..Len(s) /\ Len(s) \in Nat
  OBVIOUS

\* Tail drops the first element.
LEMMA TailElements ==
    ASSUME NEW T, NEW s \in Seq(T), s # <<>>
    PROVE  /\ Tail(s) \in Seq(T)
           /\ Head(s) = s[1] /\ 1 \in DOMAIN s /\ s[1] \in T
           /\ \A i \in DOMAIN Tail(s) : i \in Nat /\ i + 1 \in DOMAIN s /\ i + 1 # 1 /\ Tail(s)[i] = s[i + 1]
  OBVIOUS

-----------------------------------------------------------------------------

(* Races                                                                   *)

\* A race stays one: what was applied in MongoDB stays so.
LEMMA RacedStays ==
    ASSUME UNCHANGED <<script, storageType>>, NEW m, overtaken'[m] = overtaken[m],
           \A k \in Messages : applied[k] > 0 => applied'[k] > 0,
           Raced(m)
    PROVE  Raced(m)'
  BY DEF Raced, Races, DealsOf, Messages

LEMMA RacedSame ==
    ASSUME UNCHANGED <<script, storageType, overtaken, applied>>
    PROVE  \A m : Raced(m)' <=> Raced(m)
  BY DEF Raced, Races, DealsOf, Messages

-----------------------------------------------------------------------------

LEMMA InitIInv == Init => IInv
<1> SUFFICES ASSUME Init PROVE IInv
  OBVIOUS
<1> USE DEF Init, S!Init, Messages
<1>1. ShapeInv
  BY ScriptsAssumption DEF ShapeInv
<1>2. PlaceInv /\ CallInv
  BY DEF PlaceInv, CallInv
<1>3. FreshInv /\ ToldInv
  BY DEF FreshInv, ToldInv
<1>4. AckedIsStored /\ EffectsAreCounted
  BY DEF AckedIsStored, EffectsAreCounted
<1> QED
  BY <1>1, <1>2, <1>3, <1>4 DEF IInv

-----------------------------------------------------------------------------
(* The broker and the queue                                                *)

LEMMA PublishStep ==
    ASSUME IInv, Publish
    PROVE  IInv'
<1> USE DEF IInv, Publish, storageVars, dataVars, logicVars, historyVars, Messages
<1>1. ShapeInv'
  BY DEF ShapeInv
<1>2. PlaceInv' /\ CallInv'
  BY DEF PlaceInv, CallInv
<1>3. FreshInv' /\ ToldInv'
  BY RacedSame DEF FreshInv, ToldInv, Succeeded, Failed, NothingKept
<1>4. AckedIsStored' /\ EffectsAreCounted'
  BY RacedSame DEF AckedIsStored, EffectsAreCounted
<1> QED
  BY <1>1, <1>2, <1>3, <1>4

LEMMA DeliverStep ==
    ASSUME IInv, Deliver
    PROVE  IInv'
<1> USE DEF IInv
<1>1. PICK m \in Messages :
        /\ m \notin unsettled /\ verdict[m] = "none"
        /\ unsettled' = unsettled \cup {m}
        /\ queue' = Append(queue, m)
  BY MessagesAreNumbers DEF Deliver, Waiting, ShapeInv
<1>2. UNCHANGED <<script, storageType, published, verdict, item, parsed, call, reply,
                  crashes, failures, applied, overtaken>>
  BY DEF Deliver, storageVars, historyVars
<1>3. queue \in Seq(Messages)
  BY DEF ShapeInv
<1>4. ShapeInv'
  BY <1>1, <1>2, <1>3, AppendElements DEF ShapeInv, Messages
<1>5. PlaceInv'
  <2>1. \A k \in DOMAIN queue : queue[k] # m
    BY <1>1 DEF PlaceInv
  <2>2. \A p \in Clients : item[p] # m
    BY <1>1, MessagesAreNumbers DEF PlaceInv
  <2>3. \A i \in DOMAIN queue' :
          \/ i \in DOMAIN queue /\ queue'[i] = queue[i]
          \/ i = Len(queue) + 1 /\ queue'[i] = m
    BY <1>1, <1>3, AppendElements
  <2>4. \A k \in unsettled' : k \in Messages' /\ verdict'[k] = "none"
    BY <1>1, <1>2 DEF PlaceInv, Messages
  <2>5. \A i \in DOMAIN queue' :
          /\ queue'[i] \in unsettled'
          /\ \A j \in DOMAIN queue' : queue'[i] = queue'[j] => i = j
          /\ \A p \in Clients : item'[p] # queue'[i]
    BY <1>1, <1>2, <2>1, <2>2, <2>3 DEF PlaceInv
  <2>6. \A p \in Clients : item'[p] # 0 =>
          item'[p] \in unsettled' /\ \A q \in Clients : item'[p] = item'[q] => p = q
    BY <1>1, <1>2 DEF PlaceInv
  <2> QED
    BY <2>4, <2>5, <2>6 DEF PlaceInv
<1>6. CallInv' /\ FreshInv' /\ ToldInv'
  BY <1>2, RacedSame DEF CallInv, FreshInv, ToldInv, Succeeded, Failed, NothingKept, Messages
<1>7. AckedIsStored' /\ EffectsAreCounted'
  BY <1>2, RacedSame DEF AckedIsStored, EffectsAreCounted, Messages
<1> QED
  BY <1>4, <1>5, <1>6, <1>7

LEMMA TakeStep ==
    ASSUME IInv, NEW p \in Clients, Take(p)
    PROVE  IInv'
<1> USE DEF IInv
<1> DEFINE m == Head(queue)
<1>1. /\ item[p] = 0 /\ queue # <<>>
      /\ item' = [item EXCEPT ![p] = m]
      /\ queue' = Tail(queue)
      /\ \A k : k # m => overtaken'[k] = overtaken[k]
      /\ UNCHANGED <<script, storageType, published, unsettled, verdict, parsed, call, reply,
                     crashes, failures, applied>>
  BY DEF Take, FrontOfQueue, brokerVars, storageVars
<1>2. /\ queue' \in Seq(Messages)
      /\ m = queue[1] /\ 1 \in DOMAIN queue /\ m \in Messages
      /\ \A i \in DOMAIN queue' :
           i \in Nat /\ i + 1 \in DOMAIN queue /\ i + 1 # 1 /\ queue'[i] = queue[i + 1]
  BY <1>1, TailElements DEF ShapeInv
<1>3. m # 0 /\ m \in unsettled /\ verdict[m] = "none" /\ \A q \in Clients : item[q] # m
  BY <1>2, MessagesAreNumbers DEF PlaceInv
<1>4. parsed[p] = "none" /\ call[p] = NoCall /\ reply[p] = "none"
  BY <1>1 DEF CallInv
<1> HIDE DEF m
<1>5. item'[p] = m /\ \A q \in Clients : q # p => item'[q] = item[q]
  BY <1>1 DEF ShapeInv
<1>6. ShapeInv'
  BY <1>1, <1>2 DEF ShapeInv, Messages
<1>7. PlaceInv'
  <2>1. \A k \in unsettled' : k \in Messages' /\ verdict'[k] = "none"
    BY <1>1 DEF PlaceInv, Messages
  <2>2. ASSUME NEW i \in DOMAIN queue'
        PROVE  /\ queue'[i] \in unsettled'
               /\ \A j \in DOMAIN queue' : queue'[i] = queue'[j] => i = j
               /\ \A q \in Clients : item'[q] # queue'[i]
    <3>1. queue'[i] \in unsettled' /\ queue'[i] # m
      BY <1>1, <1>2 DEF PlaceInv
    <3>2. \A j \in DOMAIN queue' : queue'[i] = queue'[j] => i = j
      <4> TAKE j \in DOMAIN queue'
      <4> HAVE queue'[i] = queue'[j]
      <4>1. i + 1 = j + 1
        BY <1>2 DEF PlaceInv
      <4> QED
        BY <4>1, <1>2
    <3>3. \A q \in Clients : item'[q] # queue'[i]
      BY <1>2, <1>5, <3>1 DEF PlaceInv
    <3> QED
      BY <3>1, <3>2, <3>3
  <2>3. \A q \in Clients : item'[q] # 0 =>
          item'[q] \in unsettled' /\ \A r \in Clients : item'[q] = item'[r] => q = r
    BY <1>1, <1>3, <1>5 DEF PlaceInv
  <2> QED
    BY <2>1, <2>2, <2>3 DEF PlaceInv
<1>8. CallInv'
  BY <1>1, <1>4, <1>5 DEF CallInv
<1>9. FreshInv'
  BY <1>1, <1>3, <1>4, <1>5 DEF FreshInv, Succeeded, Failed, Messages
<1>12. \A k : k # m /\ Raced(k) => Raced(k)'
  BY <1>1, RacedStays
<1>10. ToldInv'
  BY <1>1, <1>3, <1>4, <1>5, <1>12 DEF ToldInv, Succeeded, Failed, NothingKept
<1>11. AckedIsStored' /\ EffectsAreCounted'
  BY <1>1, <1>3, <1>12 DEF AckedIsStored, EffectsAreCounted, Messages
<1> QED
  BY <1>6, <1>7, <1>8, <1>9, <1>10, <1>11

-----------------------------------------------------------------------------
(* The parser and the storage                                              *)

\* A step of a processor that keeps its message
LEMMA PlaceStays ==
    ASSUME PlaceInv, UNCHANGED <<script, unsettled, verdict, queue, item>>
    PROVE  PlaceInv'
  BY DEF PlaceInv, Messages

LEMMA ParseStep ==
    ASSUME IInv, NEW p \in Clients, ParseWellFormed(p) \/ ParseMalformed(p)
    PROVE  IInv'
<1> USE DEF IInv
<1>1. CASE ParseWellFormed(p)
  <2>1. /\ item[p] \in Messages /\ item[p] # 0 /\ IsWellFormed(script[item[p]])
        /\ parsed[p] = "none" /\ call[p] = NoCall /\ reply[p] = "none"
        /\ call' = [call EXCEPT ![p] = RequestOf(script[item[p]])]
        /\ \A q \in Clients : q # p => call'[q] = call[q]
        /\ UNCHANGED <<brokerVars, logicVars, reply, historyVars>>
    BY <1>1 DEF ParseWellFormed, ShapeInv, CallInv
  <2> USE DEF brokerVars, logicVars, historyVars
  <2>2. ShapeInv'
    BY <2>1 DEF ShapeInv, Messages
  <2>3. PlaceInv'
    BY <2>1, PlaceStays
  <2>4. CallInv'
    <3>1. script' = script /\ item' = item /\ parsed' = parsed /\ reply' = reply
      BY <2>1
    <3>2. ASSUME NEW q \in Clients
          PROVE  /\ reply[q] # "none" => call'[q] # NoCall
                 /\ call'[q] # NoCall =>
                      item[q] # 0 /\ parsed[q] = "none" /\ IsWellFormed(script[item[q]])
                 /\ parsed[q] # "none" => item[q] # 0
      BY <2>1 DEF CallInv
    <3> QED
      BY <3>1, <3>2 DEF CallInv
  <2>5. FreshInv' /\ ToldInv' /\ AckedIsStored' /\ EffectsAreCounted'
    BY <2>1, RacedSame
    DEF FreshInv, ToldInv, Succeeded, Failed, NothingKept, AckedIsStored, EffectsAreCounted, Messages
  <2> QED
    BY <2>2, <2>3, <2>4, <2>5
<1>2. CASE ParseMalformed(p)
  <2>1. /\ item[p] \in Messages /\ item[p] # 0 /\ ~IsWellFormed(script[item[p]])
        /\ parsed[p] = "none" /\ call[p] = NoCall /\ reply[p] = "none"
        /\ parsed' = [parsed EXCEPT ![p] = ParseError(script[item[p]])]
        /\ ParseError(script[item[p]]) \in {"INVALID_FORMAT", "CMD_NOT_SUPPORTED"}
        /\ UNCHANGED <<brokerVars, queue, item, storageVars, historyVars>>
    BY <1>2 DEF ParseMalformed, ParseError, ShapeInv, CallInv
  <2> USE DEF brokerVars, storageVars, historyVars
  <2>2. ShapeInv'
    BY <2>1 DEF ShapeInv, Messages
  <2>3. PlaceInv'
    BY <2>1, PlaceStays
  <2>4. CallInv'
    <3>1. script' = script /\ item' = item /\ call' = call /\ reply' = reply
      BY <2>1
    <3>2. ASSUME NEW q \in Clients
          PROVE  /\ reply[q] # "none" => call[q] # NoCall
                 /\ call[q] # NoCall =>
                      item[q] # 0 /\ parsed'[q] = "none" /\ IsWellFormed(script[item[q]])
                 /\ parsed'[q] # "none" => item[q] # 0
      <4>1. CASE q = p
        BY <2>1, <4>1 DEF CallInv, ShapeInv
      <4>2. CASE q # p
        <5>1. parsed'[q] = parsed[q]
          BY <2>1, <4>2 DEF ShapeInv
        <5> QED
          BY <5>1 DEF CallInv
      <4> QED
        BY <4>1, <4>2
    <3> QED
      BY <3>1, <3>2 DEF CallInv
  <2>5. FreshInv'
    BY <2>1 DEF FreshInv, Succeeded, Failed, ShapeInv, Messages
  <2>6. applied[item[p]] = 0
    BY <2>1 DEF EffectsAreCounted
  <2>7. ToldInv'
    BY <2>1, <2>6, RacedSame DEF ToldInv, Succeeded, Failed, NothingKept, ShapeInv
  <2>8. AckedIsStored' /\ EffectsAreCounted'
    BY <2>1, RacedSame DEF AckedIsStored, EffectsAreCounted, Messages
  <2> QED
    BY <2>2, <2>3, <2>4, <2>5, <2>7, <2>8
<1> QED
  BY <1>1, <1>2

\* The storage answers; applied counts the effect, if the call had one.
LEMMA AnswerStep ==
    ASSUME IInv, NEW p \in Clients, NEW effect \in {0, 1}, NEW failure \in {0, 1},
           call[p] # NoCall,
           reply[p] = "none",
           reply' \in {[reply EXCEPT ![p] = "SUCCESS"], [reply EXCEPT ![p] = "ERROR"]},
           reply'[p] = "SUCCESS" => effect = 1 \/ Raced(item[p]),
           reply'[p] = "ERROR" /\ effect = 1 => failure = 1,
           failures' = failures + failure,
           applied' = [applied EXCEPT ![item[p]] = @ + effect],
           UNCHANGED <<script, storageType, published, unsettled, verdict,
                       queue, item, parsed, call, crashes, overtaken>>
    PROVE  IInv'
<1> USE DEF IInv
<1> DEFINE m == item[p]
<1>1. m \in Messages /\ m # 0 /\ parsed[p] = "none" /\ IsWellFormed(script[m])
  BY DEF CallInv, ShapeInv
<1>2. verdict[m] = "none" /\ \A q \in Clients : item[q] = m => q = p
  BY <1>1 DEF PlaceInv
<1>3. applied[m] <= crashes
  BY <1>1, <1>2 DEF FreshInv, Succeeded, Failed
<1>4. /\ applied' \in [Messages -> Nat]
      /\ applied'[m] = applied[m] + effect
      /\ \A k \in Messages : k # m => applied'[k] = applied[k]
  BY <1>1 DEF ShapeInv
<1>5. /\ reply' \in [Clients -> {"none", "SUCCESS", "ERROR"}]
      /\ reply'[p] \in {"SUCCESS", "ERROR"}
      /\ \A q \in Clients : q # p => reply'[q] = reply[q]
  BY DEF ShapeInv
<1>7. PlaceInv'
  BY PlaceStays
<1>8. CallInv'
  BY <1>5 DEF CallInv
<1>9. crashes \in Nat /\ failures \in Nat /\ applied \in [Messages -> Nat] /\ effect \in Nat
      /\ failures' \in Nat /\ failures' >= failures /\ (failure = 1 => failures' > 0)
  BY DEF ShapeInv
<1>6. ShapeInv'
  BY <1>4, <1>5, <1>9, SMTT(60) DEF ShapeInv, Messages
<1>14. \A k : Raced(k) => Raced(k)'
  <2>1. \A k \in Messages : applied[k] > 0 => applied'[k] > 0
    BY <1>1, <1>4, <1>9
  <2> QED
    BY <2>1, RacedStays
<1> HIDE DEF m
<1>10. FreshInv'
  <2> SUFFICES ASSUME NEW k \in Messages, verdict[k] = "none",
                      \A q \in Clients : item[q] = k => ~Succeeded(q)' /\ ~Failed(q)'
               PROVE  applied'[k] <= crashes
    BY DEF FreshInv, Messages
  <2>1. k # m
    BY <1>5 DEF Succeeded, Failed, m
  <2>2. \A q \in Clients : item[q] = k => ~Succeeded(q) /\ ~Failed(q)
    BY <2>1, <1>5 DEF Succeeded, Failed, m
  <2> QED
    BY <2>1, <2>2, <1>4 DEF FreshInv
<1>11. ToldInv'
  <2> SUFFICES ASSUME NEW q \in Clients, item[q] # 0
               PROVE  /\ Succeeded(q)' => applied'[item[q]] > 0 \/ NothingKept \/ Raced(item[q])'
                      /\ Failed(q)' /\ applied'[item[q]] > 0 => failures' + crashes > 0
    BY DEF ToldInv, NothingKept
  <2>1. CASE q = p
    <3>1. Succeeded(p)' => applied'[m] > 0 \/ Raced(m)'
      <4>1. Succeeded(p)' => effect = 1 \/ Raced(m)'
        BY <1>1, <1>14 DEF Succeeded, m
      <4>2. effect = 1 => applied'[m] > 0
        BY <1>1, <1>4, <1>9
      <4> QED
        BY <4>1, <4>2
    <3>2. Failed(p)' /\ effect = 1 => failures' + crashes > 0
      <4>1. Failed(p)' => reply'[p] = "ERROR"
        BY <1>1 DEF Failed
      <4>2. reply'[p] = "ERROR" /\ effect = 1 => failures' + crashes > 0
        BY <1>9
      <4> QED
        BY <4>1, <4>2
    <3>3. effect = 0 /\ applied'[m] > 0 => failures' + crashes > 0
      BY <1>1, <1>3, <1>4, <1>9
    <3> QED
      BY <2>1, <3>1, <3>2, <3>3 DEF m
  <2>2. CASE q # p
    <3>1. item[q] # m /\ item[q] \in Messages
      BY <2>2, <1>2 DEF ShapeInv
    <3>2. (Succeeded(q)' <=> Succeeded(q)) /\ (Failed(q)' <=> Failed(q))
      BY <2>2, <1>5 DEF Succeeded, Failed
    <3> QED
      BY <3>1, <3>2, <1>4, <1>9, <1>14 DEF ToldInv
  <2> QED
    BY <2>1, <2>2
<1>12. AckedIsStored'
  BY <1>1, <1>2, <1>4, <1>9, <1>14 DEF AckedIsStored, Messages
<1>13. EffectsAreCounted'
  BY <1>1, <1>2, <1>3, <1>4, <1>9 DEF EffectsAreCounted, Messages
<1> QED
  BY <1>6, <1>7, <1>8, <1>10, <1>11, <1>12, <1>13

\* What the three ways to answer have in common
LEMMA StorageChanges ==
    ASSUME NEW p \in Clients, StorageSucceeds(p) \/ StorageRefuses(p) \/ StorageFails(p)
    PROVE  /\ call[p] # NoCall /\ reply[p] = "none"
           /\ request' = [request EXCEPT ![p] = "first"]
           /\ UNCHANGED <<script, storageType, published, unsettled, verdict,
                          queue, item, parsed, call, crashes, overtaken>>
           /\ \/ /\ TakesEffect(p)
                 /\ reply' = [reply EXCEPT ![p] = "SUCCESS"] /\ failures' = failures
              \/ /\ TakesEffect(p)
                 /\ reply' = [reply EXCEPT ![p] = "ERROR"] /\ failures' = failures + 1
                 /\ failures < MaxFailures
              \/ /\ UNCHANGED <<names, scores, connected, applied>>
                 /\ reply' = [reply EXCEPT ![p] = "ERROR"]
                 /\ \/ failures' = failures /\ S!Futile(call[p])
                    \/ failures' = failures + 1 /\ failures < MaxFailures
<1> USE DEF Answer, S!Answer, brokerVars, logicVars, historyVars, dataVars
<1>1. CASE StorageSucceeds(p)
  BY <1>1 DEF StorageSucceeds
<1>2. CASE StorageRefuses(p)
  BY <1>2 DEF StorageRefuses
<1>3. CASE StorageFails(p)
  BY <1>3 DEF StorageFails
<1> QED
  BY <1>1, <1>2, <1>3

\* An effect is counted, or it is none.
LEMMA EffectKinds ==
    ASSUME NEW p \in Clients, TakesEffect(p)
    PROVE  \/ Lost(p) /\ DealTakesEffect(p) /\ UNCHANGED <<names, scores, connected, applied>>
           \/ /\ ~Lost(p)
              /\ DealTakesEffect(p) \/ OtherTakesEffect(p)
              /\ applied' = [applied EXCEPT ![item[p]] = @ + 1]
<1>1. DealTakesEffect(p) => UNCHANGED <<names, connected>>
  BY DEF DealTakesEffect, StoreDeal, IncrementScore, AddScore, SetEntries
<1>2. Lost(p) => ~OtherTakesEffect(p) /\ scores' = scores
  BY DEF Lost, OtherTakesEffect
<1> QED
  BY <1>1, <1>2 DEF TakesEffect

LEMMA StorageStep ==
    ASSUME IInv, NEW p \in Clients, StorageSucceeds(p) \/ StorageRefuses(p) \/ StorageFails(p),
           TakesEffect(p) /\ Lost(p) => Raced(item[p])
    PROVE  IInv'
<1>1. applied \in [Messages -> Nat] /\ failures \in Nat /\ crashes \in Nat
  BY DEF IInv, ShapeInv
<1>2. reply \in [Clients -> {"none", "SUCCESS", "ERROR"}]
  BY DEF IInv, ShapeInv
<1>3. call[p] # NoCall => item[p] \in Messages
  BY DEF IInv, CallInv, ShapeInv
<1> DEFINE Change(answer, effect, failure) ==
      /\ call[p] # NoCall /\ reply[p] = "none"
      /\ reply' = [reply EXCEPT ![p] = answer]
      /\ failures' = failures + failure
      /\ applied' = [applied EXCEPT ![item[p]] = @ + effect]
      /\ UNCHANGED <<script, storageType, published, unsettled, verdict,
                     queue, item, parsed, call, crashes, overtaken>>
<1>4. call[p] # NoCall => applied = [applied EXCEPT ![item[p]] = @ + 0]
  BY <1>1, <1>3
<1>5. TakesEffect(p) =>
        \E effect \in {0, 1} : /\ applied' = [applied EXCEPT ![item[p]] = @ + effect]
                               /\ effect = 1 \/ Raced(item[p])
  <2> HAVE TakesEffect(p)
  <2>1. CASE Lost(p)
    BY <1>4, <2>1, EffectKinds, StorageChanges
  <2>2. CASE ~Lost(p)
    BY <2>2, EffectKinds
  <2> QED
    BY <2>1, <2>2
<1>6. \E answer \in {"SUCCESS", "ERROR"}, effect \in {0, 1}, failure \in {0, 1} :
        /\ Change(answer, effect, failure)
        /\ answer = "SUCCESS" => effect = 1 \/ Raced(item[p])
        /\ answer = "ERROR" /\ effect = 1 => failure = 1
  <2>1. ASSUME NEW answer, NEW effect, NEW failure,
               reply' = [reply EXCEPT ![p] = answer],
               failures' = failures + failure,
               applied' = [applied EXCEPT ![item[p]] = @ + effect]
        PROVE  Change(answer, effect, failure)
    BY <2>1, StorageChanges
  <2> HIDE DEF Change
  <2>2. failures = failures + 0
    BY <1>1
  <2>3. ASSUME TakesEffect(p), NEW answer \in {"SUCCESS", "ERROR"}, NEW failure \in {0, 1},
               answer = "ERROR" => failure = 1,
               reply' = [reply EXCEPT ![p] = answer], failures' = failures + failure
        PROVE  \E effect \in {0, 1} :
                 /\ Change(answer, effect, failure)
                 /\ effect = 1 \/ Raced(item[p])
    BY <1>5, <2>1, <2>3
  <2>4. CASE TakesEffect(p) /\ reply' = [reply EXCEPT ![p] = "SUCCESS"] /\ failures' = failures
    BY <2>2, <2>3, <2>4
  <2>5. CASE TakesEffect(p) /\ reply' = [reply EXCEPT ![p] = "ERROR"] /\ failures' = failures + 1
    BY <2>3, <2>5
  <2>6. CASE /\ applied' = applied /\ reply' = [reply EXCEPT ![p] = "ERROR"]
             /\ failures' = failures \/ failures' = failures + 1
    <3>1. applied' = [applied EXCEPT ![item[p]] = @ + 0]
      BY <1>4, <2>6, StorageChanges
    <3> QED
      BY <2>1, <2>2, <2>6, <3>1
  <2> QED
    BY <2>4, <2>5, <2>6, StorageChanges
<1>7. ASSUME NEW answer \in {"SUCCESS", "ERROR"}, NEW effect \in {0, 1}, NEW failure \in {0, 1},
             Change(answer, effect, failure),
             answer = "SUCCESS" => effect = 1 \/ Raced(item[p]),
             answer = "ERROR" /\ effect = 1 => failure = 1
      PROVE  IInv'
  <2>1. reply'[p] = answer
    BY <1>2, <1>7
  <2> QED
    BY <1>7, <2>1, AnswerStep
<1> HIDE DEF Change
<1> QED
  BY <1>6, <1>7

\* A deal goes on with its next request.
LEMMA AskStep ==
    ASSUME IInv, NEW p \in Clients, FindUser(p) \/ NothingToIncrement(p)
    PROVE  IInv'
<1> USE DEF IInv
<1>1. UNCHANGED <<brokerVars, logicVars, dataVars, call, reply, historyVars>>
  BY DEF FindUser, NothingToIncrement
<1> USE <1>1 DEF brokerVars, logicVars, historyVars, Messages
<1>2. ShapeInv' /\ PlaceInv' /\ CallInv'
  BY DEF ShapeInv, PlaceInv, CallInv
<1>3. FreshInv' /\ ToldInv'
  BY RacedSame DEF FreshInv, ToldInv, Succeeded, Failed, NothingKept
<1>4. AckedIsStored' /\ EffectsAreCounted'
  BY RacedSame DEF AckedIsStored, EffectsAreCounted
<1> QED
  BY <1>2, <1>3, <1>4

LEMMA ReturnStep ==
    ASSUME IInv, NEW p \in Clients, CallbackReturns(p)
    PROVE  IInv'
<1> USE DEF IInv
<1> DEFINE r == IF reply[p] = "SUCCESS" THEN "SUCCESS" ELSE "FAILED"
<1>1. /\ reply[p] \in {"SUCCESS", "ERROR"}
      /\ call[p] # NoCall /\ item[p] # 0 /\ parsed[p] = "none"
      /\ call' = [call EXCEPT ![p] = NoCall]
      /\ reply' = [reply EXCEPT ![p] = "none"]
      /\ parsed' = [parsed EXCEPT ![p] = r]
      /\ UNCHANGED <<script, storageType, published, unsettled, verdict, queue, item,
                     crashes, failures, applied, overtaken>>
  BY DEF CallbackReturns, ShapeInv, CallInv, brokerVars, historyVars
<1>2. /\ call'[p] = NoCall /\ reply'[p] = "none" /\ parsed'[p] = r
      /\ \A q \in Clients : q # p =>
           call'[q] = call[q] /\ reply'[q] = reply[q] /\ parsed'[q] = parsed[q]
  BY <1>1 DEF ShapeInv
<1>3. ShapeInv'
  BY <1>1 DEF ShapeInv, Messages
<1>4. PlaceInv'
  BY <1>1, PlaceStays
<1>5. CallInv'
  BY <1>1, <1>2 DEF CallInv
<1>6. \A q \in Clients : (Succeeded(q)' <=> Succeeded(q)) /\ (Failed(q)' <=> Failed(q))
  <2>1. (Succeeded(p)' <=> Succeeded(p)) /\ (Failed(p)' <=> Failed(p))
    BY <1>1, <1>2 DEF Succeeded, Failed
  <2>2. ASSUME NEW q \in Clients, q # p
        PROVE  (Succeeded(q)' <=> Succeeded(q)) /\ (Failed(q)' <=> Failed(q))
    BY <1>2, <2>2 DEF Succeeded, Failed
  <2> QED
    BY <2>1, <2>2
<1>7. FreshInv' /\ ToldInv'
  BY <1>1, <1>6, RacedSame DEF FreshInv, ToldInv, NothingKept, Messages
<1>8. AckedIsStored' /\ EffectsAreCounted'
  BY <1>1, RacedSame DEF AckedIsStored, EffectsAreCounted, Messages
<1> QED
  BY <1>3, <1>4, <1>5, <1>7, <1>8

LEMMA SettleStep ==
    ASSUME IInv, NEW p \in Clients, Settle(p)
    PROVE  IInv'
<1> USE DEF IInv
<1> DEFINE m == item[p]
<1>1. /\ parsed[p] # "none" /\ m # 0 /\ m \in Messages /\ call[p] = NoCall /\ reply[p] = "none"
      /\ verdict' = [verdict EXCEPT ![m] = VerdictOf(parsed[p])]
      /\ unsettled' = unsettled \ {m}
      /\ item' = [item EXCEPT ![p] = 0]
      /\ parsed' = [parsed EXCEPT ![p] = "none"]
      /\ UNCHANGED <<script, storageType, published, queue, call, reply, crashes, failures,
                     applied, overtaken>>
  BY DEF Settle, ShapeInv, CallInv, storageVars, historyVars
<1>2. /\ item'[p] = 0 /\ parsed'[p] = "none"
      /\ \A q \in Clients : q # p => item'[q] = item[q] /\ parsed'[q] = parsed[q]
  BY <1>1 DEF ShapeInv
<1>3. /\ verdict'[m] = IF parsed[p] = "SUCCESS" THEN "acked" ELSE "rejected"
      /\ \A k \in Messages : k # m => verdict'[k] = verdict[k]
  BY <1>1 DEF VerdictOf, ShapeInv
<1>4. \A q \in Clients : item[q] = m => q = p
  BY <1>1 DEF PlaceInv
<1>5. ShapeInv'
  BY <1>1 DEF ShapeInv, Messages, VerdictOf
<1>6. PlaceInv'
  <2>1. \A k \in unsettled' : k \in Messages' /\ verdict'[k] = "none"
    BY <1>1, <1>3 DEF PlaceInv, Messages
  <2>2. \A i \in DOMAIN queue' : queue'[i] \in unsettled'
    BY <1>1 DEF PlaceInv
  <2>3. \A i \in DOMAIN queue' :
          /\ \A j \in DOMAIN queue' : queue'[i] = queue'[j] => i = j
          /\ \A q \in Clients : item'[q] # queue'[i]
    BY <1>1, <1>2, MessagesAreNumbers DEF PlaceInv
  <2>4. \A q \in Clients : item'[q] # 0 =>
          item'[q] \in unsettled' /\ \A s \in Clients : item'[q] = item'[s] => q = s
    BY <1>1, <1>2, <1>4 DEF PlaceInv
  <2> QED
    BY <2>1, <2>2, <2>3, <2>4 DEF PlaceInv
<1>7. CallInv'
  <2>1. script' = script /\ call' = call /\ reply' = reply
    BY <1>1
  <2>2. ASSUME NEW q \in Clients
        PROVE  /\ reply[q] # "none" => call[q] # NoCall
               /\ call[q] # NoCall =>
                    item'[q] # 0 /\ parsed'[q] = "none" /\ IsWellFormed(script[item'[q]])
               /\ parsed'[q] # "none" => item'[q] # 0
    BY <1>1, <1>2 DEF CallInv
  <2> QED
    BY <2>1, <2>2 DEF CallInv
<1> HIDE DEF m
<1>8. \A q \in Clients : q # p => (Succeeded(q)' <=> Succeeded(q)) /\ (Failed(q)' <=> Failed(q))
  BY <1>1, <1>2 DEF Succeeded, Failed
<1>9. FreshInv'
  <2> SUFFICES ASSUME NEW k \in Messages, verdict'[k] = "none",
                      \A q \in Clients : item'[q] = k => ~Succeeded(q)' /\ ~Failed(q)'
               PROVE  applied[k] <= crashes
    BY <1>1 DEF FreshInv, Messages
  <2>1. k # m
    BY <1>3
  <2>2. \A q \in Clients : item[q] = k => ~Succeeded(q) /\ ~Failed(q)
    BY <2>1, <1>2, <1>8 DEF m
  <2> QED
    BY <2>1, <2>2, <1>3 DEF FreshInv
<1>10. ToldInv'
  BY <1>1, <1>2, <1>8, RacedSame DEF ToldInv, NothingKept
<1>11. AckedIsStored'
  <2>1. verdict'[m] = "acked" => applied[m] > 0 \/ NothingKept \/ Raced(m)
    BY <1>1, <1>3 DEF ToldInv, Succeeded, m
  <2>2. crashes \in Nat
    BY DEF ShapeInv
  <2> QED
    BY <1>1, <1>3, <2>1, <2>2, RacedSame DEF AckedIsStored, NothingKept, Messages
<1>12. EffectsAreCounted'
  <2>1. verdict'[m] = "rejected" => parsed[p] \notin {"none", "SUCCESS"}
    BY <1>1, <1>3
  <2>2. verdict'[m] = "rejected" /\ applied[m] > 0 => failures + crashes > 0
    BY <2>1, <1>1 DEF ToldInv, Failed, m
  <2> QED
    BY <1>1, <1>3, <2>2 DEF EffectsAreCounted, Messages
<1> QED
  BY <1>5, <1>6, <1>7, <1>9, <1>10, <1>11, <1>12

-----------------------------------------------------------------------------
(* A crash                                                                 *)

LEMMA CrashStep ==
    ASSUME IInv, CrashAndRestart
    PROVE  IInv'
<1> USE DEF IInv
<1>1. /\ crashes' = crashes + 1 /\ unsettled' = {} /\ queue' = <<>>
      /\ item' = [p \in Clients |-> 0]
      /\ parsed' = [p \in Clients |-> "none"]
      /\ call' = [p \in Clients |-> NoCall]
      /\ reply' = [p \in Clients |-> "none"]
      /\ \/ applied' = applied
         \/ storageType # "MONGODB" /\ applied' = [m \in Messages |-> 0]
      /\ UNCHANGED <<script, storageType, published, verdict, failures, overtaken>>
  BY DEF CrashAndRestart, Kept
<1>2. crashes \in Nat /\ failures \in Nat /\ applied \in [Messages -> Nat]
  BY DEF ShapeInv
<1>3. /\ applied' \in [Messages -> Nat]
      /\ \A m \in Messages : applied'[m] = applied[m] \/ applied'[m] = 0
  BY <1>1, <1>2
<1>4. ShapeInv'
  BY <1>1, <1>2, <1>3 DEF ShapeInv, Messages
<1>5. PlaceInv' /\ CallInv'
  BY <1>1 DEF PlaceInv, CallInv
<1>6. ToldInv'
  BY <1>1 DEF ToldInv
<1>7. FreshInv'
  BY <1>1, <1>2, <1>3 DEF FreshInv, EffectsAreCounted, Messages
<1>8. AckedIsStored'
  <2>1. CASE storageType = "MONGODB"
    <3>1. applied' = applied
      BY <1>1, <2>1
    <3> QED
      BY <1>1, <2>1, <3>1, RacedSame DEF AckedIsStored, Messages
  <2>2. CASE storageType # "MONGODB"
    BY <1>1, <1>2, <2>2 DEF AckedIsStored, Messages
  <2> QED
    BY <2>1, <2>2
<1>9. EffectsAreCounted'
  BY <1>1, <1>2, <1>3 DEF EffectsAreCounted, Messages
<1> QED
  BY <1>4, <1>5, <1>6, <1>7, <1>8, <1>9

-----------------------------------------------------------------------------
(* Types                                                                   *)

DataType ==
    /\ names \in [Users -> Names \cup {NoName}]
    /\ scores \in [Users -> [Times -> Seq(Int)]]
    /\ connected \subseteq Users

\* Whatever the parser lets through, the storage is called with what it can be called with.
LEMMA RequestType ==
    ASSUME script \in Scripts, NEW m \in Messages, IsWellFormed(script[m])
    PROVE  RequestOf(script[m]) \in AllRequests
<1>1. /\ script[m].id \in Users /\ script[m].name \in Names /\ script[m].amount \in Amounts
      /\ script[m].time \in Times \cup {BadTime}
      /\ script[m].time = BadTime => script[m].command \in {"user_deal", "user_deal_won"}
  BY ScriptsAssumption DEF Messages
<1>2. script[m].command \in Commands
  BY DEF IsWellFormed, HasCommand
<1>3. Callback(script[m].command) \in Operations
  BY <1>2 DEF Callback, Commands, Operations
<1>4. script[m].time # BadTime
  BY <1>1, SMTT(60) DEF IsWellFormed, HasArguments, Callback
<1> QED
  BY <1>1, <1>3, <1>4 DEF RequestOf, AllRequests

\* The entries that a deal leaves
LEMMA NewEntries ==
    ASSUME DataType, NEW p \in Clients, call[p] \in AllRequests, DealTakesEffect(p)
    PROVE  LET a == call[p].amount
               e == scores[call[p].id][call[p].time]
           IN  /\ a \in Int /\ e \in Seq(Int) /\ call[p].id \in Users /\ call[p].time \in Times
               /\ UNCHANGED <<names, connected>>
               /\ \E new \in Seq(Int) :
                    /\ scores' = [scores EXCEPT ![call[p].id][call[p].time] = new]
                    /\ \/ e # <<>> /\ new = [e EXCEPT ![1] = @ + a]
                       \/ new = Append(e, a)
                       \/ request[p] = "add" /\ a \in ToSet(e) /\ new = e
<1> DEFINE a == call[p].amount
           e == scores[call[p].id][call[p].time]
           Result(new) == \/ e # <<>> /\ new = [e EXCEPT ![1] = @ + a]
                          \/ new = Append(e, a)
                          \/ request[p] = "add" /\ a \in ToSet(e) /\ new = e
<1>1. a \in Int /\ call[p].id \in Users /\ call[p].time \in Times
  BY RequestsAssumption DEF AllRequests
<1>2. e \in Seq(Int)
  BY <1>1 DEF DataType
<1>3. Entries(p) = e
  BY DEF Entries
<1> HIDE DEF a, e
<1>4. /\ Append(e, a) \in Seq(Int)
      /\ e = <<>> => <<a>> = Append(e, a)
      /\ e # <<>> => [e EXCEPT ![1] = @ + a] \in Seq(Int)
  BY <1>1, <1>2
<1>5. \E new \in Seq(Int) : SetEntries(p, new) /\ Result(new)
  <2>1. CASE StoreDeal(p)
    <3>1. CASE e = <<>>
      BY <1>3, <1>4, <2>1, <3>1 DEF StoreDeal, a
    <3>2. CASE e # <<>>
      BY <1>3, <1>4, <2>1, <3>2 DEF StoreDeal, Increased, a
    <3> QED
      BY <3>1, <3>2
  <2>2. CASE IncrementScore(p)
    BY <1>3, <1>4, <2>2 DEF IncrementScore, Increased, Modifies, a
  <2>3. CASE AddScore(p)
    <3>1. CASE a \in ToSet(e)
      BY <1>2, <1>3, <2>3, <3>1 DEF AddScore, a
    <3>2. CASE a \notin ToSet(e)
      BY <1>3, <1>4, <2>3, <3>2 DEF AddScore, a
    <3> QED
      BY <3>1, <3>2
  <2> QED
    BY <2>1, <2>2, <2>3 DEF DealTakesEffect
<1> QED
  BY <1>1, <1>2, <1>5, ZenonT(60) DEF SetEntries, a, e

LEMMA EffectType ==
    ASSUME DataType, NEW p \in Clients, call[p] \in AllRequests, TakesEffect(p)
    PROVE  DataType'
<1>1. CASE DealTakesEffect(p)
  <2>1. /\ call[p].id \in Users /\ call[p].time \in Times /\ UNCHANGED <<names, connected>>
        /\ \E new \in Seq(Int) : scores' = [scores EXCEPT ![call[p].id][call[p].time] = new]
    BY <1>1, NewEntries
  <2>2. PICK new \in Seq(Int) : scores' = [scores EXCEPT ![call[p].id][call[p].time] = new]
    BY <2>1
  <2>3. scores[call[p].id] \in [Times -> Seq(Int)]
    BY <2>1 DEF DataType
  <2>4. [scores[call[p].id] EXCEPT ![call[p].time] = new] \in [Times -> Seq(Int)]
    BY <2>1, <2>3
  <2>5. scores' \in [Users -> [Times -> Seq(Int)]]
    BY <2>1, <2>2, <2>4 DEF DataType
  <2> QED
    BY <2>1, <2>5 DEF DataType
<1>2. CASE OtherTakesEffect(p)
  <2>1. call[p].id \in Users /\ call[p].name \in Names
    BY DEF AllRequests
  <2>2. scores' = scores /\ S!Effect(call[p]) /\ call[p].op # "storeUserDeal"
    BY <1>2 DEF OtherTakesEffect, IsDeal
  <2>3. /\ names' = names \/ names' = [names EXCEPT ![call[p].id] = call[p].name]
        /\ \/ connected' = connected \/ connected' = connected \cup {call[p].id}
           \/ connected' = connected \ {call[p].id}
    BY <2>2 DEF S!Effect
  <2> QED
    BY <2>1, <2>2, <2>3 DEF DataType
<1> QED
  BY <1>1, <1>2 DEF TakesEffect

LEMMA SequenceWidens ==
    ASSUME NEW T, NEW U, T \subseteq U, NEW s \in Seq(T)
    PROVE  s \in Seq(U)
  OBVIOUS

\* The part of the type invariant that says more than ShapeInv
TypeInv ==
    /\ script \in Scripts
    /\ storageType \in {"MONGODB", "IN_MEMORY"}
    /\ unsettled \subseteq 1..published
    /\ queue \in Seq(1..published)
    /\ item \in [Clients -> 0..published]
    /\ DataType
    /\ call \in [Clients -> AllRequests \cup {NoCall}]
    /\ crashes <= MaxCrashes
    /\ failures <= MaxFailures
    /\ overtaken \in [Messages -> SUBSET Messages]

LEMMA InitTypeInv == Init => TypeInv
  BY PipelineAssumption DEF Init, TypeInv, DataType, Messages, S!Init

LEMMA TypesStay ==
    ASSUME ShapeInv, TypeInv, Next
    PROVE  TypeInv'
<1> USE DEF TypeInv
<1>0. published \in Nat /\ 1..published \subseteq Messages /\ crashes \in Nat /\ failures \in Nat
  BY MessagesAreNumbers DEF ShapeInv
<1>1. CASE Publish
  <2>1. /\ published' = published + 1
        /\ UNCHANGED <<script, storageType, unsettled, queue, item, names, scores, connected, call,
                       crashes, failures, overtaken>>
    BY <1>1 DEF Publish, logicVars, storageVars, dataVars, historyVars
  <2>2. 1..published \subseteq 1..published' /\ 0..published \subseteq 0..published'
    BY <1>0, <2>1
  <2>3. queue' \in Seq(1..published')
    BY <2>1, <2>2, SequenceWidens
  <2>4. unsettled' \subseteq 1..published' /\ item' \in [Clients -> 0..published']
    BY <2>1, <2>2
  <2> QED
    BY <2>1, <2>3, <2>4 DEF DataType, Messages
<1>2. CASE Deliver
  <2>1. PICK m \in 1..published : unsettled' = unsettled \cup {m} /\ queue' = Append(queue, m)
    BY <1>2 DEF Deliver, Waiting
  <2>2. UNCHANGED <<script, storageType, published, item, names, scores, connected, call,
                    crashes, failures, overtaken>>
    BY <1>2 DEF Deliver, storageVars, dataVars, historyVars
  <2>3. queue' \in Seq(1..published')
    BY <2>1, <2>2, AppendElements
  <2> QED
    BY <2>1, <2>2, <2>3 DEF DataType, Messages
<1>3. ASSUME NEW p \in Clients, Take(p) PROVE TypeInv'
  <2>1. /\ item[p] = 0 /\ queue # <<>>
        /\ item' = [item EXCEPT ![p] = Head(queue)]
        /\ queue' = Tail(queue)
        /\ overtaken' = [overtaken EXCEPT ![Head(queue)] = {k \in 1..(Head(queue) - 1) : verdict[k] = "none"}]
        /\ UNCHANGED <<script, storageType, published, unsettled, names, scores, connected, call,
                       crashes, failures>>
    BY <1>3 DEF Take, FrontOfQueue, brokerVars, storageVars, dataVars
  <2>2. Head(queue) \in 1..published /\ queue' \in Seq(1..published)
    BY <2>1, TailElements, ZenonT(60)
  <2>3. item' \in [Clients -> 0..published']
    BY <1>0, <2>1, <2>2
  <2>4. 1..(Head(queue) - 1) \subseteq 1..published
    BY <1>0, <2>2
  <2>5. overtaken' \in [Messages -> SUBSET Messages]
    BY <1>0, <2>1, <2>4
  <2> QED
    BY <2>1, <2>2, <2>3, <2>5 DEF DataType, Messages
<1>4. ASSUME NEW p \in Clients, ParseWellFormed(p) PROVE TypeInv'
  <2>1. /\ item[p] # 0 /\ IsWellFormed(script[item[p]])
        /\ call' = [call EXCEPT ![p] = RequestOf(script[item[p]])]
        /\ UNCHANGED <<script, storageType, published, unsettled, queue, item, names, scores,
                       connected, crashes, failures, overtaken>>
    BY <1>4 DEF ParseWellFormed, brokerVars, logicVars, dataVars, historyVars
  <2>2. RequestOf(script[item[p]]) \in AllRequests
    BY <1>0, <2>1, RequestType DEF ShapeInv
  <2> QED
    BY <2>1, <2>2 DEF DataType, Messages
<1>5. ASSUME NEW p \in Clients, ParseMalformed(p) PROVE TypeInv'
  BY <1>5 DEF ParseMalformed, brokerVars, storageVars, dataVars, historyVars, DataType, Messages
<1>6. ASSUME NEW p \in Clients, StorageSucceeds(p) \/ StorageRefuses(p) \/ StorageFails(p)
      PROVE  TypeInv'
  <2>1. /\ call[p] # NoCall
        /\ TakesEffect(p) \/ UNCHANGED <<names, scores, connected>>
        /\ failures' = failures \/ (failures < MaxFailures /\ failures' = failures + 1)
        /\ UNCHANGED <<script, storageType, published, unsettled, queue, item, call, crashes,
                       overtaken>>
    BY <1>6, StorageChanges
  <2>2. call[p] \in AllRequests
    BY <2>1
  <2>3. DataType'
    BY <2>1, <2>2, EffectType DEF DataType
  <2>4. failures' <= MaxFailures
    BY <1>0, <2>1, PipelineAssumption
  <2> QED
    BY <2>1, <2>3, <2>4 DEF Messages
<1>7. ASSUME NEW p \in Clients, CallbackReturns(p) PROVE TypeInv'
  BY <1>7 DEF CallbackReturns, brokerVars, dataVars, historyVars, DataType, Messages
<1>10. ASSUME NEW p \in Clients, FindUser(p) \/ NothingToIncrement(p) PROVE TypeInv'
  BY <1>10 DEF FindUser, NothingToIncrement, brokerVars, logicVars, dataVars, historyVars, DataType,
               Messages
<1>8. ASSUME NEW p \in Clients, Settle(p) PROVE TypeInv'
  <2>1. /\ item' = [item EXCEPT ![p] = 0] /\ unsettled' \subseteq unsettled
        /\ UNCHANGED <<script, storageType, published, queue, names, scores, connected, call,
                       crashes, failures, overtaken>>
    BY <1>8 DEF Settle, storageVars, dataVars, historyVars
  <2>2. item' \in [Clients -> 0..published']
    BY <1>0, <2>1
  <2> QED
    BY <2>1, <2>2 DEF DataType, Messages
<1>9. CASE CrashAndRestart
  <2>1. /\ crashes < MaxCrashes /\ crashes' = crashes + 1 /\ unsettled' = {} /\ queue' = <<>>
        /\ item' = [p \in Clients |-> 0]
        /\ call' = [p \in Clients |-> NoCall]
        /\ \/ UNCHANGED dataVars
           \/ /\ names' = [u \in Users |-> NoName]
              /\ scores' = [u \in Users |-> [t \in Times |-> <<>>]]
              /\ connected' = {}
        /\ UNCHANGED <<script, storageType, published, failures, overtaken>>
    BY <1>9 DEF CrashAndRestart, Kept
  <2>2. DataType'
    <3>1. <<>> \in Seq(Int)
      OBVIOUS
    <3>2. CASE UNCHANGED dataVars
      BY <1>0, <3>2 DEF dataVars, DataType
    <3>3. CASE /\ names' = [u \in Users |-> NoName]
               /\ scores' = [u \in Users |-> [t \in Times |-> <<>>]]
               /\ connected' = {}
      <4>1. scores' \in [Users -> [Times -> Seq(Int)]]
        BY <3>1, <3>3
      <4> QED
        BY <3>3, <4>1 DEF DataType
    <3> QED
      BY <2>1, <3>2, <3>3
  <2>3. crashes' <= MaxCrashes
    BY <1>0, <2>1, PipelineAssumption
  <2> QED
    BY <1>0, <2>1, <2>2, <2>3 DEF Messages
<1> QED
  BY <1>1, <1>2, <1>3, <1>4, <1>5, <1>6, <1>7, <1>8, <1>9, <1>10 DEF Next, Process

-----------------------------------------------------------------------------
(* Who calls, and who overtakes whom                                       *)

\* The storage is called with the message the processor has.
OriginInv == \A p \in Clients : call[p] # NoCall => call[p] = RequestOf(script[item[p]])

LEMMA OriginStays ==
    ASSUME IInv, OriginInv, Next
    PROVE  OriginInv'
<1> USE DEF OriginInv
<1>0. /\ item \in [Clients -> Messages \cup {0}] /\ DOMAIN call = Clients
      /\ \A p \in Clients : call[p] # NoCall => item[p] # 0 /\ parsed[p] = "none"
  BY DEF IInv, ShapeInv, CallInv
<1>1. CASE Publish
  BY <1>1 DEF Publish, logicVars, storageVars
<1>2. CASE Deliver
  BY <1>2 DEF Deliver, storageVars
<1>3. ASSUME NEW p \in Clients, Take(p) PROVE OriginInv'
  <2>1. /\ item[p] = 0 /\ item' = [item EXCEPT ![p] = FrontOfQueue.head]
        /\ script' = script /\ call' = call
    BY <1>3 DEF Take, brokerVars, storageVars
  <2> QED
    BY <1>0, <2>1
<1>4. ASSUME NEW p \in Clients, ParseWellFormed(p) PROVE OriginInv'
  <2>1. /\ call' = [call EXCEPT ![p] = RequestOf(script[item[p]])]
        /\ script' = script /\ item' = item
    BY <1>4 DEF ParseWellFormed, brokerVars, logicVars
  <2> QED
    BY <1>0, <2>1
<1>5. ASSUME NEW p \in Clients, ParseMalformed(p) PROVE OriginInv'
  BY <1>5 DEF ParseMalformed, brokerVars, storageVars
<1>6. ASSUME NEW p \in Clients, StorageSucceeds(p) \/ StorageRefuses(p) \/ StorageFails(p)
      PROVE  OriginInv'
  BY <1>6, StorageChanges
<1>10. ASSUME NEW p \in Clients, FindUser(p) \/ NothingToIncrement(p) PROVE OriginInv'
  BY <1>10 DEF FindUser, NothingToIncrement, brokerVars, logicVars
<1>7. ASSUME NEW p \in Clients, CallbackReturns(p) PROVE OriginInv'
  <2>1. call' = [call EXCEPT ![p] = NoCall] /\ script' = script /\ item' = item
    BY <1>7 DEF CallbackReturns, brokerVars
  <2> QED
    BY <1>0, <2>1
<1>8. ASSUME NEW p \in Clients, Settle(p) PROVE OriginInv'
  <2>1. /\ parsed[p] # "none" /\ item' = [item EXCEPT ![p] = 0]
        /\ script' = script /\ call' = call
    BY <1>8 DEF Settle, storageVars
  <2> QED
    BY <1>0, <2>1
<1>9. CASE CrashAndRestart
  BY <1>9 DEF CrashAndRestart
<1> QED
  BY <1>1, <1>2, <1>3, <1>4, <1>5, <1>6, <1>7, <1>8, <1>9, <1>10 DEF Next, Process

\* The broker delivers in order, and the queue keeps it: what a message can overtake is
\* with the processors.
OrderInv ==
    /\ \A m \in unsettled : \A k \in 1..(m - 1) : k \in unsettled \/ verdict[k] # "none"
    /\ \A i, j \in DOMAIN queue : i < j => queue[i] < queue[j]
    /\ \A m \in unsettled : (\E i \in DOMAIN queue : queue[i] = m) \/ (\E p \in Clients : item[p] = m)

LEMMA OrderStays ==
    ASSUME IInv, OrderInv, Next
    PROVE  OrderInv'
<1> USE DEF OrderInv
<1>0. /\ queue \in Seq(Messages) /\ item \in [Clients -> Messages \cup {0}]
      /\ verdict \in [Messages -> {"none", "acked", "rejected"}]
      /\ Messages \subseteq Nat /\ 0 \notin Messages /\ 1..published \subseteq Messages
      /\ unsettled \subseteq Messages /\ DOMAIN queue = 1..Len(queue) /\ Len(queue) \in Nat
  BY MessagesAreNumbers DEF IInv, ShapeInv, PlaceInv
<1>1. CASE Publish
  BY <1>1 DEF Publish, logicVars
<1>2. CASE Deliver
  <2>1. PICK m \in 1..published :
          /\ m \notin unsettled /\ verdict[m] = "none"
          /\ \A k \in 1..published : k \notin unsettled /\ verdict[k] = "none" => m <= k
          /\ unsettled' = unsettled \cup {m} /\ queue' = Append(queue, m)
    BY <1>2 DEF Deliver, Waiting
  <2>2. item' = item /\ verdict' = verdict
    BY <1>2 DEF Deliver
  <2>3. m \in Messages /\ m \in Nat
    BY <1>0
  <2>4. \A k \in 1..(m - 1) : k \in unsettled \/ verdict[k] # "none"
    <3> TAKE k \in 1..(m - 1)
    <3>1. k \in 1..published /\ ~(m <= k)
      BY <2>3, MessagesAreNumbers DEF IInv, ShapeInv
    <3> QED
      BY <2>1, <3>1
  <2>5. /\ DOMAIN queue' = 1..(Len(queue) + 1) /\ queue'[Len(queue) + 1] = m
        /\ \A i \in DOMAIN queue : queue'[i] = queue[i]
    BY <1>0, <2>1, <2>3
  <2>6. \A i \in DOMAIN queue : queue[i] < m
    <3> TAKE i \in DOMAIN queue
    <3>1. queue[i] \in unsettled /\ queue[i] \in Nat /\ queue[i] # m
      <4>1. queue[i] \in unsettled
        BY DEF IInv, PlaceInv
      <4> QED
        BY <1>0, <2>1, <4>1
    <3>2. ~(m < queue[i])
      <4>1. m < queue[i] => m \in 1..(queue[i] - 1)
        BY <2>3, <3>1
      <4> QED
        BY <2>1, <3>1, <4>1
    <3> QED
      BY <2>3, <3>1, <3>2
  <2>7. \A n \in unsettled' : \A k \in 1..(n - 1) : k \in unsettled' \/ verdict'[k] # "none"
    BY <2>1, <2>2, <2>4
  <2>8. \A i, j \in DOMAIN queue' : i < j => queue'[i] < queue'[j]
    <3> SUFFICES ASSUME NEW i \in DOMAIN queue', NEW j \in DOMAIN queue', i < j
                 PROVE  queue'[i] < queue'[j]
      OBVIOUS
    <3>1. i \in DOMAIN queue
      BY <1>0, <2>5
    <3>2. j \in DOMAIN queue \/ j = Len(queue) + 1
      BY <1>0, <2>5
    <3> QED
      BY <2>5, <2>6, <3>1, <3>2
  <2>9. \A n \in unsettled' :
          (\E i \in DOMAIN queue' : queue'[i] = n) \/ (\E p \in Clients : item'[p] = n)
    <3> TAKE n \in unsettled'
    <3>1. CASE n = m
      BY <1>0, <2>5, <3>1
    <3>2. CASE n # m
      <4>1. n \in unsettled
        BY <2>1, <3>2
      <4>2. DOMAIN queue \subseteq DOMAIN queue'
        BY <1>0, <2>5
      <4> QED
        BY <2>2, <2>5, <4>1, <4>2
    <3> QED
      BY <3>1, <3>2
  <2> QED
    BY <2>7, <2>8, <2>9
<1>3. ASSUME NEW p \in Clients, Take(p) PROVE OrderInv'
  <2>1. /\ item[p] = 0 /\ queue # <<>>
        /\ item' = [item EXCEPT ![p] = Head(queue)]
        /\ queue' = Tail(queue)
        /\ unsettled' = unsettled /\ verdict' = verdict
    BY <1>3 DEF Take, FrontOfQueue, brokerVars
  <2>2. /\ Head(queue) = queue[1] /\ 1 \in DOMAIN queue
        /\ \A i \in DOMAIN queue' : i \in Nat /\ i + 1 \in DOMAIN queue /\ queue'[i] = queue[i + 1]
        /\ DOMAIN queue' = 1..(Len(queue) - 1)
    BY <1>0, <2>1, TailElements
  <2>3. \A i, j \in DOMAIN queue' : i < j => queue'[i] < queue'[j]
    BY <2>2
  <2>4. \A n \in unsettled' :
          (\E i \in DOMAIN queue' : queue'[i] = n) \/ (\E q \in Clients : item'[q] = n)
    <3> TAKE n \in unsettled'
    <3>1. CASE \E q \in Clients : item[q] = n
      <4>1. n # 0
        BY <1>0, <2>1
      <4> QED
        BY <1>0, <2>1, <3>1, <4>1
    <3>2. ASSUME NEW i \in DOMAIN queue, queue[i] = n
          PROVE  (\E j \in DOMAIN queue' : queue'[j] = n) \/ (\E q \in Clients : item'[q] = n)
      <4>1. CASE i = 1
        BY <1>0, <2>1, <2>2, <3>2, <4>1
      <4>2. CASE i # 1
        <5>1. i - 1 \in DOMAIN queue' /\ (i - 1) + 1 = i
          BY <1>0, <2>2, <4>2
        <5> QED
          BY <2>2, <3>2, <5>1
      <4> QED
        BY <4>1, <4>2
    <3> QED
      BY <2>1, <3>1, <3>2
  <2> QED
    BY <2>1, <2>3, <2>4
<1>4. ASSUME NEW p \in Clients,
             \/ ParseWellFormed(p) \/ ParseMalformed(p) \/ FindUser(p) \/ NothingToIncrement(p)
             \/ StorageSucceeds(p) \/ StorageRefuses(p) \/ StorageFails(p) \/ CallbackReturns(p)
      PROVE  UNCHANGED <<unsettled, verdict, queue, item>>
  BY <1>4 DEF ParseWellFormed, ParseMalformed, FindUser, NothingToIncrement, StorageSucceeds,
              StorageRefuses, StorageFails, CallbackReturns, brokerVars, logicVars
<1>5. ASSUME UNCHANGED <<unsettled, verdict, queue, item>> PROVE OrderInv'
  BY <1>5
<1>6. ASSUME NEW p \in Clients, Settle(p) PROVE OrderInv'
  <2>1. /\ item[p] \in Messages
        /\ verdict' = [verdict EXCEPT ![item[p]] = VerdictOf(parsed[p])]
        /\ unsettled' = unsettled \ {item[p]}
        /\ item' = [item EXCEPT ![p] = 0] /\ queue' = queue
    BY <1>6, <1>0 DEF Settle, IInv, CallInv
  <2>2. verdict'[item[p]] # "none" /\ \A k \in Messages : k # item[p] => verdict'[k] = verdict[k]
    BY <1>0, <2>1 DEF VerdictOf
  <2>3. \A n \in unsettled' : \A k \in 1..(n - 1) : k \in unsettled' \/ verdict'[k] # "none"
    <3> SUFFICES ASSUME NEW n \in unsettled, NEW k \in 1..(n - 1)
                 PROVE  k \in unsettled' \/ verdict'[k] # "none"
      BY <2>1
    <3>1. k \in Messages
      BY <1>0, MessagesAreNumbers DEF IInv
    <3> QED
      BY <2>1, <2>2, <3>1
  <2>4. \A n \in unsettled' :
          (\E i \in DOMAIN queue' : queue'[i] = n) \/ (\E q \in Clients : item'[q] = n)
    BY <1>0, <2>1
  <2> QED
    BY <2>1, <2>3, <2>4
<1>7. CASE CrashAndRestart
  BY <1>7 DEF CrashAndRestart, Kept
<1> QED
  BY <1>1, <1>2, <1>3, <1>4, <1>5, <1>6, <1>7 DEF Next, Process

\* What is in the queue was published after what the processors have, and a processor that
\* has a later message than another one has overtaken it.
HeldInv ==
    /\ \A p \in Clients : \A i \in DOMAIN queue : item[p] < queue[i]
    /\ \A p, q \in Clients : item[p] # 0 /\ item[p] < item[q] => item[p] \in overtaken[item[q]]

LEMMA HeldStays ==
    ASSUME IInv, TypeInv, OrderInv, HeldInv, Next
    PROVE  HeldInv'
<1> USE DEF HeldInv
<1>0. /\ queue \in Seq(Messages) /\ item \in [Clients -> Messages \cup {0}]
      /\ Messages \subseteq Nat /\ 0 \notin Messages /\ 1..published \subseteq Messages
      /\ unsettled \subseteq Messages /\ DOMAIN queue = 1..Len(queue) /\ Len(queue) \in Nat
      /\ overtaken \in [Messages -> SUBSET Messages]
  BY MessagesAreNumbers DEF IInv, ShapeInv, PlaceInv, TypeInv
<1>1. ASSUME UNCHANGED <<queue, item, overtaken>> PROVE HeldInv'
  BY <1>1
<1>2. CASE Deliver
  <2>1. PICK m \in 1..published :
          /\ m \notin unsettled /\ verdict[m] = "none" /\ queue' = Append(queue, m)
    BY <1>2 DEF Deliver, Waiting
  <2>2. item' = item /\ overtaken' = overtaken
    BY <1>2 DEF Deliver, historyVars
  <2>3. ASSUME NEW n \in unsettled PROVE n < m
    <3>1. n \in Nat /\ m \in Nat /\ n # m /\ m >= 1
      BY <1>0, <2>1
    <3>2. ~(m < n)
      <4>1. m < n => m \in 1..(n - 1)
        BY <3>1
      <4> QED
        BY <2>1, <2>3, <4>1 DEF OrderInv
    <3> QED
      BY <3>1, <3>2
  <2>4. \A p \in Clients : item[p] < m
    <3> TAKE p \in Clients
    <3>1. item[p] = 0 \/ item[p] \in unsettled
      BY DEF IInv, PlaceInv
    <3> QED
      BY <2>1, <2>3, <3>1
  <2>5. \A i \in DOMAIN queue' : (i \in DOMAIN queue /\ queue'[i] = queue[i]) \/ queue'[i] = m
    BY <1>0, <2>1, AppendElements
  <2> QED
    BY <2>2, <2>4, <2>5
<1>3. ASSUME NEW p \in Clients, Take(p) PROVE HeldInv'
  <2>1. PICK m \in Messages : m = Head(queue)
    BY <1>3, TailElements DEF Take, IInv, ShapeInv
  <2>2. /\ item[p] = 0 /\ queue # <<>>
        /\ item' = [item EXCEPT ![p] = m]
        /\ queue' = Tail(queue)
        /\ overtaken' = [overtaken EXCEPT ![m] = {k \in 1..(m - 1) : verdict[k] = "none"}]
    BY <1>3, <2>1 DEF Take, FrontOfQueue
  <2>3. /\ m = queue[1] /\ 1 \in DOMAIN queue
        /\ \A i \in DOMAIN queue' :
             i \in Nat /\ i + 1 \in DOMAIN queue /\ i + 1 # 1 /\ queue'[i] = queue[i + 1]
    BY <1>0, <2>1, <2>2, TailElements
  <2>4. item'[p] = m /\ \A q \in Clients : q # p => item'[q] = item[q]
    BY <1>0, <2>2
  <2>5. \A q \in Clients : \A i \in DOMAIN queue' : item'[q] < queue'[i]
    <3> SUFFICES ASSUME NEW q \in Clients, NEW i \in DOMAIN queue' PROVE item'[q] < queue'[i]
      OBVIOUS
    <3>1. i + 1 \in DOMAIN queue /\ 1 < i + 1 /\ queue'[i] = queue[i + 1]
      BY <1>0, <2>3
    <3>2. queue[1] < queue[i + 1]
      BY <2>3, <3>1 DEF OrderInv
    <3> QED
      BY <2>3, <2>4, <3>1, <3>2
  <2>6. ASSUME NEW q \in Clients, NEW r \in Clients, item'[q] # 0, item'[q] < item'[r]
        PROVE  item'[q] \in overtaken'[item'[r]]
    <3>1. \A c \in Clients : item[c] < m /\ item[c] # m
      BY <1>0, <2>3
    <3>2. CASE r = p
      <4>1. q # p /\ item'[q] = item[q] /\ item'[r] = m
        BY <1>0, <2>4, <2>6, <3>2
      <4>2. item[q] \in Nat /\ item[q] # 0 /\ verdict[item[q]] = "none"
        BY <1>0, <2>6, <4>1 DEF IInv, PlaceInv
      <4>3. item[q] \in 1..(m - 1)
        BY <1>0, <3>1, <4>2
      <4>4. overtaken'[m] = {k \in 1..(m - 1) : verdict[k] = "none"}
        BY <1>0, <2>2
      <4> QED
        BY <4>1, <4>2, <4>3, <4>4
    <3>3. CASE r # p
      <4>1. item'[r] = item[r] /\ item[r] # m /\ item[r] \in Messages
        <5>1. item'[r] = item[r] /\ item[r] # m
          BY <2>4, <3>1, <3>3
        <5>2. item'[q] \in Nat /\ item[r] \in Nat
          <6>1. m \in Messages
            BY <1>0
          <6>2. item'[q] = m \/ item'[q] = item[q]
            BY <2>4
          <6> QED
            BY <1>0, <6>1, <6>2
        <5>3. item[r] # 0
          BY <2>6, <5>1, <5>2
        <5> QED
          BY <5>1, <5>3 DEF IInv, PlaceInv
      <4>2. q # p
        BY <1>0, <2>4, <2>6, <3>1, <4>1
      <4>3. overtaken'[item[r]] = overtaken[item[r]]
        BY <1>0, <2>2, <4>1
      <4> QED
        BY <2>4, <2>6, <4>1, <4>2, <4>3
    <3> QED
      BY <3>2, <3>3
  <2> QED
    BY <2>5, <2>6
<1>4. ASSUME NEW p \in Clients,
             \/ ParseWellFormed(p) \/ ParseMalformed(p) \/ FindUser(p) \/ NothingToIncrement(p)
             \/ StorageSucceeds(p) \/ StorageRefuses(p) \/ StorageFails(p) \/ CallbackReturns(p)
      PROVE  UNCHANGED <<queue, item, overtaken>>
  BY <1>4 DEF ParseWellFormed, ParseMalformed, FindUser, NothingToIncrement, StorageSucceeds,
              StorageRefuses, StorageFails, CallbackReturns, logicVars, historyVars
<1>5. ASSUME NEW p \in Clients, Settle(p) PROVE HeldInv'
  <2>1. item' = [item EXCEPT ![p] = 0] /\ queue' = queue /\ overtaken' = overtaken
    BY <1>5 DEF Settle, historyVars
  <2>2. \A q \in Clients : item'[q] = 0 \/ item'[q] = item[q]
    BY <1>0, <2>1
  <2>3. \A i \in DOMAIN queue : 0 < queue[i]
    BY <1>0
  <2>4. \A q \in Clients : item[q] \in Nat
    BY <1>0
  <2> QED
    BY <2>1, <2>2, <2>3, <2>4
<1>6. CASE CrashAndRestart
  BY <1>6 DEF CrashAndRestart
<1>7. Publish => UNCHANGED <<queue, item, overtaken>>
  BY DEF Publish, logicVars, historyVars
<1> QED
  BY <1>1, <1>2, <1>3, <1>4, <1>5, <1>6, <1>7 DEF Next, Process

-----------------------------------------------------------------------------
(* Deals that race                                                         *)

\* Two processors that have deals of one user and time
LEMMA ProcessorsRace ==
    ASSUME IInv, HeldInv, storageType = "MONGODB",
           NEW p \in Clients, NEW q \in Clients, p # q, item[p] # 0, item[q] # 0,
           script' = script, storageType' = storageType, overtaken' = overtaken,
           item' = item, applied'[item[q]] > 0,
           {item[p], item[q]} \subseteq DealsOf(script[item[p]].id, script[item[p]].time)
    PROVE  Raced(item[p])'
<1>1. item[p] \in Messages /\ item[q] \in Messages /\ item[p] # item[q]
      /\ item[p] \in Nat /\ item[q] \in Nat
  BY MessagesAreNumbers DEF IInv, ShapeInv, PlaceInv
<1>2. Cardinality(Clients) > 1
  <2>1. IsFiniteSet(Clients) /\ IsFiniteSet(Clients \ {p})
    BY PipelineAssumption, FS_Subset
  <2>2. Cardinality(Clients \ {p}) = Cardinality(Clients) - 1
    BY <2>1, FS_RemoveElement
  <2>3. Cardinality(Clients \ {p}) # 0
    BY <2>1, FS_EmptySet
  <2>4. Cardinality(Clients) \in Nat /\ Cardinality(Clients \ {p}) \in Nat
    BY <2>1, FS_CardinalityType
  <2> QED
    BY <2>2, <2>3, <2>4
<1>3. item[q] > item[p] \/ item[q] \in overtaken[item[p]]
  BY <1>1 DEF HeldInv
<1>4. Messages' = Messages
  BY DEF Messages
<1>5. Races(item[q], item[p])'
  <2>1. {item[q], item[p]} \subseteq DealsOf(script[item[p]].id, script[item[p]].time)'
    BY <1>4 DEF DealsOf
  <2>2. item[q] # item[p] /\ applied'[item[q]] > 0
    BY <1>1
  <2>3. item[q] > item[p] \/ item[q] \in overtaken'[item[p]]
    BY <1>3
  <2> QED
    BY <1>2, <2>1, <2>2, <2>3 DEF Races
<1>6. item[q] \in Messages'
  BY <1>1, <1>4
<1> QED
  BY <1>5, <1>6 DEF Raced

\* The call of a deal has its user, time and amount.
LEMMA DealsAreCalled ==
    ASSUME IInv, OriginInv, NEW p \in Clients, IsDeal(p)
    PROVE  /\ item[p] \in Messages /\ item[p] # 0
           /\ call[p].id = script[item[p]].id /\ call[p].time = script[item[p]].time
           /\ call[p].amount = script[item[p]].amount
           /\ script[item[p]].command \in {"user_deal", "user_deal_won"}
<1>1. /\ item[p] \in Messages /\ item[p] # 0 /\ IsWellFormed(script[item[p]])
      /\ call[p] = RequestOf(script[item[p]]) /\ call[p].op = "storeUserDeal"
  BY DEF IsDeal, IInv, ShapeInv, CallInv, OriginInv
<1>2. script[item[p]].command \in Commands
  BY <1>1 DEF IsWellFormed, HasCommand
<1>3. script[item[p]].command \in {"user_deal", "user_deal_won"}
  BY <1>1, <1>2 DEF RequestOf, Callback, Commands
<1> QED
  BY <1>1, <1>3 DEF RequestOf

\* A deal without effect has found the entry of another one.
LEMMA LostIsRaced ==
    ASSUME IInv, TypeInv, RaceInv, NEW p \in Clients, call[p] # NoCall, TakesEffect(p), Lost(p)
    PROVE  Raced(item[p])
<1> DEFINE a == call[p].amount
           e == scores[call[p].id][call[p].time]
<1>1. call[p] \in AllRequests /\ DataType
  BY DEF TypeInv
<1>2. DealTakesEffect(p) /\ a # 0 /\ scores' = scores
  BY EffectKinds, SMTT(60) DEF Lost
<1>3. /\ a \in Int /\ e \in Seq(Int) /\ call[p].id \in Users /\ call[p].time \in Times
      /\ \E new \in Seq(Int) :
           /\ scores' = [scores EXCEPT ![call[p].id][call[p].time] = new]
           /\ \/ e # <<>> /\ new = [e EXCEPT ![1] = @ + a]
              \/ new = Append(e, a)
              \/ request[p] = "add" /\ a \in ToSet(e) /\ new = e
  BY <1>1, <1>2, NewEntries, ZenonT(60)
<1>4. PICK new \in Seq(Int) :
        /\ scores' = [scores EXCEPT ![call[p].id][call[p].time] = new]
        /\ \/ e # <<>> /\ new = [e EXCEPT ![1] = @ + a]
           \/ new = Append(e, a)
           \/ request[p] = "add" /\ a \in ToSet(e) /\ new = e
  BY <1>3, ZenonT(60)
<1>5. new = e
  <2>1. scores[call[p].id] \in [Times -> Seq(Int)]
    BY <1>1, <1>3, ZenonT(60) DEF DataType
  <2>2. scores'[call[p].id][call[p].time] = new
    BY <1>1, <1>3, <1>4, <2>1, ZenonT(60) DEF DataType
  <2> QED
    BY <1>2, <2>2, SMTT(60)
<1> HIDE DEF a, e
<1>6. ~(e # <<>> /\ new = [e EXCEPT ![1] = @ + a])
  <2> SUFFICES ASSUME e # <<>>, new = [e EXCEPT ![1] = @ + a] PROVE FALSE
    OBVIOUS
  <2>1. 1 \in DOMAIN e /\ e[1] \in Int
    BY <1>3
  <2>2. new[1] = e[1] + a
    BY <2>1
  <2> QED
    BY <1>2, <1>3, <1>5, <2>1, <2>2
<1>7. new # Append(e, a)
  <2>1. Len(Append(e, a)) = Len(e) + 1 /\ Len(e) \in Nat
    BY <1>3
  <2> QED
    BY <1>5, <2>1
<1>8. request[p] = "add" /\ a \in ToSet(e)
  BY <1>4, <1>6, <1>7
<1>9. e # <<>>
  BY <1>8 DEF ToSet
<1> QED
  BY <1>2, <1>8, <1>9 DEF RaceInv, Entries, a, e

LEMMA RaceStays ==
    ASSUME IInv, TypeInv, OriginInv, HeldInv, RaceInv, Next
    PROVE  RaceInv'
<1> DEFINE AboutToAdd(p) == request[p] = "add" /\ call[p].amount # 0 /\ Entries(p) # <<>>
<1>0. /\ item \in [Clients -> Messages \cup {0}] /\ 0 \notin Messages
      /\ applied \in [Messages -> Nat]
      /\ call \in [Clients -> AllRequests \cup {NoCall}]
      /\ reply \in [Clients -> {"none", "SUCCESS", "ERROR"}]
      /\ request \in [Clients -> {"first", "inc", "add"}]
      /\ overtaken \in [Messages -> SUBSET Messages]
  BY MessagesAreNumbers DEF IInv, ShapeInv, TypeInv, RaceInv
<1>1. ASSUME NEW p \in Clients, request[p] # "first"
      PROVE  /\ storageType = "MONGODB" /\ IsDeal(p) /\ reply[p] = "none"
             /\ call[p] # NoCall /\ item[p] # 0 /\ item[p] \in Messages /\ parsed[p] = "none"
  BY <1>0, <1>1 DEF RaceInv, IsDeal, IInv, CallInv
<1>2. ASSUME UNCHANGED <<script, storageType, scores, call, request, reply, item, applied, overtaken>>
      PROVE  RaceInv'
  BY <1>2, RacedSame DEF RaceInv, IsDeal, Entries
\* One processor moves, and only its call does: the others keep their races.
<1>3. ASSUME NEW q \in Clients,
             UNCHANGED <<script, storageType, scores, applied>>,
             request' \in [Clients -> {"first", "inc", "add"}],
             \A p \in Clients : p # q =>
               UNCHANGED <<call[p], request[p], reply[p], item[p]>> /\
               (request[p] # "first" => overtaken'[item[p]] = overtaken[item[p]]),
             request'[q] # "first" => storageType = "MONGODB" /\ IsDeal(q)' /\ reply'[q] = "none",
             ~AboutToAdd(q)'
      PROVE  RaceInv'
  <2>1. ASSUME NEW p \in Clients, request'[p] # "first"
        PROVE  storageType' = "MONGODB" /\ IsDeal(p)' /\ reply'[p] = "none"
    <3>1. CASE p = q
      BY <1>3, <2>1, <3>1
    <3>2. CASE p # q
      BY <1>1, <1>3, <2>1, <3>2 DEF IsDeal
    <3> QED
      BY <3>1, <3>2
  <2>2. ASSUME NEW p \in Clients, AboutToAdd(p)'
        PROVE  Raced(item[p])'
    <3>1. p # q
      BY <1>3, <2>2
    <3>2. AboutToAdd(p) /\ item'[p] = item[p] /\ overtaken'[item[p]] = overtaken[item[p]]
      BY <1>3, <2>2, <3>1 DEF Entries
    <3>3. Raced(item[p])
      BY <3>2 DEF RaceInv
    <3> QED
      BY <1>3, <3>2, <3>3 DEF Raced, Races, DealsOf, Messages
  <2> QED
    BY <1>3, <2>1, <2>2 DEF RaceInv
<1> HIDE DEF AboutToAdd
<1>4. ASSUME NEW q \in Clients, Take(q) PROVE RaceInv'
  <2>1. PICK m \in Messages : m = Head(queue)
    BY <1>4, TailElements DEF Take, IInv, ShapeInv
  <2>2. /\ item[q] = 0 /\ queue # <<>>
        /\ item' = [item EXCEPT ![q] = m]
        /\ \A k : k # m => overtaken'[k] = overtaken[k]
        /\ UNCHANGED <<script, storageType, scores, call, request, reply, applied>>
    BY <1>4, <2>1 DEF Take, FrontOfQueue, brokerVars, storageVars, dataVars
  <2>3. \A p \in Clients : item[p] # m
    BY <2>1, <2>2, TailElements DEF IInv, ShapeInv, PlaceInv
  <2>4. request[q] = "first"
    BY <1>0, <1>1, <2>2
  <2>5. ~AboutToAdd(q)'
    BY <2>2, <2>4 DEF AboutToAdd
  <2>6. \A p \in Clients : p # q => item'[p] = item[p]
    BY <1>0, <2>2
  <2> QED
    BY <1>0, <1>3, <2>2, <2>3, <2>4, <2>5, <2>6
<1>5. ASSUME NEW q \in Clients, ParseWellFormed(q) \/ CallbackReturns(q) PROVE RaceInv'
  <2>1. /\ UNCHANGED <<script, storageType, scores, item, request, applied, overtaken>>
        /\ \A p \in Clients : p # q => call'[p] = call[p] /\ reply'[p] = reply[p]
        /\ call[q] = NoCall \/ reply[q] # "none"
    BY <1>0, <1>5 DEF ParseWellFormed, CallbackReturns, brokerVars, logicVars, dataVars, historyVars
  <2>2. request[q] = "first"
    BY <1>1, <2>1
  <2>3. ~AboutToAdd(q)'
    BY <2>1, <2>2 DEF AboutToAdd
  <2> QED
    BY <1>0, <1>3, <2>1, <2>2, <2>3
<1>6. ASSUME NEW q \in Clients, FindUser(q) \/ NothingToIncrement(q) PROVE RaceInv'
  <2>1. /\ UNCHANGED <<script, storageType, scores, call, item, reply, applied, overtaken>>
        /\ request' \in [Clients -> {"first", "inc", "add"}]
        /\ \A p \in Clients : p # q => request'[p] = request[p]
        /\ storageType = "MONGODB" /\ IsDeal(q) /\ reply[q] = "none"
        /\ request'[q] = "inc" \/ ~Modifies(q)
    BY <1>0, <1>1, <1>6 DEF FindUser, NothingToIncrement, brokerVars, logicVars, dataVars, historyVars
  <2>2. ~AboutToAdd(q)'
    BY <2>1 DEF AboutToAdd, Modifies, Entries
  <2>3. IsDeal(q)'
    BY <2>1 DEF IsDeal
  <2> QED
    BY <1>3, <2>1, <2>2, <2>3
<1>7. ASSUME NEW q \in Clients, StorageSucceeds(q) \/ StorageRefuses(q) \/ StorageFails(q)
      PROVE  RaceInv'
  <2>1. /\ call[q] # NoCall /\ reply[q] = "none"
        /\ request' = [request EXCEPT ![q] = "first"]
        /\ UNCHANGED <<script, storageType, item, call, overtaken>>
        /\ TakesEffect(q) \/ UNCHANGED <<scores, applied>>
        /\ \A p \in Clients : p # q => reply'[p] = reply[p]
    BY <1>0, <1>7, StorageChanges
  <2>2. request'[q] = "first" /\ \A p \in Clients : p # q => request'[p] = request[p]
    BY <1>0, <2>1
  <2>3. item[q] \in Messages /\ item[q] # 0
    BY <1>0, <2>1 DEF IInv, CallInv
  <2>4. \/ UNCHANGED <<scores, applied>>
        \/ /\ DealTakesEffect(q) \/ OtherTakesEffect(q)
           /\ applied' = [applied EXCEPT ![item[q]] = @ + 1]
    BY <2>1, EffectKinds
  <2>5. \A k \in Messages : applied[k] > 0 => applied'[k] > 0
    BY <1>0, <2>3, <2>4
  <2>6. ASSUME NEW p \in Clients, AboutToAdd(p)'
        PROVE  Raced(item[p])'
    <3>1. p # q /\ request[p] = "add" /\ call[p].amount # 0 /\ Entries(p)' # <<>>
      BY <2>1, <2>2, <2>6 DEF AboutToAdd
    <3>2. CASE Entries(p) # <<>>
      <4>1. Raced(item[p])
        BY <3>1, <3>2 DEF RaceInv
      <4> QED
        BY <2>1, <2>5, <4>1, RacedStays
    <3>3. CASE Entries(p) = <<>>
      <4>1. Entries(p)' # Entries(p)
        BY <3>1, <3>3
      <4>2. scores' # scores
        BY <2>1, <4>1 DEF Entries
      <4>3. DealTakesEffect(q) /\ applied' = [applied EXCEPT ![item[q]] = @ + 1]
        BY <2>4, <4>2 DEF OtherTakesEffect
      <4>4. IsDeal(p) /\ IsDeal(q) /\ storageType = "MONGODB" /\ item[p] # 0
        BY <1>1, <3>1, <4>3 DEF DealTakesEffect
      <4>5. call[q].id = call[p].id /\ call[q].time = call[p].time
        <5>1. call[q] \in AllRequests /\ call[p] \in AllRequests /\ DataType
          BY <1>0, <4>4, SMTT(60) DEF IsDeal, TypeInv
        <5>2. \E new \in Seq(Int) : scores' = [scores EXCEPT ![call[q].id][call[q].time] = new]
          BY <4>3, <5>1, NewEntries
        <5>3. scores[call[p].id] \in [Times -> Seq(Int)] /\ scores[call[q].id] \in [Times -> Seq(Int)]
              /\ call[p].id \in Users /\ call[q].id \in Users
              /\ call[p].time \in Times /\ call[q].time \in Times
              /\ scores \in [Users -> [Times -> Seq(Int)]]
          BY <5>1 DEF AllRequests, DataType
        <5>4. scores'[call[p].id][call[p].time] # scores[call[p].id][call[p].time]
          BY <2>1, <4>1 DEF Entries
        <5> QED
          BY <5>2, <5>3, <5>4
      <4>6. {item[p], item[q]} \subseteq DealsOf(script[item[p]].id, script[item[p]].time)
        BY <4>4, <4>5, DealsAreCalled DEF DealsOf
      <4>7. applied'[item[q]] > 0
        BY <1>0, <2>3, <4>3
      <4>8. Raced(item[p])'
        BY <2>1, <2>3, <3>1, <4>4, <4>6, <4>7, ProcessorsRace
      <4> QED
        BY <2>1, <4>8 DEF Raced, Races, DealsOf, Messages
    <3> QED
      BY <3>2, <3>3
  <2>7. ASSUME NEW p \in Clients, request'[p] # "first"
        PROVE  storageType' = "MONGODB" /\ IsDeal(p)' /\ reply'[p] = "none"
    <3>1. p # q /\ request[p] # "first"
      BY <2>2, <2>7
    <3> QED
      BY <1>1, <2>1, <3>1 DEF IsDeal
  <2>8. request' \in [Clients -> {"first", "inc", "add"}]
    BY <1>0, <2>1
  <2> QED
    BY <2>6, <2>7, <2>8 DEF RaceInv, AboutToAdd
<1>8. ASSUME NEW q \in Clients, ParseMalformed(q)
      PROVE  UNCHANGED <<script, storageType, scores, call, request, reply, item, applied, overtaken>>
  BY <1>8 DEF ParseMalformed, brokerVars, storageVars, dataVars, historyVars
<1>9. ASSUME NEW q \in Clients, Settle(q) PROVE RaceInv'
  <2>1. /\ UNCHANGED <<script, storageType, scores, call, request, reply, applied, overtaken>>
        /\ \A p \in Clients : p # q => item'[p] = item[p]
        /\ parsed[q] # "none"
    BY <1>0, <1>9 DEF Settle, storageVars, dataVars, historyVars
  <2>2. request[q] = "first"
    BY <1>1, <2>1
  <2>3. ~AboutToAdd(q)'
    BY <2>1, <2>2 DEF AboutToAdd
  <2> QED
    BY <1>0, <1>3, <2>1, <2>2, <2>3
<1>10. CASE CrashAndRestart
  <2>1. request' = [p \in Clients |-> "first"]
    BY <1>10 DEF CrashAndRestart
  <2> QED
    BY <2>1 DEF RaceInv
<1>11. Publish \/ Deliver =>
         UNCHANGED <<script, storageType, scores, call, request, reply, item, applied, overtaken>>
  BY DEF Publish, Deliver, logicVars, storageVars, dataVars, historyVars
<1> QED
  BY <1>2, <1>4, <1>5, <1>6, <1>7, <1>8, <1>9, <1>10, <1>11 DEF Next, Process

-----------------------------------------------------------------------------
(* The theorems                                                            *)

AllInv == IInv /\ TypeInv /\ OriginInv /\ OrderInv /\ HeldInv /\ RaceInv

LEMMA InitAllInv == Init => AllInv
<1> SUFFICES ASSUME Init PROVE AllInv
  OBVIOUS
<1>1. IInv /\ TypeInv
  BY InitIInv, InitTypeInv
<1>2. OriginInv /\ OrderInv
  BY DEF Init, S!Init, OriginInv, OrderInv
<1>3. HeldInv /\ RaceInv
  BY DEF Init, S!Init, HeldInv, RaceInv
<1> QED
  BY <1>1, <1>2, <1>3 DEF AllInv

LEMMA NextIInv ==
    ASSUME AllInv, Next
    PROVE  IInv'
<1> USE DEF AllInv
<1>1. CASE Publish
  BY <1>1, PublishStep
<1>2. CASE Deliver
  BY <1>2, DeliverStep
<1>3. ASSUME NEW p \in Clients, StorageSucceeds(p) \/ StorageRefuses(p) \/ StorageFails(p)
      PROVE  IInv'
  <2>1. TakesEffect(p) /\ Lost(p) => Raced(item[p])
    BY <1>3, StorageChanges, LostIsRaced
  <2> QED
    BY <1>3, <2>1, StorageStep
<1>4. ASSUME NEW p \in Clients, Process(p) PROVE IInv'
  BY <1>3, <1>4, TakeStep, ParseStep, AskStep, ReturnStep, SettleStep DEF Process
<1>5. CASE CrashAndRestart
  BY <1>5, CrashStep
<1> QED
  BY <1>1, <1>2, <1>4, <1>5 DEF Next

LEMMA NextAllInv == AllInv /\ [Next]_vars => AllInv'
<1> SUFFICES ASSUME AllInv, [Next]_vars PROVE AllInv'
  OBVIOUS
<1>1. CASE Next
  <2>1. IInv' /\ TypeInv' /\ OriginInv'
    BY <1>1, NextIInv, TypesStay, OriginStays DEF AllInv, IInv
  <2>2. OrderInv' /\ HeldInv' /\ RaceInv'
    BY <1>1, OrderStays, HeldStays, RaceStays DEF AllInv
  <2> QED
    BY <2>1, <2>2 DEF AllInv
<1>2. CASE UNCHANGED vars
  <2> USE <1>2 DEF vars, brokerVars, logicVars, storageVars, dataVars, historyVars, AllInv
  <2>1. ShapeInv' /\ PlaceInv' /\ CallInv'
    BY DEF ShapeInv, PlaceInv, CallInv, IInv, Messages
  <2>2. FreshInv' /\ ToldInv'
    BY RacedSame DEF FreshInv, ToldInv, Succeeded, Failed, NothingKept, IInv, Messages
  <2>3. AckedIsStored' /\ EffectsAreCounted'
    BY RacedSame DEF AckedIsStored, EffectsAreCounted, IInv, Messages
  <2>4. TypeInv' /\ OriginInv'
    BY DEF TypeInv, DataType, OriginInv, Messages
  <2>5. OrderInv' /\ HeldInv'
    BY DEF OrderInv, HeldInv
  <2>6. RaceInv'
    BY RacedSame DEF RaceInv, IsDeal, Entries
  <2> QED
    BY <2>1, <2>2, <2>3, <2>4, <2>5, <2>6 DEF IInv
<1> QED
  BY <1>1, <1>2

THEOREM InvariantHolds == Spec => []AllInv
  BY InitAllInv, NextAllInv, PTL DEF Spec

\* No crash between the effect of a message, the storage's answer and the ack loses
\* what was acked, as far as the storage keeps anything: only a deal in MongoDB can be
\* acked without an effect, and only when another processor had one of the same user and
\* time that was not settled before.
THEOREM AckedStaysStored == Spec => []AckedIsStored
  BY InvariantHolds, PTL DEF AllInv, IInv

\* However many processors there are and whatever fails, a message has its effect at most
\* once per run of the program, and none if it is malformed.
THEOREM EffectsStayCounted == Spec => []EffectsAreCounted
  BY InvariantHolds, PTL DEF AllInv, IInv

\* The parts of TypeOK are there; how often a message had its effect is bounded by
\* EffectsAreCounted.
LEMMA TypesFollow == AllInv => TypeOK
<1> SUFFICES ASSUME AllInv PROVE TypeOK
  OBVIOUS
<1> USE DEF AllInv
<1>1. crashes \in 0..MaxCrashes /\ failures \in 0..MaxFailures
  BY PipelineAssumption DEF IInv, ShapeInv, TypeInv
<1>2. \A m \in Messages : applied[m] \in 0..(MaxCrashes + 1)
  BY <1>1, PipelineAssumption DEF IInv, ShapeInv, EffectsAreCounted
<1>3. applied \in [Messages -> 0..(MaxCrashes + 1)]
  BY <1>2 DEF IInv, ShapeInv
<1> QED
  BY <1>1, <1>3 DEF IInv, ShapeInv, TypeInv, DataType, RaceInv, TypeOK

\* The storage is called with well-formed requests only, a processor has a message that
\* was published, and nothing is counted beyond its bound.
THEOREM TypeCorrect == Spec => []TypeOK
  BY InvariantHolds, TypesFollow, PTL

-----------------------------------------------------------------------------
(* What is earned                                                          *)

LEMMA SharesAreIntegers ==
    ASSUME ShapeInv, script \in Scripts, NEW u \in Users, NEW t \in Times
    PROVE  /\ \A m \in Messages : script[m].amount \in Int
           /\ \A m \in Messages : Shares(u, t)[m] \in Int
<1>1. \A m \in Messages : script[m].amount \in Int
  BY ScriptsAssumption, RequestsAssumption DEF Messages
<1>2. \A m \in Messages : applied[m] \in Int
  BY DEF ShapeInv
<1>3. \A x \in Int, y \in Int : x * y \in Int
  OBVIOUS
<1>4. ASSUME NEW m \in Messages PROVE Shares(u, t)[m] \in Int
  <2>1. Shares(u, t)[m] = IF m \in DealsOf(u, t) THEN applied[m] * script[m].amount ELSE 0
    BY DEF Shares
  <2> QED
    BY <1>1, <1>2, <1>3, <2>1
<1> QED
  BY <1>1, <1>4

\* $inc adds to the sum of the entries ...
LEMMA IncrementedEntries ==
    ASSUME NEW e \in Seq(Int), e # <<>>, NEW a \in Int, NEW new, new = [e EXCEPT ![1] = @ + a]
    PROVE  Sum(new, Len(new)) = Sum(e, Len(e)) + a
<1>1. Len(e) \in Nat /\ DOMAIN e = 1..Len(e) /\ \A k \in 1..Len(e) : e[k] \in Int
  OBVIOUS
<1>2. Len(new) = Len(e) /\ 1 \in 1..Len(e)
  OBVIOUS
<1>3. new[1] = e[1] + a /\ \A k \in 1..Len(e) : k # 1 => new[k] = e[k]
  BY <1>1, <1>2
<1>4. Sum(new, Len(e)) = Sum(e, Len(e)) + a
  <2>1. ASSUME NEW n \in Nat, \A k \in 1..n : e[k] \in Int, 1 \in 1..n,
               \A k \in 1..n : k # 1 => new[k] = e[k]
        PROVE  Sum(new, n) = Sum(e, n) + a
    BY ONLY <1>3, <2>1, a \in Int, SumGrows
  <2> QED
    BY <1>1, <1>2, <1>3, <2>1
<1> QED
  BY <1>2, <1>4

\* ... and so does a new entry.
LEMMA AddedEntry ==
    ASSUME NEW e \in Seq(Int), NEW a \in Int, NEW new, new = Append(e, a)
    PROVE  Sum(new, Len(new)) = Sum(e, Len(e)) + a
<1>1. Len(e) \in Nat /\ \A k \in 1..Len(e) : e[k] \in Int
  OBVIOUS
<1>2. Len(new) = Len(e) + 1 /\ new[Len(e) + 1] = a /\ \A k \in 1..Len(e) : new[k] = e[k]
  OBVIOUS
<1> QED
  BY ONLY <1>1, <1>2, a \in Int, SumExtends

\* A deal adds its amount to the entries of its user and time, to others nothing.
LEMMA DealAddsToEntries ==
    ASSUME DataType, NEW p \in Clients, call[p] \in AllRequests, DealTakesEffect(p), ~Lost(p),
           NEW u \in Users, NEW t \in Times
    PROVE  Stored(u, t)' = IF call[p].id = u /\ call[p].time = t
                             THEN Stored(u, t) + call[p].amount ELSE Stored(u, t)
<1> DEFINE a == call[p].amount
           e == scores[call[p].id][call[p].time]
<1>1. /\ a \in Int /\ e \in Seq(Int) /\ call[p].id \in Users /\ call[p].time \in Times
      /\ \E new \in Seq(Int) :
           /\ scores' = [scores EXCEPT ![call[p].id][call[p].time] = new]
           /\ \/ e # <<>> /\ new = [e EXCEPT ![1] = @ + a]
              \/ new = Append(e, a)
              \/ request[p] = "add" /\ a \in ToSet(e) /\ new = e
  BY NewEntries, ZenonT(60)
<1>2. PICK new \in Seq(Int) :
        /\ scores' = [scores EXCEPT ![call[p].id][call[p].time] = new]
        /\ \/ e # <<>> /\ new = [e EXCEPT ![1] = @ + a]
           \/ new = Append(e, a)
           \/ request[p] = "add" /\ a \in ToSet(e) /\ new = e
  BY <1>1, ZenonT(60)
<1>3. scores \in [Users -> [Times -> Seq(Int)]]
  BY SMTT(60) DEF DataType
<1>4. scores'[u][t] = IF call[p].id = u /\ call[p].time = t THEN new ELSE scores[u][t]
  <2>1. scores[call[p].id] \in [Times -> Seq(Int)] /\ scores[u] \in [Times -> Seq(Int)]
    BY <1>1, <1>3, ZenonT(60)
  <2> QED
    BY <1>1, <1>2, <1>3, <2>1, ZenonT(60)
<1>5. Sum(new, Len(new)) = Sum(e, Len(e)) + a
  <2>1. CASE e # <<>> /\ new = [e EXCEPT ![1] = @ + a]
    <3> HIDE DEF a, e
    <3> QED
      BY <1>1, <2>1, IncrementedEntries
  <2>2. CASE new = Append(e, a)
    <3> HIDE DEF a, e
    <3> QED
      BY <1>1, <2>2, AddedEntry
  <2>3. CASE new = e
    <3>1. scores' = scores
      <4>1. scores[call[p].id] \in [Times -> Seq(Int)]
        BY <1>1, <1>3, ZenonT(60)
      <4> QED
        BY <1>1, <1>2, <1>3, <2>3, <4>1, ZenonT(60)
    <3>2. a = 0
      BY <3>1 DEF Lost, DealTakesEffect
    <3>3. Sum(e, Len(e)) \in Int
      <4> HIDE DEF a, e
      <4>1. Len(e) \in Nat /\ \A k \in 1..Len(e) : e[k] \in Int
        BY <1>1
      <4> QED
        BY <4>1, SumIsInteger
    <3> HIDE DEF a, e
    <3> QED
      BY <2>3, <3>2, <3>3
  <2> QED
    BY <1>2, <2>1, <2>2, <2>3, ZenonT(60)
<1> QED
  BY <1>4, <1>5 DEF Stored

\* A call adds to what is stored what its message adds to the sum.
LEMMA EffectIsAccountedFor ==
    ASSUME IInv, TypeInv, OriginInv, EarnedIsAccountedFor,
           NEW p \in Clients, call[p] # NoCall, ~Lost(p), DealTakesEffect(p) \/ OtherTakesEffect(p),
           applied' = [applied EXCEPT ![item[p]] = @ + 1], script' = script
    PROVE  EarnedIsAccountedFor'
<1> DEFINE m == item[p]
           a == script[m].amount
           n == Len(script)
<1>1. /\ m \in Messages /\ applied[m] \in Nat
      /\ script[m].command \in Commands
      /\ call[p] = RequestOf(script[m])
      /\ call[p] \in AllRequests /\ DataType
  <2>1. m \in Messages /\ applied[m] \in Nat /\ IsWellFormed(script[m])
    BY DEF IInv, ShapeInv, CallInv
  <2> QED
    BY <2>1 DEF IsWellFormed, HasCommand, OriginInv, TypeInv
<1>2. Messages = 1..n /\ n \in Nat /\ Messages' = Messages
  BY MessagesAreNumbers DEF IInv, Messages
<1>3. /\ applied'[m] = applied[m] + 1
      /\ \A k \in Messages : k # m => applied'[k] = applied[k]
  BY <1>1 DEF IInv, ShapeInv
<1>4. SUFFICES ASSUME NEW u \in Users, NEW t \in Times
               PROVE  Stored(u, t)' = Sum(Shares(u, t)', n)
  BY DEF EarnedIsAccountedFor
<1> DEFINE f == Shares(u, t)
           g == Shares(u, t)'
<1>5. /\ \A k \in Messages : f[k] = IF k \in DealsOf(u, t) THEN applied[k] * script[k].amount ELSE 0
      /\ \A k \in Messages : g[k] = IF k \in DealsOf(u, t) THEN applied'[k] * script[k].amount ELSE 0
  <2>1. DealsOf(u, t)' = DealsOf(u, t)
    BY <1>2 DEF DealsOf
  <2> QED
    BY <1>2, <2>1 DEF Shares
<1>6. a \in Int /\ \A k \in Messages : f[k] \in Int
  BY <1>1, SharesAreIntegers DEF IInv, TypeInv
<1>7. \A k \in Messages : k # m => g[k] = f[k]
  BY <1>3, <1>5
<1>8. Stored(u, t) = Sum(f, n)
  BY DEF EarnedIsAccountedFor
<1>11. m \in DealsOf(u, t) <=> IsDeal(p) /\ call[p].id = u /\ call[p].time = t
  <2>1. IsDeal(p) <=> script[m].command \in {"user_deal", "user_deal_won"}
    BY <1>1 DEF IsDeal, RequestOf, Callback, Commands
  <2>2. call[p].id = script[m].id /\ call[p].time = script[m].time
    BY <1>1 DEF RequestOf
  <2> HIDE DEF m
  <2> QED
    BY <1>1, <2>1, <2>2 DEF DealsOf
<1>12. Stored(u, t)' = IF m \in DealsOf(u, t) THEN Stored(u, t) + a ELSE Stored(u, t)
  <2>1. call[p].amount = a
    BY <1>1 DEF RequestOf
  <2>2. CASE DealTakesEffect(p)
    <3>1. Stored(u, t)' = IF call[p].id = u /\ call[p].time = t
                            THEN Stored(u, t) + call[p].amount ELSE Stored(u, t)
      BY <1>1, <2>2, DealAddsToEntries
    <3> HIDE DEF m, a
    <3> QED
      BY <1>11, <2>1, <2>2, <3>1 DEF DealTakesEffect
  <2>3. CASE OtherTakesEffect(p)
    <3>1. Stored(u, t)' = Stored(u, t) /\ ~IsDeal(p)
      BY <2>3 DEF OtherTakesEffect, Stored
    <3> QED
      BY <1>11, <3>1
  <2> QED
    BY <2>2, <2>3
<1>9. CASE m \in DealsOf(u, t)
  <2>1. g[m] = f[m] + a
    <3>1. f[m] = applied[m] * a /\ g[m] = (applied[m] + 1) * a
      BY <1>1, <1>3, <1>5, <1>9
    <3>2. \A x \in Nat, y \in Int : (x + 1) * y = x * y + y
      OBVIOUS
    <3> HIDE DEF f, g, m, a
    <3> QED
      BY <1>1, <1>6, <3>1, <3>2
  <2>2. Sum(g, n) = Sum(f, n) + a
    <3> HIDE DEF f, g, m, a, n
    <3> QED
      BY <1>1, <1>2, <1>6, <1>7, <2>1, SumGrows
  <2> HIDE DEF m, a, n, f, g
  <2> QED
    BY <1>8, <1>9, <1>12, <2>2 DEF g
<1>10. CASE m \notin DealsOf(u, t)
  <2>1. g = f
    <3>1. \A k \in Messages : g[k] = f[k]
      BY <1>1, <1>5, <1>7, <1>10
    <3> QED
      BY <1>2, <3>1 DEF Shares
  <2> QED
    BY <1>8, <1>10, <1>12, <2>1
<1> QED
  BY <1>9, <1>10

\* Without effects nothing is earned.
LEMMA NothingIsAccountedFor ==
    ASSUME ShapeInv, script \in Scripts, NEW u \in Users, NEW t \in Times,
           NEW share, share = [m \in Messages |-> IF m \in DealsOf(u, t) THEN 0 * script[m].amount ELSE 0]
    PROVE  Sum(share, Len(script)) = 0
<1>1. \A m \in Messages : script[m].amount \in Int
  BY SharesAreIntegers
<1>2. \A m \in Messages : share[m] = 0
  <2> TAKE m \in Messages
  <2>1. script[m].amount \in Int
    BY <1>1
  <2>2. 0 * script[m].amount = 0
    BY <2>1
  <2> QED
    BY <2>2
<1> QED
  BY <1>2, MessagesAreNumbers, SumOfZeros

\* Nor is anything stored.
LEMMA NothingIsStored ==
    ASSUME NEW u \in Users, NEW t \in Times, NEW entries, entries = <<>>
    PROVE  Sum(entries, Len(entries)) = 0
<1>1. Len(entries) = 0
  OBVIOUS
<1> QED
  BY <1>1, SumOfZeros

LEMMA InitEarned == Init => EarnedIsAccountedFor
<1> SUFFICES ASSUME Init, NEW u \in Users, NEW t \in Times
             PROVE  Stored(u, t) = Sum(Shares(u, t), Len(script))
  BY DEF EarnedIsAccountedFor
<1>1. ShapeInv /\ script \in Scripts
  BY InitIInv DEF IInv, Init
<1>2. Stored(u, t) = 0 /\ applied = [m \in Messages |-> 0]
  <2>1. scores[u][t] = <<>>
    BY DEF Init
  <2> QED
    BY <2>1, NothingIsStored DEF Stored, Init
<1>3. Shares(u, t) = [m \in Messages |-> IF m \in DealsOf(u, t) THEN 0 * script[m].amount ELSE 0]
  BY <1>2 DEF Shares
<1> QED
  BY <1>1, <1>2, <1>3, NothingIsAccountedFor

LEMMA EarnedStays ==
    ASSUME AllInv, EarnedIsAccountedFor, Next
    PROVE  EarnedIsAccountedFor'
<1> USE DEF AllInv
<1>1. ASSUME UNCHANGED <<script, scores, applied>>
      PROVE  EarnedIsAccountedFor'
  BY <1>1 DEF EarnedIsAccountedFor, Stored, Shares, DealsOf, Messages
<1>2. ASSUME NEW p \in Clients, StorageSucceeds(p) \/ StorageRefuses(p) \/ StorageFails(p)
      PROVE  EarnedIsAccountedFor'
  <2>1. /\ script' = script /\ call[p] # NoCall
        /\ \/ scores' = scores /\ applied' = applied
           \/ /\ ~Lost(p) /\ (DealTakesEffect(p) \/ OtherTakesEffect(p))
              /\ applied' = [applied EXCEPT ![item[p]] = @ + 1]
    BY <1>2, StorageChanges, EffectKinds
  <2> QED
    BY <1>1, <2>1, EffectIsAccountedFor
<1>3. CASE CrashAndRestart
  <2>1. CASE storageType = "MONGODB"
    BY <1>1, <1>3, <2>1 DEF CrashAndRestart, dataVars
  <2>2. CASE storageType # "MONGODB"
    <3>1. /\ script' = script
          /\ scores' = [u \in Users |-> [t \in Times |-> <<>>]]
          /\ applied' = [m \in Messages |-> 0]
      BY <1>3, <2>2 DEF CrashAndRestart
    <3>2. SUFFICES ASSUME NEW u \in Users, NEW t \in Times
                   PROVE  Stored(u, t)' = Sum(Shares(u, t)', Len(script))
      BY <3>1 DEF EarnedIsAccountedFor
    <3>3. Stored(u, t)' = 0
      <4>1. scores'[u][t] = <<>>
        BY <3>1
      <4> QED
        BY <4>1, NothingIsStored DEF Stored
    <3>4. Shares(u, t)' = [m \in Messages |->
                             IF m \in DealsOf(u, t) THEN 0 * script[m].amount ELSE 0]
      BY <3>1 DEF Shares, DealsOf, Messages
    <3> QED
      BY <3>3, <3>4, NothingIsAccountedFor DEF IInv, TypeInv
  <2> QED
    BY <2>1, <2>2
<1>4. ASSUME NEW p \in Clients,
             \/ Take(p) \/ ParseWellFormed(p) \/ ParseMalformed(p) \/ FindUser(p)
             \/ NothingToIncrement(p) \/ CallbackReturns(p) \/ Settle(p)
      PROVE  UNCHANGED <<script, scores, applied>>
  BY <1>4 DEF Take, ParseWellFormed, ParseMalformed, FindUser, NothingToIncrement, CallbackReturns,
              Settle, brokerVars, storageVars, dataVars, historyVars
<1>5. Publish \/ Deliver => UNCHANGED <<script, scores, applied>>
  BY DEF Publish, Deliver, storageVars, dataVars, historyVars
<1> QED
  BY <1>1, <1>2, <1>3, <1>4, <1>5 DEF Next, Process

\* However the processors overtake each other and the requests of their deals interleave,
\* and whatever is lost, delivered again or answered wrongly: what is stored is the sum of
\* the deals as often as they had an effect.
THEOREM EarnedStaysAccountedFor == Spec => []EarnedIsAccountedFor
<1> DEFINE Inv == AllInv /\ EarnedIsAccountedFor
<1>1. Init => Inv
  BY InitAllInv, InitEarned
<1>2. Inv /\ [Next]_vars => Inv'
  <2> SUFFICES ASSUME Inv, [Next]_vars PROVE Inv'
    OBVIOUS
  <2>1. AllInv'
    BY NextAllInv
  <2>2. CASE Next
    BY <2>1, <2>2, EarnedStays
  <2>3. CASE UNCHANGED vars
    <3>1. EarnedIsAccountedFor'
      BY <2>3 DEF vars, brokerVars, storageVars, dataVars, historyVars, EarnedIsAccountedFor,
                  Stored, Shares, DealsOf, Messages
    <3> QED
      BY <2>1, <3>1
  <2> QED
    BY <2>2, <2>3
<1> QED
  BY <1>1, <1>2, PTL DEF Spec

-----------------------------------------------------------------------------
(* How many are overtaken                                                  *)

BoundInv == \A m \in Messages : Cardinality(overtaken[m]) < Cardinality(Clients)

LEMMA InitBound == Init => BoundInv
<1> SUFFICES ASSUME Init PROVE BoundInv
  OBVIOUS
<1>1. Cardinality(Clients) \in Nat /\ Cardinality(Clients) # 0
  BY PipelineAssumption, FS_CardinalityType, FS_EmptySet
<1>2. Cardinality({}) = 0
  BY FS_EmptySet
<1> QED
  BY <1>1, <1>2 DEF Init, BoundInv

LEMMA TakeIsBounded ==
    ASSUME IInv, OrderInv, NEW p \in Clients, Take(p)
    PROVE  LET m == Head(queue)
               passed == {k \in 1..(m - 1) : verdict[k] = "none"}
           IN  \E D \in SUBSET (Clients \ {p}) :
                 /\ \A k \in passed : \E q \in D : item[q] = k
                 /\ \A q \in D : item[q] \in passed
<1> DEFINE m == Head(queue)
           passed == {k \in 1..(m - 1) : verdict[k] = "none"}
           D == {q \in Clients : item[q] \in passed}
<1>1. item[p] = 0 /\ queue # <<>>
  BY DEF Take
<1>2. m = queue[1] /\ 1 \in DOMAIN queue /\ m \in Messages
  BY <1>1, TailElements DEF IInv, ShapeInv
<1>3. m \in Nat /\ m \in unsettled
  BY <1>2, MessagesAreNumbers DEF IInv, PlaceInv
<1>4. ASSUME NEW k \in passed PROVE \E q \in D : item[q] = k
  <2>1. k \in unsettled /\ k < m
    BY <1>3 DEF OrderInv
  <2>2. ASSUME NEW i \in DOMAIN queue, queue[i] = k PROVE FALSE
    <3>1. DOMAIN queue \subseteq Nat /\ i >= 1
      BY DEF IInv, ShapeInv
    <3>2. i = 1 \/ queue[1] < queue[i]
      BY <1>2, <3>1 DEF OrderInv
    <3> QED
      BY <1>2, <1>3, <2>1, <2>2, <3>2
  <2>3. PICK q \in Clients : item[q] = k
    BY <2>1, <2>2 DEF OrderInv
  <2> QED
    BY <2>3
<1>5. p \notin D
  BY <1>1
<1>6. D \in SUBSET (Clients \ {p}) /\ \A q \in D : item[q] \in passed
  BY <1>5
<1> QED
  BY <1>4, <1>6

\* With one processor nothing is overtaken, with two one message at most, and so on.
LEMMA BoundStays ==
    ASSUME IInv, TypeInv, OrderInv, BoundInv, Next
    PROVE  BoundInv'
<1>1. ASSUME NEW p \in Clients, Take(p) PROVE BoundInv'
  <2> DEFINE m == Head(queue)
             passed == {k \in 1..(m - 1) : verdict[k] = "none"}
  <2>1. overtaken' = [overtaken EXCEPT ![m] = passed] /\ script' = script /\ queue # <<>>
    BY <1>1 DEF Take, FrontOfQueue, brokerVars
  <2>2. PICK D \in SUBSET (Clients \ {p}) :
          (\A k \in passed : \E q \in D : item[q] = k) /\ (\A q \in D : item[q] \in passed)
    BY <1>1, TakeIsBounded
  <2> HIDE DEF passed
  <2>3. [q \in D |-> item[q]] \in Surjection(D, passed)
    BY <2>2 DEF Surjection
  <2>4. IsFiniteSet(Clients) /\ IsFiniteSet(Clients \ {p}) /\ IsFiniteSet(D)
    BY PipelineAssumption, FS_Subset
  <2>5. Cardinality(passed) <= Cardinality(D) /\ IsFiniteSet(passed)
    BY <2>3, <2>4, FS_Surjection
  <2>6. Cardinality(D) <= Cardinality(Clients \ {p})
    BY <2>4, FS_Subset
  <2>7. Cardinality(Clients \ {p}) = Cardinality(Clients) - 1
    BY <2>4, FS_RemoveElement
  <2>8. /\ Cardinality(passed) \in Nat /\ Cardinality(D) \in Nat
        /\ Cardinality(Clients) \in Nat /\ Cardinality(Clients \ {p}) \in Nat
    BY <2>4, <2>5, FS_CardinalityType
  <2>9. Cardinality(passed) < Cardinality(Clients)
    BY <2>5, <2>6, <2>7, <2>8
  <2> HIDE DEF m
  <2>10. \A k \in Messages : overtaken'[k] = overtaken[k] \/ overtaken'[k] = passed
    BY <2>1 DEF TypeInv
  <2> QED
    BY <2>1, <2>9, <2>10 DEF BoundInv, Messages
<1>2. ASSUME UNCHANGED <<script, overtaken>> PROVE BoundInv'
  BY <1>2 DEF BoundInv, Messages
<1>3. ASSUME NEW p \in Clients,
             \/ ParseWellFormed(p) \/ ParseMalformed(p) \/ FindUser(p) \/ NothingToIncrement(p)
             \/ StorageSucceeds(p) \/ StorageRefuses(p) \/ StorageFails(p) \/ CallbackReturns(p)
             \/ Settle(p)
      PROVE  UNCHANGED <<script, overtaken>>
  BY <1>3 DEF ParseWellFormed, ParseMalformed, FindUser, NothingToIncrement, StorageSucceeds,
              StorageRefuses, StorageFails, CallbackReturns, Settle, brokerVars, historyVars
<1>4. Publish \/ Deliver \/ CrashAndRestart => UNCHANGED <<script, overtaken>>
  BY DEF Publish, Deliver, CrashAndRestart, historyVars
<1> QED
  BY <1>1, <1>2, <1>3, <1>4 DEF Next, Process

-----------------------------------------------------------------------------
(* Why a message is refused                                                *)

Taken(m) == verdict[m] # "none" \/ \E p \in Clients : item[p] = m

\* Without a crash a message is taken once, and everything published before it is settled
\* then or was overtaken.
OvertakeInv ==
    crashes = 0 =>
        \A k \in Messages :
            /\ Taken(k) => \A j \in 1..(k - 1) : verdict[j] = "none" => j \in overtaken[k]
            /\ ~Taken(k) => overtaken[k] = {} /\ applied[k] = 0

\* The reasons RefusalsAreExplained names
Excuse(m) ==
    \/ crashes + failures > 0
    \/ \E j \in 1..m : /\ script[j].id = script[m].id
                       /\ \/ IsWellFormed(script[j]) /\ ~CanBeDone(j)
                          \/ \E k \in Messages : script[k].id = script[m].id /\ j \in overtaken[k]

\* The messages of a user that had an effect through one of the calls ops
Done(u, ops) ==
    {k \in Messages : script[k].id = u /\ applied[k] > 0 /\ Callback(script[k].command) \in ops}

IsLast(k, set) == k \in set /\ \A j \in set : j <= k

Naming == {"storeUser", "renameUser"}
Moving == {"storeConnectedUser", "removeConnectedUser"}

\* What is stored is what the last message said, unless that one has overtaken another.
StoredInv ==
    \A u \in Users :
        /\ crashes = 0 /\ Done(u, Naming) = {} => names[u] = NoName
        /\ crashes = 0 /\ Done(u, Moving) = {} => u \notin connected
        /\ \A k \in Messages :
             /\ IsLast(k, Done(u, Naming)) /\ ~Excuse(k) => names[u] = script[k].name
             /\ IsLast(k, Done(u, Moving)) /\ ~Excuse(k) =>
                  (u \in connected <=> Callback(script[k].command) = "storeConnectedUser")

RefusedInv ==
    /\ \A m \in Messages : verdict[m] = "rejected" /\ IsWellFormed(script[m]) => Excuse(m)
    /\ \A p \in Clients : item[p] # 0 /\ Failed(p) /\ IsWellFormed(script[item[p]]) => Excuse(item[p])

ReasonInv == AllInv /\ OvertakeInv /\ StoredInv /\ RefusedInv

LEMMA ReasonsGrow ==
    ASSUME IInv, Next
    PROVE  /\ script' = script /\ Messages' = Messages
           /\ crashes \in Nat /\ failures \in Nat /\ crashes' \in Nat /\ failures' \in Nat
           /\ crashes' >= crashes /\ failures' >= failures
<1>1. crashes \in Nat /\ failures \in Nat
  BY DEF IInv, ShapeInv
<1>2. script' = script /\ (crashes' = crashes \/ crashes' = crashes + 1)
      /\ (failures' = failures \/ failures' = failures + 1)
  <2>1. ASSUME NEW p \in Clients, Process(p)
        PROVE  /\ script' = script /\ crashes' = crashes
               /\ failures' = failures \/ failures' = failures + 1
    BY <2>1 DEF Process, Take, ParseWellFormed, ParseMalformed, FindUser, NothingToIncrement,
                StorageSucceeds, StorageRefuses, StorageFails, CallbackReturns, Settle, brokerVars,
                historyVars
  <2>2. CASE Publish \/ Deliver
    BY <2>2 DEF Publish, Deliver, historyVars
  <2>3. CASE CrashAndRestart
    BY <2>3 DEF CrashAndRestart
  <2> QED
    BY <2>1, <2>2, <2>3 DEF Next
<1> QED
  BY <1>1, <1>2 DEF Messages

LEMMA CanBeDoneStays ==
    ASSUME script' = script, NEW j
    PROVE  CanBeDone(j)' <=> CanBeDone(j)
<1>1. \A ops : Earlier(j, ops)' = Earlier(j, ops)
  BY DEF Earlier
<1> QED
  BY <1>1 DEF CanBeDone

\* A reason stays one: without a crash a message is taken only once.
LEMMA ExcuseStays ==
    ASSUME IInv, TypeInv, OvertakeInv, Next, NEW m \in Messages, Excuse(m)
    PROVE  Excuse(m)'
<1>1. /\ script' = script /\ Messages' = Messages
      /\ crashes \in Nat /\ failures \in Nat /\ crashes' \in Nat /\ failures' \in Nat
      /\ crashes' >= crashes /\ failures' >= failures
  BY ReasonsGrow
<1>2. CASE crashes + failures > 0
  <2>1. \A a, b, c, d \in Nat : a >= c /\ b >= d /\ c + d > 0 => a + b > 0
    OBVIOUS
  <2>2. crashes' + failures' > 0
    BY <1>1, <1>2, <2>1
  <2> QED
    BY <2>2 DEF Excuse
<1>3. CASE ~(crashes + failures > 0)
  <2>1. PICK j \in 1..m : /\ script[j].id = script[m].id
                          /\ \/ IsWellFormed(script[j]) /\ ~CanBeDone(j)
                             \/ \E k \in Messages : script[k].id = script[m].id /\ j \in overtaken[k]
    BY <1>3 DEF Excuse
  <2>2. CASE IsWellFormed(script[j]) /\ ~CanBeDone(j)
    <3>1. ~CanBeDone(j)'
      BY <1>1, <2>2, CanBeDoneStays
    <3> QED
      BY <1>1, <2>1, <2>2, <3>1 DEF Excuse
  <2>3. ASSUME NEW k \in Messages, script[k].id = script[m].id, j \in overtaken[k]
        PROVE  Excuse(m)'
    <3>1. j \in overtaken'[k]
      <4>1. CASE overtaken' = overtaken
        BY <2>3, <4>1
      <4>2. ASSUME NEW p \in Clients, Take(p)
            PROVE  j \in overtaken'[k]
        <5> DEFINE h == Head(queue)
        <5>1. /\ queue # <<>>
              /\ overtaken' = [overtaken EXCEPT ![h] = {n \in 1..(h - 1) : verdict[n] = "none"}]
          BY <4>2 DEF Take, FrontOfQueue
        <5>2. h \in Messages /\ h = queue[1] /\ 1 \in DOMAIN queue
          BY <5>1, TailElements DEF IInv, ShapeInv
        <5>3. ~Taken(h)
          BY <5>2 DEF IInv, PlaceInv, Taken
        <5>4. overtaken[h] = {}
          BY <1>1, <1>3, <5>2, <5>3 DEF OvertakeInv
        <5>5. k # h
          BY <2>3, <5>4
        <5> HIDE DEF h
        <5> QED
          BY <2>3, <5>1, <5>5 DEF TypeInv
      <4>3. (\E p \in Clients : Take(p)) \/ overtaken' = overtaken
        <5>1. ASSUME NEW p \in Clients, Process(p) PROVE Take(p) \/ overtaken' = overtaken
          BY <5>1 DEF Process, ParseWellFormed, ParseMalformed, FindUser, NothingToIncrement,
                      StorageSucceeds, StorageRefuses, StorageFails, CallbackReturns, Settle,
                      historyVars
        <5>2. Publish \/ Deliver \/ CrashAndRestart => overtaken' = overtaken
          BY DEF Publish, Deliver, CrashAndRestart, historyVars
        <5> QED
          BY <5>1, <5>2 DEF Next
      <4> QED
        BY <4>1, <4>2, <4>3
    <3> QED
      BY <1>1, <2>1, <2>3, <3>1 DEF Excuse
  <2> QED
    BY <2>1, <2>2, <2>3
<1> QED
  BY <1>2, <1>3

LEMMA OvertakeStays ==
    ASSUME IInv, TypeInv, OvertakeInv, Next
    PROVE  OvertakeInv'
<1>0. /\ item \in [Clients -> Messages \cup {0}] /\ 0 \notin Messages
      /\ verdict \in [Messages -> {"none", "acked", "rejected"}]
      /\ overtaken \in [Messages -> SUBSET Messages]
      /\ applied \in [Messages -> Nat]
  BY MessagesAreNumbers DEF IInv, ShapeInv, TypeInv
<1>1. ASSUME NEW p \in Clients, Take(p) PROVE OvertakeInv'
  <2>2. PICK m \in Messages : m = Head(queue)
    BY <1>1, TailElements DEF Take, IInv, ShapeInv
  <2> DEFINE passed == {n \in 1..(m - 1) : verdict[n] = "none"}
  <2>1. /\ item[p] = 0 /\ queue # <<>>
        /\ item' = [item EXCEPT ![p] = m]
        /\ overtaken' = [overtaken EXCEPT ![m] = passed]
        /\ UNCHANGED <<script, verdict, applied, crashes>>
    BY <1>1, <2>2 DEF Take, FrontOfQueue, brokerVars
  <2>3. overtaken'[m] = passed /\ \A k \in Messages : k # m => overtaken'[k] = overtaken[k]
    BY <1>0, <2>1, <2>2
  <2>4. \A j \in 1..(m - 1) : verdict'[j] = "none" => j \in overtaken'[m]
    BY <2>1, <2>3
  <2>5. item'[p] = m /\ \A q \in Clients : q # p => item'[q] = item[q]
    BY <1>0, <2>1
  <2> HIDE DEF passed
  <2>6. \A k \in Messages : k # m => (Taken(k)' <=> Taken(k))
    BY <1>0, <2>1, <2>5 DEF Taken
  <2>7. Taken(m)'
    BY <2>5 DEF Taken
  <2> SUFFICES ASSUME crashes = 0, NEW k \in Messages
               PROVE  /\ Taken(k)' => \A j \in 1..(k - 1) : verdict'[j] = "none" => j \in overtaken'[k]
                      /\ ~Taken(k)' => overtaken'[k] = {} /\ applied'[k] = 0
    BY <2>1 DEF OvertakeInv, Messages
  <2>8. CASE k = m
    BY <2>4, <2>7, <2>8
  <2>9. CASE k # m
    BY <2>1, <2>3, <2>6, <2>9 DEF OvertakeInv
  <2> QED
    BY <2>8, <2>9
<1>2. ASSUME UNCHANGED <<script, verdict, item, overtaken, applied, crashes>> PROVE OvertakeInv'
  BY <1>2 DEF OvertakeInv, Taken, Messages
<1>3. ASSUME NEW p \in Clients, StorageSucceeds(p) \/ StorageRefuses(p) \/ StorageFails(p)
      PROVE  OvertakeInv'
  <2>1. /\ call[p] # NoCall
        /\ applied' = applied \/ applied' = [applied EXCEPT ![item[p]] = @ + 1]
        /\ UNCHANGED <<script, verdict, item, overtaken, crashes>>
    BY <1>3, StorageChanges, EffectKinds
  <2>2. \A k \in Messages : k # item[p] => applied'[k] = applied[k]
    BY <1>0, <2>1
  <2>3. \A k \in Messages : ~Taken(k) => applied'[k] = applied[k]
    BY <2>2 DEF Taken
  <2> QED
    BY <2>1, <2>3 DEF OvertakeInv, Taken, Messages
<1>4. ASSUME NEW p \in Clients, Settle(p) PROVE OvertakeInv'
  <2>1. /\ item[p] \in Messages
        /\ verdict' = [verdict EXCEPT ![item[p]] = VerdictOf(parsed[p])]
        /\ item' = [item EXCEPT ![p] = 0]
        /\ UNCHANGED <<script, overtaken, applied, crashes>>
    BY <1>0, <1>4 DEF Settle, historyVars, IInv, CallInv
  <2>2. verdict'[item[p]] # "none" /\ \A k \in Messages : k # item[p] => verdict'[k] = verdict[k]
    BY <1>0, <2>1 DEF VerdictOf
  <2>3. \A q \in Clients : q # p => item'[q] = item[q]
    BY <2>1
  <2>4. \A k \in Messages : Taken(k)' <=> Taken(k)
    BY <1>0, <2>1, <2>2, <2>3 DEF Taken
  <2>5. \A k \in Messages : \A j \in 1..(k - 1) : verdict'[j] = "none" => verdict[j] = "none"
    BY <2>2, MessagesAreNumbers DEF IInv
  <2> QED
    BY <2>1, <2>4, <2>5 DEF OvertakeInv, Messages
<1>5. ASSUME NEW p \in Clients,
             \/ ParseWellFormed(p) \/ ParseMalformed(p) \/ FindUser(p) \/ NothingToIncrement(p)
             \/ CallbackReturns(p)
      PROVE  UNCHANGED <<script, verdict, item, overtaken, applied, crashes>>
  BY <1>5 DEF ParseWellFormed, ParseMalformed, FindUser, NothingToIncrement, CallbackReturns,
              brokerVars, logicVars, historyVars
<1>6. Publish \/ Deliver => UNCHANGED <<script, verdict, item, overtaken, applied, crashes>>
  BY DEF Publish, Deliver, logicVars, historyVars
<1>7. CASE CrashAndRestart
  <2>1. crashes' # 0
    BY <1>7 DEF CrashAndRestart, IInv, ShapeInv
  <2> QED
    BY <2>1 DEF OvertakeInv
<1> QED
  BY <1>1, <1>2, <1>3, <1>4, <1>5, <1>6, <1>7 DEF Next, Process

\* The call of a message names the right user, and some are about names, some about
\* connections.
LEMMA EffectChanges ==
    ASSUME IInv, TypeInv, OriginInv, NEW p \in Clients, call[p] # NoCall,
           DealTakesEffect(p) \/ OtherTakesEffect(p), NEW m \in Messages, m = item[p]
    PROVE  /\ IsWellFormed(script[m])
           /\ Callback(script[m].command) \in Operations
           /\ script[m].id \in Users
           /\ \A u \in Users :
                /\ names'[u] = IF u = script[m].id /\ Callback(script[m].command) \in Naming
                                 THEN script[m].name ELSE names[u]
                /\ u \in connected' <=>
                     IF u = script[m].id /\ Callback(script[m].command) \in Moving
                       THEN Callback(script[m].command) = "storeConnectedUser" ELSE u \in connected
<1>1. IsWellFormed(script[m]) /\ call[p] = RequestOf(script[m]) /\ call[p] \in AllRequests
  BY DEF IInv, CallInv, OriginInv, TypeInv
<1>2. /\ call[p].op = Callback(script[m].command) /\ call[p].id = script[m].id
      /\ call[p].name = script[m].name
  BY <1>1 DEF RequestOf
<1>3. call[p].op \in Operations /\ call[p].id \in Users
  BY <1>1 DEF AllRequests
<1>4. names \in [Users -> Names \cup {NoName}]
  BY DEF TypeInv, DataType
<1>5. /\ call[p].op \in Naming => names' = [names EXCEPT ![call[p].id] = call[p].name]
      /\ call[p].op \notin Naming => names' = names
      /\ call[p].op = "storeConnectedUser" => connected' = connected \cup {call[p].id}
      /\ call[p].op = "removeConnectedUser" => connected' = connected \ {call[p].id}
      /\ call[p].op \notin Moving => connected' = connected
  <2>1. CASE DealTakesEffect(p)
    <3>1. call[p].op = "storeUserDeal" /\ UNCHANGED <<names, connected>>
      BY <1>1, <2>1, NewEntries DEF DealTakesEffect, IsDeal, TypeInv
    <3> QED
      BY <3>1, SMTT(60) DEF Naming, Moving
  <2>2. CASE OtherTakesEffect(p)
    <3>1. S!Effect(call[p]) /\ call[p].op # "storeUserDeal"
      BY <2>2 DEF OtherTakesEffect, IsDeal
    <3> QED
      BY <3>1 DEF S!Effect, Naming, Moving
  <2> QED
    BY <2>1, <2>2
<1>6. \A u \in Users : names'[u] = IF u = call[p].id /\ call[p].op \in Naming
                                     THEN call[p].name ELSE names[u]
  BY <1>3, <1>4, <1>5
<1>7. \A u \in Users : u \in connected' <=>
        IF u = call[p].id /\ call[p].op \in Moving
          THEN call[p].op = "storeConnectedUser" ELSE u \in connected
  BY <1>5 DEF Moving
<1> QED
  BY <1>1, <1>2, <1>3, <1>6, <1>7

\* The message that has its effect now is the last one of its kind and user, or another
\* one has overtaken it.
LEMMA LatestIsLast ==
    ASSUME IInv, TypeInv, OriginInv, OvertakeInv, Next,
           NEW p \in Clients, call[p] # NoCall, NEW m \in Messages, m = item[p],
           applied' = [applied EXCEPT ![m] = @ + 1],
           NEW u \in Users, NEW ops, NEW k \in Messages, IsLast(k, Done(u, ops))', ~Excuse(k)'
    PROVE  /\ u = script[m].id /\ Callback(script[m].command) \in ops => k = m
           /\ ~(u = script[m].id /\ Callback(script[m].command) \in ops) => IsLast(k, Done(u, ops))
           /\ ~Excuse(k)
<1>1. script' = script /\ Messages' = Messages
  BY ReasonsGrow
<1>2. ~Excuse(k)
  BY ExcuseStays
<1>3. applied \in [Messages -> Nat] /\ applied'[m] > 0
      /\ \A n \in Messages : n # m => applied'[n] = applied[n]
  BY DEF IInv, ShapeInv
<1>4. \A n \in Messages :
        /\ n # m => (n \in Done(u, ops)' <=> n \in Done(u, ops))
        /\ m \in Done(u, ops)' <=> u = script[m].id /\ Callback(script[m].command) \in ops
        /\ n \in Done(u, ops) => n \in Done(u, ops)'
  BY <1>1, <1>3 DEF Done
<1>5. /\ k \in Done(u, ops)' /\ \A j \in Done(u, ops)' : j <= k
      /\ Done(u, ops)' \subseteq Messages /\ Done(u, ops) \subseteq Messages
  BY <1>1 DEF IsLast, Done
<1>6. ASSUME u = script[m].id, Callback(script[m].command) \in ops, k # m PROVE FALSE
  <2>1. m \in Done(u, ops)' /\ k \in Done(u, ops)
    BY <1>4, <1>5, <1>6
  <2>2. m <= k /\ m \in Nat /\ k \in Nat /\ m >= 1
    BY <1>5, <2>1, MessagesAreNumbers DEF IInv
  <2>3. m \in 1..(k - 1) /\ m \in 1..k
    BY <1>6, <2>2
  <2>4. crashes = 0
    BY <1>2 DEF Excuse, IInv, ShapeInv
  <2>5. Taken(k)
    BY <2>1, <2>4 DEF OvertakeInv, Done
  <2>6. verdict[m] = "none"
    BY MessagesAreNumbers DEF IInv, PlaceInv
  <2>7. m \in overtaken[k]
    BY <2>3, <2>4, <2>5, <2>6 DEF OvertakeInv
  <2>8. script[m].id = script[k].id
    BY <1>6, <2>1 DEF Done
  <2> QED
    BY <1>2, <2>3, <2>7, <2>8 DEF Excuse
<1>7. ASSUME ~(u = script[m].id /\ Callback(script[m].command) \in ops)
      PROVE  IsLast(k, Done(u, ops))
  <2>1. k \in Done(u, ops)
    BY <1>4, <1>5, <1>7
  <2> QED
    BY <1>4, <1>5, <2>1 DEF IsLast
<1> QED
  BY <1>2, <1>6, <1>7

LEMMA StoredStays ==
    ASSUME IInv, TypeInv, OriginInv, OvertakeInv, StoredInv, Next
    PROVE  StoredInv'
<1>0. /\ script' = script /\ Messages' = Messages
      /\ crashes \in Nat /\ crashes' \in Nat /\ crashes' >= crashes
  BY ReasonsGrow
<1>1. ASSUME UNCHANGED <<names, connected, applied>> PROVE StoredInv'
  <2> SUFFICES ASSUME NEW u \in Users
               PROVE  /\ crashes' = 0 /\ Done(u, Naming)' = {} => names'[u] = NoName
                      /\ crashes' = 0 /\ Done(u, Moving)' = {} => u \notin connected'
                      /\ \A k \in Messages' :
                           /\ IsLast(k, Done(u, Naming))' /\ ~Excuse(k)' => names'[u] = script'[k].name
                           /\ IsLast(k, Done(u, Moving))' /\ ~Excuse(k)' =>
                                (u \in connected' <=> Callback(script'[k].command) = "storeConnectedUser")
    BY DEF StoredInv
  <2>1. Done(u, Naming)' = Done(u, Naming) /\ Done(u, Moving)' = Done(u, Moving)
    BY <1>0, <1>1 DEF Done, Naming, Moving
  <2>2. crashes' = 0 => crashes = 0
    BY <1>0
  <2>3. ASSUME NEW k \in Messages
        PROVE  /\ ~Excuse(k)' => ~Excuse(k)
               /\ IsLast(k, Done(u, Naming))' => IsLast(k, Done(u, Naming))
               /\ IsLast(k, Done(u, Moving))' => IsLast(k, Done(u, Moving))
    BY <2>1, ExcuseStays DEF IsLast
  <2> QED
    BY <1>0, <1>1, <2>1, <2>2, <2>3 DEF StoredInv
<1>2. ASSUME NEW p \in Clients, call[p] # NoCall, DealTakesEffect(p) \/ OtherTakesEffect(p),
             applied' = [applied EXCEPT ![item[p]] = @ + 1]
      PROVE  StoredInv'
  <2>1. PICK m \in Messages : m = item[p]
    BY <1>2 DEF IInv, ShapeInv, CallInv
  <2>2. /\ Callback(script[m].command) \in Operations
        /\ script[m].id \in Users
        /\ \A u \in Users :
             /\ names'[u] = IF u = script[m].id /\ Callback(script[m].command) \in Naming
                              THEN script[m].name ELSE names[u]
             /\ u \in connected' <=>
                  IF u = script[m].id /\ Callback(script[m].command) \in Moving
                    THEN Callback(script[m].command) = "storeConnectedUser" ELSE u \in connected
    BY <1>2, <2>1, EffectChanges
  <2>3. applied' = [applied EXCEPT ![m] = @ + 1]
    BY <1>2, <2>1
  <2> SUFFICES ASSUME NEW u \in Users
               PROVE  /\ crashes' = 0 /\ Done(u, Naming)' = {} => names'[u] = NoName
                      /\ crashes' = 0 /\ Done(u, Moving)' = {} => u \notin connected'
                      /\ \A k \in Messages' :
                           /\ IsLast(k, Done(u, Naming))' /\ ~Excuse(k)' => names'[u] = script'[k].name
                           /\ IsLast(k, Done(u, Moving))' /\ ~Excuse(k)' =>
                                (u \in connected' <=> Callback(script'[k].command) = "storeConnectedUser")
    BY DEF StoredInv
  <2>4. crashes' = 0 => crashes = 0
    BY <1>0
  <2>5. applied \in [Messages -> Nat] /\ applied'[m] > 0
        /\ \A n \in Messages : n # m => applied'[n] = applied[n]
    BY <2>3 DEF IInv, ShapeInv
  <2>6. ASSUME NEW ops, Done(u, ops)' = {}
        PROVE  Done(u, ops) = {} /\ ~(u = script[m].id /\ Callback(script[m].command) \in ops)
    <3>1. u = script[m].id /\ Callback(script[m].command) \in ops => m \in Done(u, ops)'
      BY <1>0, <2>5 DEF Done
    <3>2. \A n \in Done(u, ops) : n \in Done(u, ops)'
      BY <1>0, <2>5 DEF Done
    <3> QED
      BY <2>6, <3>1, <3>2
  <2>7. crashes' = 0 /\ Done(u, Naming)' = {} => names'[u] = NoName
    <3>1. Done(u, Naming)' = {} =>
            Done(u, Naming) = {} /\ ~(u = script[m].id /\ Callback(script[m].command) \in Naming)
      BY <2>6 DEF Naming
    <3> QED
      BY <2>2, <2>4, <3>1 DEF StoredInv
  <2>8. crashes' = 0 /\ Done(u, Moving)' = {} => u \notin connected'
    <3>1. Done(u, Moving)' = {} =>
            Done(u, Moving) = {} /\ ~(u = script[m].id /\ Callback(script[m].command) \in Moving)
      BY <2>6 DEF Moving
    <3> QED
      BY <2>2, <2>4, <3>1 DEF StoredInv
  <2>9. ASSUME NEW k \in Messages, IsLast(k, Done(u, Naming))', ~Excuse(k)'
        PROVE  names'[u] = script[k].name
    <3>1. /\ u = script[m].id /\ Callback(script[m].command) \in Naming => k = m
          /\ ~(u = script[m].id /\ Callback(script[m].command) \in Naming) =>
               IsLast(k, Done(u, Naming))
          /\ ~Excuse(k)
      BY <1>2, <2>1, <2>3, <2>9, LatestIsLast, ZenonT(60) DEF Naming
    <3> QED
      BY <2>2, <3>1 DEF StoredInv
  <2>10. ASSUME NEW k \in Messages, IsLast(k, Done(u, Moving))', ~Excuse(k)'
         PROVE  u \in connected' <=> Callback(script[k].command) = "storeConnectedUser"
    <3>1. /\ u = script[m].id /\ Callback(script[m].command) \in Moving => k = m
          /\ ~(u = script[m].id /\ Callback(script[m].command) \in Moving) =>
               IsLast(k, Done(u, Moving))
          /\ ~Excuse(k)
      BY <1>2, <2>1, <2>3, <2>10, LatestIsLast, ZenonT(60) DEF Moving
    <3> QED
      BY <2>2, <3>1 DEF StoredInv
  <2> QED
    BY <1>0, <2>7, <2>8, <2>9, <2>10
<1>3. CASE CrashAndRestart
  <2>1. crashes' # 0 /\ crashes' + failures' > 0
    BY <1>3 DEF CrashAndRestart, IInv, ShapeInv
  <2> QED
    BY <2>1 DEF StoredInv, Excuse
<1>4. ASSUME NEW p \in Clients, StorageSucceeds(p) \/ StorageRefuses(p) \/ StorageFails(p)
      PROVE  StoredInv'
  <2>1. /\ call[p] # NoCall
        /\ \/ UNCHANGED <<names, connected, applied>>
           \/ /\ DealTakesEffect(p) \/ OtherTakesEffect(p)
              /\ applied' = [applied EXCEPT ![item[p]] = @ + 1]
    BY <1>4, StorageChanges, EffectKinds
  <2> QED
    BY <1>1, <1>2, <2>1
<1>5. ASSUME NEW p \in Clients,
             \/ Take(p) \/ ParseWellFormed(p) \/ ParseMalformed(p) \/ FindUser(p)
             \/ NothingToIncrement(p) \/ CallbackReturns(p) \/ Settle(p)
      PROVE  UNCHANGED <<names, connected, applied>>
  BY <1>5 DEF Take, ParseWellFormed, ParseMalformed, FindUser, NothingToIncrement, CallbackReturns,
              Settle, storageVars, dataVars, historyVars
<1>6. Publish \/ Deliver => UNCHANGED <<names, connected, applied>>
  BY DEF Publish, Deliver, storageVars, dataVars, historyVars
<1> QED
  BY <1>1, <1>3, <1>4, <1>5, <1>6 DEF Next, Process

\* Without a reason the storage has done for a user what was published before, and nothing
\* that was published later; but for deals, which may be lost.
LEMMA DoneIsEarlier ==
    ASSUME ReasonInv, NEW p \in Clients, NEW m \in Messages, m = item[p],
           call[p] # NoCall, reply[p] = "none", ~Excuse(m)
    PROVE  /\ \A ops : "storeUserDeal" \notin ops => Done(script[m].id, ops) = Earlier(m, ops)
           /\ \A k \in 1..(m - 1) : script[k].id = script[m].id => ~Excuse(k)
           /\ crashes = 0
<1>1. crashes = 0 /\ failures = 0
  BY DEF Excuse, ReasonInv, AllInv, IInv, ShapeInv
<1>2. m # 0 /\ m \in Nat /\ verdict[m] = "none" /\ Taken(m) /\ Messages = 1..Len(script) /\ Len(script) \in Nat
  BY MessagesAreNumbers DEF ReasonInv, AllInv, IInv, PlaceInv, Taken
<1>3. \A k \in 1..(m - 1) : k \in Messages /\ k \in 1..m
  BY <1>2
<1>4. ASSUME NEW k \in 1..(m - 1), script[k].id = script[m].id PROVE ~Excuse(k)
  <2>1. SUFFICES ASSUME Excuse(k) PROVE FALSE
    OBVIOUS
  <2>2. PICK j \in 1..k : /\ script[j].id = script[k].id
                          /\ \/ IsWellFormed(script[j]) /\ ~CanBeDone(j)
                             \/ \E n \in Messages : script[n].id = script[k].id /\ j \in overtaken[n]
    BY <1>1, <2>1 DEF Excuse
  <2>3. j \in 1..m
    BY <1>2
  <2> QED
    BY <1>4, <2>2, <2>3 DEF Excuse
<1>5. ASSUME NEW k \in 1..(m - 1), script[k].id = script[m].id, IsWellFormed(script[k]),
             Callback(script[k].command) # "storeUserDeal"
      PROVE  applied[k] > 0
  <2>1. verdict[k] # "none"
    <3>1. SUFFICES ASSUME verdict[k] = "none" PROVE FALSE
      OBVIOUS
    <3>2. k \in overtaken[m]
      BY <1>1, <1>2, <3>1 DEF ReasonInv, AllInv, OvertakeInv
    <3> QED
      BY <1>3, <1>5, <3>2 DEF Excuse
  <2>2. verdict[k] # "rejected"
    BY <1>3, <1>4, <1>5 DEF ReasonInv, AllInv, RefusedInv
  <2>3. verdict[k] = "acked"
    BY <1>3, <2>1, <2>2 DEF ReasonInv, AllInv, IInv, ShapeInv
  <2>4. ~Raced(k)
    BY <1>5 DEF Raced, Races, DealsOf, Callback
  <2> QED
    BY <1>1, <1>3, <2>3, <2>4 DEF ReasonInv, AllInv, IInv, AckedIsStored
<1>6. ASSUME NEW k \in Messages, script[k].id = script[m].id, applied[k] > 0
      PROVE  k \in 1..(m - 1) /\ IsWellFormed(script[k])
  <2>1. IsWellFormed(script[k])
    BY <1>6 DEF ReasonInv, AllInv, IInv, EffectsAreCounted, ShapeInv
  <2>2. k # m
    <3>1. ~Succeeded(p) /\ ~Failed(p)
      BY DEF Succeeded, Failed, ReasonInv, AllInv, IInv, CallInv
    <3>2. \A q \in Clients : item[q] = m => q = p
      BY <1>2 DEF ReasonInv, AllInv, IInv, PlaceInv
    <3>3. applied[m] <= crashes
      BY <1>2, <3>1, <3>2 DEF ReasonInv, AllInv, IInv, FreshInv
    <3> QED
      BY <1>1, <1>6, <3>3 DEF ReasonInv, AllInv, IInv, ShapeInv
  <2>3. ~(m < k)
    <3>1. SUFFICES ASSUME m < k PROVE FALSE
      OBVIOUS
    <3>2. Taken(k)
      BY <1>1, <1>6 DEF ReasonInv, AllInv, OvertakeInv
    <3>3. m \in 1..(k - 1) /\ m \in 1..m
      BY <1>2, <3>1
    <3>4. m \in overtaken[k]
      BY <1>1, <1>2, <3>2, <3>3 DEF ReasonInv, AllInv, OvertakeInv
    <3> QED
      BY <1>6, <3>3, <3>4 DEF Excuse
  <2>4. k \in 1..(m - 1)
    BY <1>2, <2>2, <2>3
  <2> QED
    BY <2>1, <2>4
<1>7. ASSUME NEW ops, "storeUserDeal" \notin ops PROVE Done(script[m].id, ops) = Earlier(m, ops)
  <2>1. ASSUME NEW k \in Done(script[m].id, ops) PROVE k \in Earlier(m, ops)
    BY <1>6 DEF Done, Earlier
  <2>2. ASSUME NEW k \in Earlier(m, ops) PROVE k \in Done(script[m].id, ops)
    BY <1>3, <1>5, <1>7 DEF Done, Earlier
  <2> QED
    BY <2>1, <2>2
<1> QED
  BY <1>1, <1>4, <1>7

\* So it can do what the message asks for.
LEMMA RefusalHasReason ==
    ASSUME ReasonInv, NEW p \in Clients, NEW m \in Messages, m = item[p],
           call[p] # NoCall, reply[p] = "none", S!Futile(call[p])
    PROVE  Excuse(m)
<1>1. SUFFICES ASSUME ~Excuse(m) PROVE FALSE
  OBVIOUS
<1> DEFINE u == script[m].id
           op == Callback(script[m].command)
           naming == Earlier(m, Naming)
           moving == Earlier(m, Moving)
<1>2. /\ Done(u, Naming) = naming /\ Done(u, Moving) = moving
      /\ \A k \in 1..(m - 1) : script[k].id = u => ~Excuse(k)
      /\ crashes = 0
  BY <1>1, DoneIsEarlier DEF Naming, Moving
<1>3. IsWellFormed(script[m]) /\ call[p] = RequestOf(script[m]) /\ call[p] \in AllRequests
  BY DEF ReasonInv, AllInv, IInv, CallInv, OriginInv, TypeInv
<1>4. /\ call[p].op = op /\ call[p].id = u /\ call[p].name = script[m].name
      /\ op \in Operations /\ u \in Users
  BY <1>3 DEF RequestOf, AllRequests
<1>5. m \in 1..m /\ m - 1 \in Nat
  BY MessagesAreNumbers DEF ReasonInv, AllInv, IInv
<1>6. CanBeDone(m)
  BY <1>1, <1>3, <1>5 DEF Excuse
<1>7. /\ op = "storeUser" => naming = {}
      /\ op \in {"renameUser", "storeUserDeal"} => naming # {}
      /\ op = "renameUser" => script[Max(naming)].name # script[m].name
      /\ op = "storeConnectedUser" =>
           ~(moving # {} /\ Callback(script[Max(moving)].command) = "storeConnectedUser")
      /\ op = "removeConnectedUser" =>
           moving # {} /\ Callback(script[Max(moving)].command) = "storeConnectedUser"
  BY <1>6 DEF CanBeDone, Naming, Moving
<1>8. ASSUME NEW ops, Earlier(m, ops) # {}, Done(u, ops) = Earlier(m, ops)
      PROVE  /\ Max(Earlier(m, ops)) \in Messages
             /\ IsLast(Max(Earlier(m, ops)), Done(u, ops)) /\ ~Excuse(Max(Earlier(m, ops)))
  <2>1. Earlier(m, ops) \subseteq 1..(m - 1)
    BY DEF Earlier
  <2>2. Max(Earlier(m, ops)) \in Earlier(m, ops) /\ \A j \in Earlier(m, ops) : Max(Earlier(m, ops)) >= j
    BY <1>5, <1>8, <2>1, LastPosition, SMTT(60)
  <2>3. Max(Earlier(m, ops)) \in 1..(m - 1) /\ script[Max(Earlier(m, ops))].id = u
    BY <2>2 DEF Earlier
  <2>4. Max(Earlier(m, ops)) \in Messages
    BY <1>5, <2>3, MessagesAreNumbers DEF ReasonInv, AllInv, IInv
  <2>5. \A j \in Earlier(m, ops) : j <= Max(Earlier(m, ops))
    BY <2>1, <2>2, <2>3
  <2> QED
    BY <1>2, <1>8, <2>2, <2>3, <2>4, <2>5 DEF IsLast
<1>9. names[u] = IF naming = {} THEN NoName ELSE script[Max(naming)].name
  <2>1. CASE naming = {}
    BY <1>2, <1>4, <2>1 DEF ReasonInv, AllInv, StoredInv
  <2>2. CASE naming # {}
    <3>1. /\ Max(naming) \in Messages /\ IsLast(Max(naming), Done(u, Naming)) /\ ~Excuse(Max(naming))
      BY <1>2, <1>8, <2>2 DEF Naming
    <3> QED
      BY <1>4, <2>2, <3>1 DEF ReasonInv, AllInv, StoredInv
  <2> QED
    BY <2>1, <2>2
<1>10. u \in connected <=> moving # {} /\ Callback(script[Max(moving)].command) = "storeConnectedUser"
  <2>1. CASE moving = {}
    BY <1>2, <1>4, <2>1 DEF ReasonInv, AllInv, StoredInv
  <2>2. CASE moving # {}
    <3>1. /\ Max(moving) \in Messages /\ IsLast(Max(moving), Done(u, Moving)) /\ ~Excuse(Max(moving))
      BY <1>2, <1>8, <2>2 DEF Moving
    <3> QED
      BY <1>4, <2>2, <3>1 DEF ReasonInv, AllInv, StoredInv
  <2> QED
    BY <2>1, <2>2
<1>11. naming # {} => script[Max(naming)].name # NoName
  <2>1. SUFFICES ASSUME naming # {} PROVE script[Max(naming)].name # NoName
    OBVIOUS
  <2>2. Max(naming) \in Messages
    BY <1>2, <1>8, <2>1 DEF Naming
  <2> QED
    BY <2>2, ScriptsAssumption, RequestsAssumption DEF ReasonInv, AllInv, TypeInv, Messages
<1> HIDE DEF u, op, naming, moving
<1> QED
  BY <1>4, <1>7, <1>9, <1>10, <1>11 DEF S!Futile, S!Registered

LEMMA RefusedStays ==
    ASSUME ReasonInv, Next
    PROVE  RefusedInv'
<1>0. /\ script' = script /\ Messages' = Messages
      /\ crashes \in Nat /\ failures \in Nat /\ failures' \in Nat /\ crashes' \in Nat
      /\ item \in [Clients -> Messages \cup {0}] /\ 0 \notin Messages
      /\ \A m \in Messages : Excuse(m) => Excuse(m)'
  BY ReasonsGrow, ExcuseStays, MessagesAreNumbers DEF ReasonInv, AllInv, IInv, ShapeInv
\* It is enough to look at the verdicts and the failures that are new.
<1>1. ASSUME \A m \in Messages : verdict'[m] = "rejected" /\ verdict[m] # "rejected"
               /\ IsWellFormed(script[m]) => Excuse(m)',
             \A q \in Clients, m \in Messages : item'[q] = m /\ Failed(q)'
               /\ ~(item[q] = m /\ Failed(q)) /\ IsWellFormed(script[m]) => Excuse(m)',
             \A q \in Clients : item'[q] \in Messages \cup {0}
      PROVE  RefusedInv'
  <2>1. \A m \in Messages : verdict'[m] = "rejected" /\ IsWellFormed(script[m]) => Excuse(m)'
    BY <1>0, <1>1 DEF ReasonInv, AllInv, RefusedInv
  <2>2. \A q \in Clients, m \in Messages :
          item'[q] = m /\ Failed(q)' /\ IsWellFormed(script[m]) => Excuse(m)'
    BY <1>0, <1>1 DEF ReasonInv, AllInv, RefusedInv
  <2>3. ASSUME NEW q \in Clients, item'[q] # 0, Failed(q)', IsWellFormed(script[item'[q]])
        PROVE  Excuse(item[q])'
    <3>1. PICK m \in Messages : m = item'[q]
      BY <1>1, <2>3
    <3>2. Excuse(m)'
      BY <2>2, <2>3, <3>1
    <3> QED
      BY <3>1, <3>2 DEF Excuse
  <2> QED
    BY <1>0, <2>1, <2>3 DEF RefusedInv
<1>2. ASSUME UNCHANGED <<verdict, item, parsed, reply>> PROVE RefusedInv'
  BY <1>0, <1>1, <1>2 DEF Failed
<1>3. ASSUME NEW p \in Clients, Take(p) PROVE RefusedInv'
  <2>1. /\ item[p] = 0 /\ queue # <<>> /\ item' = [item EXCEPT ![p] = Head(queue)]
        /\ UNCHANGED <<verdict, parsed, reply>>
    BY <1>3 DEF Take, FrontOfQueue, brokerVars, storageVars
  <2>2. Head(queue) \in Messages
    BY <2>1, TailElements DEF ReasonInv, AllInv, IInv, ShapeInv
  <2>3. ~Failed(p)'
    <3>1. parsed[p] = "none" /\ call[p] = NoCall /\ reply[p] = "none"
      BY <2>1 DEF ReasonInv, AllInv, IInv, CallInv, ShapeInv
    <3> QED
      BY <2>1, <3>1 DEF Failed
  <2>4. \A q \in Clients : q # p => item'[q] = item[q] /\ (Failed(q)' <=> Failed(q))
    BY <2>1 DEF Failed
  <2>5. \A q \in Clients : item'[q] \in Messages \cup {0}
    BY <1>0, <2>1, <2>2
  <2>6. \A q \in Clients : ~(Failed(q)' /\ ~(item[q] = item'[q] /\ Failed(q)))
    BY <2>3, <2>4
  <2> QED
    BY <1>1, <2>1, <2>5, <2>6
<1>4. ASSUME NEW p \in Clients, ParseMalformed(p) PROVE RefusedInv'
  <2>1. /\ ~IsWellFormed(script[item[p]])
        /\ parsed' = [parsed EXCEPT ![p] = ParseError(script[item[p]])]
        /\ UNCHANGED <<verdict, item, reply>>
    BY <1>4 DEF ParseMalformed, brokerVars, storageVars
  <2>2. \A q \in Clients : q # p => (Failed(q)' <=> Failed(q))
    BY <2>1 DEF Failed
  <2> QED
    BY <1>0, <1>1, <2>1, <2>2
<1>5. ASSUME NEW p \in Clients, StorageSucceeds(p) \/ StorageRefuses(p) \/ StorageFails(p)
      PROVE  RefusedInv'
  <2>1. PICK m \in Messages : m = item[p] /\ call[p] # NoCall /\ reply[p] = "none"
    BY <1>5, StorageChanges DEF ReasonInv, AllInv, IInv, ShapeInv, CallInv
  <2>2. /\ UNCHANGED <<verdict, item, parsed>>
        /\ \/ reply' = [reply EXCEPT ![p] = "SUCCESS"]
           \/ reply' = [reply EXCEPT ![p] = "ERROR"] /\ (S!Futile(call[p]) \/ failures' = failures + 1)
    BY <1>5, StorageChanges
  <2>3. \A q \in Clients : q # p => (Failed(q)' <=> Failed(q))
    <3>1. \A q \in Clients : q # p => reply'[q] = reply[q]
      BY <2>2 DEF ReasonInv, AllInv, IInv, ShapeInv
    <3> QED
      BY <2>2, <3>1 DEF Failed
  <2>4. reply \in [Clients -> {"none", "SUCCESS", "ERROR"}] /\ parsed[p] = "none"
    BY <2>1 DEF ReasonInv, AllInv, IInv, ShapeInv, CallInv
  <2>5. Failed(p)' => Excuse(m)'
    <3>1. CASE reply' = [reply EXCEPT ![p] = "SUCCESS"]
      BY <2>2, <2>4, <3>1 DEF Failed
    <3>2. CASE S!Futile(call[p])
      BY <1>0, <2>1, <3>2, RefusalHasReason
    <3>3. CASE failures' = failures + 1
      <4>1. \A a, b \in Nat : a + (b + 1) > 0
        OBVIOUS
      <4>2. crashes' + failures' > 0
        BY <1>0, <3>3, <4>1
      <4> QED
        BY <4>2 DEF Excuse
    <3> QED
      BY <2>2, <3>1, <3>2, <3>3
  <2> QED
    BY <1>0, <1>1, <2>1, <2>2, <2>3, <2>5
<1>6. ASSUME NEW p \in Clients, CallbackReturns(p) PROVE RefusedInv'
  <2>1. /\ reply[p] # "none" /\ parsed[p] = "none"
        /\ reply' = [reply EXCEPT ![p] = "none"]
        /\ parsed' = [parsed EXCEPT ![p] = IF reply[p] = "SUCCESS" THEN "SUCCESS" ELSE "FAILED"]
        /\ UNCHANGED <<verdict, item>>
    BY <1>6 DEF CallbackReturns, brokerVars, ReasonInv, AllInv, IInv, CallInv
  <2>2. \A q \in Clients : q # p => (Failed(q)' <=> Failed(q))
    BY <2>1 DEF Failed
  <2>3. Failed(p)' => Failed(p)
    BY <2>1 DEF Failed, ReasonInv, AllInv, IInv, ShapeInv
  <2> QED
    BY <1>0, <1>1, <2>1, <2>2, <2>3
<1>7. ASSUME NEW p \in Clients, Settle(p) PROVE RefusedInv'
  <2>1. PICK m \in Messages :
          /\ m = item[p] /\ parsed[p] # "none"
          /\ verdict' = [verdict EXCEPT ![m] = VerdictOf(parsed[p])]
          /\ item' = [item EXCEPT ![p] = 0]
          /\ parsed' = [parsed EXCEPT ![p] = "none"]
          /\ reply' = reply
    BY <1>0, <1>7 DEF Settle, storageVars, ReasonInv, AllInv, IInv, CallInv
  <2>2. \A k \in Messages : k # m => verdict'[k] = verdict[k]
    BY <2>1
  <2>3. verdict'[m] = "rejected" => Failed(p)
    BY <2>1 DEF VerdictOf, Failed, ReasonInv, AllInv, IInv, ShapeInv
  <2>4. verdict'[m] = "rejected" /\ IsWellFormed(script[m]) => Excuse(m)'
    <3>1. Failed(p) /\ IsWellFormed(script[m]) => Excuse(item[p])
      BY <1>0, <2>1 DEF ReasonInv, AllInv, RefusedInv
    <3>2. Excuse(item[p]) => Excuse(m)
      BY <2>1
    <3> QED
      BY <1>0, <2>3, <3>1, <3>2
  <2>5. item'[p] = 0 /\ \A q \in Clients : q # p => item'[q] = item[q] /\ (Failed(q)' <=> Failed(q))
    BY <1>0, <2>1 DEF Failed
  <2> QED
    BY <1>0, <1>1, <2>2, <2>4, <2>5
<1>8. CASE CrashAndRestart
  <2>1. crashes' + failures' > 0
    BY <1>0, <1>8 DEF CrashAndRestart
  <2> QED
    BY <2>1 DEF RefusedInv, Excuse
<1>9. Publish \/ Deliver
        \/ (\E p \in Clients : ParseWellFormed(p) \/ FindUser(p) \/ NothingToIncrement(p))
        => UNCHANGED <<verdict, item, parsed, reply>>
  BY DEF Publish, Deliver, ParseWellFormed, FindUser, NothingToIncrement, brokerVars, logicVars,
         storageVars
<1> QED
  BY <1>2, <1>3, <1>4, <1>5, <1>6, <1>7, <1>8, <1>9 DEF Next, Process

LEMMA InitReason == Init => ReasonInv
<1> SUFFICES ASSUME Init PROVE ReasonInv
  OBVIOUS
<1>1. AllInv
  BY InitAllInv
<1>2. OvertakeInv
  BY DEF Init, OvertakeInv, Taken, Messages
<1>3. \A u, ops : Done(u, ops) = {}
  BY DEF Init, Done
<1>4. StoredInv
  BY <1>3 DEF Init, S!Init, StoredInv, IsLast
<1>5. RefusedInv
  BY DEF Init, RefusedInv
<1> QED
  BY <1>1, <1>2, <1>4, <1>5 DEF ReasonInv

LEMMA NextReason == ReasonInv /\ [Next]_vars => ReasonInv'
<1> SUFFICES ASSUME ReasonInv, [Next]_vars PROVE ReasonInv'
  OBVIOUS
<1>1. AllInv'
  BY NextAllInv DEF ReasonInv
<1>2. CASE Next
  BY <1>1, <1>2, OvertakeStays, StoredStays, RefusedStays DEF ReasonInv, AllInv
<1>3. CASE UNCHANGED vars
  <2> USE <1>3 DEF vars, brokerVars, logicVars, storageVars, dataVars, historyVars
  <2>2. OvertakeInv'
    BY DEF ReasonInv, AllInv, OvertakeInv, Taken, Messages
  <2>3. \A m \in Messages : Excuse(m)' <=> Excuse(m)
    BY CanBeDoneStays DEF Excuse, Messages
  <2>4. \A u \in Users : Done(u, Naming)' = Done(u, Naming) /\ Done(u, Moving)' = Done(u, Moving)
    BY DEF Done, Naming, Moving, Messages
  <2>5. StoredInv'
    BY <2>3, <2>4 DEF ReasonInv, AllInv, StoredInv, IsLast, Messages
  <2>6. RefusedInv'
    <3>1. \A m \in Messages : verdict[m] = "rejected" /\ IsWellFormed(script[m]) => Excuse(m)'
      BY <2>3 DEF ReasonInv, AllInv, RefusedInv
    <3>2. ASSUME NEW p \in Clients, item[p] # 0, Failed(p), IsWellFormed(script[item[p]])
          PROVE  Excuse(item[p])'
      <4>1. PICK m \in Messages : m = item[p]
        BY <3>2 DEF ReasonInv, AllInv, IInv, ShapeInv
      <4>2. Excuse(m)'
        BY <2>3, <3>2, <4>1 DEF ReasonInv, AllInv, RefusedInv
      <4> QED
        BY <4>1, <4>2 DEF Excuse
    <3> QED
      BY <3>1, <3>2 DEF RefusedInv, Failed, Messages
  <2> QED
    BY <1>1, <2>2, <2>5, <2>6 DEF ReasonInv
<1> QED
  BY <1>2, <1>3

\* Where it stands in the order of publication and who overtook whom explains every
\* refusal when nothing crashes or fails, for any scripts and number of processors.
THEOREM RefusalsHaveReasons == Spec => []RefusalsAreExplained
<1>1. Init => ReasonInv /\ BoundInv
  BY InitReason, InitBound
<1>2. ReasonInv /\ BoundInv /\ [Next]_vars => ReasonInv' /\ BoundInv'
  <2> SUFFICES ASSUME ReasonInv, BoundInv, [Next]_vars PROVE ReasonInv' /\ BoundInv'
    OBVIOUS
  <2>1. ReasonInv'
    BY NextReason
  <2>2. CASE Next
    BY <2>1, <2>2, BoundStays DEF ReasonInv, AllInv
  <2>3. CASE UNCHANGED vars
    BY <2>1, <2>3 DEF vars, brokerVars, historyVars, BoundInv, Messages
  <2> QED
    BY <2>1, <2>2, <2>3
<1>3. ReasonInv /\ BoundInv => RefusalsAreExplained
  BY DEF ReasonInv, RefusedInv, BoundInv, Excuse, RefusalsAreExplained
<1> QED
  BY <1>1, <1>2, <1>3, PTL DEF Spec

=============================================================================
