--------------------------- MODULE EventLoopProofs ---------------------------
(***************************************************************************)
(* The two vectors of the event loop stay aligned, and what is polled is   *)
(* what the library asked for, for any connections and descriptors and any *)
(* sequence of calls of monitor.                                           *)
(***************************************************************************)
EXTENDS EventLoop, FiniteSetTheorems, SequenceTheorems, TLAPS

-----------------------------------------------------------------------------
(* The inductive invariant                                                 *)

PollFd == [fd : Fds, events : SUBSET Flags]

\* The parts of the type invariant the argument needs
ShapeInv ==
    /\ queue \in Seq(Calls)
    /\ items \in Seq(Calls)
    /\ pollFds \in Seq(PollFd)
    /\ i \in Nat \ {0}
    /\ state \in [Connections -> {"new", "open", "closed", "destroyed"}]
    /\ socket \in [Connections -> Fds \cup {0}]
    /\ \A c \in Connections : IsOpen(c) => socket[c] \in Fds

IInv == ShapeInv /\ Aligned

-----------------------------------------------------------------------------
(* Facts about sequences                                                   *)

\* A set of natural numbers that is not empty has a smallest one, and Min is it.
LEMMA MinIsElement ==
    ASSUME NEW T, T \subseteq Nat, T # {}
    PROVE  Min(T) \in T
<1> DEFINE Less == {ss \in Nat \X Nat : ss[1] < ss[2]}
<1>1. IsWellFoundedOn(Less, Nat)
  BY NatLessThanWellFounded DEF OpToRel
<1>2. PICK x \in T : \A y \in T : ~ (<<y, x>> \in Less)
  <2> HIDE DEF Less
  <2> QED
    BY <1>1, WFMin
<1>3. ASSUME NEW y \in T PROVE x <= y
  <2>1. x \in Nat /\ y \in Nat /\ <<y, x>> \in Nat \X Nat
    OBVIOUS
  <2>2. ~(y < x)
    <3>1. SUFFICES ASSUME y < x PROVE <<y, x>> \in Less
      BY <1>2
    <3> DEFINE ss == <<y, x>>
    <3>2. ss[1] = y /\ ss[2] = x
      OBVIOUS
    <3> QED
      BY <2>1, <3>1, <3>2
  <2> QED
    BY <2>1, <2>2
<1> QED
  BY <1>2, <1>3 DEF Min

\* Find finds the position of a descriptor that has one.
LEMMA FindFinds ==
    ASSUME NEW fd, Len(pollFds) \in Nat
    PROVE  \/ Find(fd) = 0 /\ \A p \in 1..Len(pollFds) : pollFds[p].fd # fd
           \/ Find(fd) \in 1..Len(pollFds) /\ pollFds[Find(fd)].fd = fd
<1> DEFINE Positions == {p \in 1..Len(pollFds) : pollFds[p].fd = fd}
<1>1. Find(fd) = IF Positions # {} THEN Min(Positions) ELSE 0
  BY DEF Find, SelectInSeq
<1>2. CASE Positions = {}
  BY <1>1, <1>2
<1>3. CASE Positions # {}
  <2>1. Positions \subseteq Nat
    OBVIOUS
  <2>2. Min(Positions) \in Positions
    <3> HIDE DEF Positions
    <3> QED
      BY <1>3, <2>1, MinIsElement
  <2> QED
    BY <1>1, <1>3, <2>2
<1> QED
  BY <1>2, <1>3

\* RemoveAt closes the gap.
LEMMA RemoveAtElements ==
    ASSUME NEW T, NEW s \in Seq(T), NEW n \in 1..Len(s)
    PROVE  /\ RemoveAt(s, n) \in Seq(T)
           /\ Len(s) \in Nat /\ Len(RemoveAt(s, n)) = Len(s) - 1
           /\ \A p \in 1..(Len(s) - 1) :
                RemoveAt(s, n)[p] = IF p < n THEN s[p] ELSE s[p + 1]
<1>1. SubSeq(s, 1, n - 1) \in Seq(T) /\ Len(SubSeq(s, 1, n - 1)) = n - 1
  OBVIOUS
<1>2. SubSeq(s, n + 1, Len(s)) \in Seq(T) /\ Len(SubSeq(s, n + 1, Len(s))) = Len(s) - n
  OBVIOUS
<1>3. \A p \in 1..(n - 1) : SubSeq(s, 1, n - 1)[p] = s[p]
  OBVIOUS
<1>4. \A p \in 1..(Len(s) - n) : SubSeq(s, n + 1, Len(s))[p] = s[n + p]
  OBVIOUS
<1> DEFINE before == SubSeq(s, 1, n - 1)
<1> DEFINE behind == SubSeq(s, n + 1, Len(s))
<1>5. RemoveAt(s, n) = before \o behind
  BY DEF RemoveAt
<1> HIDE DEF before, behind
<1>6. /\ before \o behind \in Seq(T)
      /\ Len(before \o behind) = Len(before) + Len(behind)
      /\ \A p \in 1..(Len(before) + Len(behind)) :
           (before \o behind)[p] = IF p <= Len(before) THEN before[p] ELSE behind[p - Len(before)]
  BY <1>1, <1>2, ConcatProperties DEF before, behind
<1>7. /\ Len(before) = n - 1 /\ Len(behind) = Len(s) - n
      /\ Len(s) \in Nat /\ n \in Nat /\ n > 0 /\ n <= Len(s)
  BY <1>1, <1>2 DEF before, behind
<1>8. ASSUME NEW p \in 1..(Len(s) - 1)
      PROVE  (before \o behind)[p] = IF p < n THEN s[p] ELSE s[p + 1]
  <2>1. CASE p < n
    <3>1. (before \o behind)[p] = before[p]
      BY <1>6, <1>7, <2>1
    <3>2. before[p] = s[p]
      BY <1>3, <1>7, <2>1 DEF before
    <3> QED
      BY <2>1, <3>1, <3>2
  <2>2. CASE p >= n
    <3>1. (before \o behind)[p] = behind[p - (n - 1)]
      BY <1>6, <1>7, <2>2, SMTT(60)
    <3>2. behind[p - (n - 1)] = s[n + (p - (n - 1))]
      BY <1>4, <1>7, <2>2 DEF behind
    <3>3. n + (p - (n - 1)) = p + 1
      BY <1>7
    <3> QED
      BY <1>7, <2>2, <3>1, <3>2, <3>3
  <2> QED
    BY <1>7, <2>1, <2>2
<1> QED
  BY <1>5, <1>6, <1>7, <1>8

-----------------------------------------------------------------------------
(* The calls of monitor                                                    *)

LEMMA Lengths ==
    ASSUME IInv
    PROVE  /\ Len(pollFds) \in Nat /\ Len(items) = Len(pollFds)
           /\ DOMAIN pollFds = 1..Len(pollFds) /\ DOMAIN items = 1..Len(pollFds)
           /\ \A p \in 1..Len(pollFds) : items[p] \in Calls /\ pollFds[p] \in PollFd
           /\ \A p \in 1..Len(pollFds) : items[p].fd = pollFds[p].fd
           /\ \A p, q \in 1..Len(pollFds) : p # q => pollFds[p].fd # pollFds[q].fd
<1>1. items \in Seq(Calls) /\ pollFds \in Seq(PollFd) /\ Aligned
  BY DEF IInv, ShapeInv
<1>2. /\ Len(pollFds) \in Nat /\ DOMAIN pollFds = 1..Len(pollFds)
      /\ \A p \in 1..Len(pollFds) : pollFds[p] \in PollFd
  BY <1>1
<1>3. /\ DOMAIN items = 1..Len(items)
      /\ \A p \in 1..Len(items) : items[p] \in Calls
  BY <1>1
<1> QED
  BY <1>1, <1>2, <1>3 DEF Aligned

\* Vectors of one length that agree on the descriptors are aligned.
LEMMA AlignedAgain ==
    ASSUME items' \in Seq(Calls), pollFds' \in Seq(PollFd),
           Len(items') = Len(pollFds'),
           \A p \in 1..Len(pollFds') : items'[p].fd = pollFds'[p].fd,
           \A p, q \in 1..Len(pollFds') : p # q => pollFds'[p].fd # pollFds'[q].fd
    PROVE  Aligned'
  BY DEF Aligned

\* What the end of a monitoring does to the vectors
LEMMA AfterRemove ==
    ASSUME IInv, NEW call \in Calls, RemoveItem(call)
    PROVE  /\ items' \in Seq(Calls) /\ pollFds' \in Seq(PollFd)
           /\ \/ /\ UNCHANGED <<items, pollFds>>
                 /\ \A p \in 1..Len(pollFds) : pollFds[p].fd # call.fd
              \/ \E n \in 1..Len(pollFds) :
                   /\ pollFds[n].fd = call.fd
                   /\ Len(pollFds') = Len(pollFds) - 1 /\ Len(items') = Len(pollFds) - 1
                   /\ \A p \in 1..Len(pollFds) - 1 :
                        /\ items'[p] = IF p < n THEN items[p] ELSE items[p + 1]
                        /\ pollFds'[p] = IF p < n THEN pollFds[p] ELSE pollFds[p + 1]
<1> DEFINE n == Find(call.fd)
<1>1. items \in Seq(Calls) /\ pollFds \in Seq(PollFd)
  BY DEF IInv, ShapeInv
<1>2. CASE n = 0
  <2>1. UNCHANGED <<items, pollFds>>
    BY <1>2 DEF RemoveItem
  <2>2. \A p \in 1..Len(pollFds) : pollFds[p].fd # call.fd
    BY <1>2, Lengths, FindFinds
  <2> QED
    BY <1>1, <2>1, <2>2
<1>3. CASE n # 0
  <2>1. n \in 1..Len(pollFds) /\ pollFds[n].fd = call.fd
    BY <1>3, Lengths, FindFinds
  <2>2. items' = RemoveAt(items, n) /\ pollFds' = RemoveAt(pollFds, n)
    BY <1>3 DEF RemoveItem
  <2>3. n \in 1..Len(items) /\ Len(items) = Len(pollFds)
    BY <2>1, Lengths
  <2> HIDE DEF n
  <2>4. /\ items' \in Seq(Calls) /\ Len(items') = Len(pollFds) - 1
        /\ \A p \in 1..(Len(pollFds) - 1) : items'[p] = IF p < n THEN items[p] ELSE items[p + 1]
    BY <1>1, <2>2, <2>3, RemoveAtElements
  <2>5. /\ pollFds' \in Seq(PollFd) /\ Len(pollFds') = Len(pollFds) - 1
        /\ \A p \in 1..(Len(pollFds) - 1) : pollFds'[p] = IF p < n THEN pollFds[p] ELSE pollFds[p + 1]
    BY <1>1, <2>1, <2>2, RemoveAtElements
  <2> QED
    BY <2>1, <2>4, <2>5
<1> QED
  BY <1>2, <1>3

LEMMA RemoveStep ==
    ASSUME IInv, NEW call \in Calls, RemoveItem(call)
    PROVE  items' \in Seq(Calls) /\ pollFds' \in Seq(PollFd) /\ Aligned'
<1>1. items' \in Seq(Calls) /\ pollFds' \in Seq(PollFd)
  BY AfterRemove
<1>2. CASE UNCHANGED <<items, pollFds>>
  BY <1>1, <1>2 DEF IInv, Aligned
<1>3. ASSUME NEW n \in 1..Len(pollFds),
             Len(pollFds') = Len(pollFds) - 1, Len(items') = Len(pollFds) - 1,
             \A p \in 1..Len(pollFds) - 1 :
                /\ items'[p] = IF p < n THEN items[p] ELSE items[p + 1]
                /\ pollFds'[p] = IF p < n THEN pollFds[p] ELSE pollFds[p + 1]
      PROVE  Aligned'
  <2>1. PICK len \in Nat : len = Len(pollFds)
    BY Lengths
  <2>2. ASSUME NEW p \in 1..len - 1
        PROVE  items'[p].fd = pollFds'[p].fd
    BY <1>3, <2>1, Lengths
  <2>3. ASSUME NEW p \in 1..len - 1, NEW q \in 1..len - 1, p # q
        PROVE  pollFds'[p].fd # pollFds'[q].fd
    <3> DEFINE at(k) == IF k < n THEN k ELSE k + 1
    <3>1. at(p) \in 1..len /\ at(q) \in 1..len /\ at(p) # at(q)
      BY <2>1, <2>3
    <3>2. pollFds'[p] = pollFds[at(p)] /\ pollFds'[q] = pollFds[at(q)]
      BY <1>3, <2>1
    <3> QED
      BY <2>1, <3>1, <3>2, Lengths
  <2> QED
    BY <1>1, <1>3, <2>1, <2>2, <2>3, AlignedAgain, SMTT(60)
<1> QED
  BY <1>2, <1>3, AfterRemove

\* What a call of monitor with flags does to the vectors
LEMMA AfterAdd ==
    ASSUME IInv, NEW call \in Calls, Add(call)
    PROVE  /\ items' \in Seq(Calls) /\ pollFds' \in Seq(PollFd)
           /\ \/ \E n \in 1..Len(pollFds) :
                   /\ pollFds[n].fd = call.fd
                   /\ UNCHANGED items /\ Len(pollFds') = Len(pollFds)
                   /\ pollFds'[n].fd = call.fd /\ pollFds'[n].events = call.flags
                   /\ \A p \in 1..Len(pollFds) : p # n => pollFds'[p] = pollFds[p]
              \/ /\ \A p \in 1..Len(pollFds) : pollFds[p].fd # call.fd
                 /\ Len(pollFds') = Len(pollFds) + 1 /\ Len(items') = Len(pollFds) + 1
                 /\ items'[Len(pollFds) + 1] = call
                 /\ pollFds'[Len(pollFds) + 1].fd = call.fd
                 /\ pollFds'[Len(pollFds) + 1].events = call.flags
                 /\ \A p \in 1..Len(pollFds) : items'[p] = items[p] /\ pollFds'[p] = pollFds[p]
<1> DEFINE n == Find(call.fd)
           len == Len(pollFds)
<1>1. items \in Seq(Calls) /\ pollFds \in Seq(PollFd) /\ len \in Nat /\ Len(items) = len
  BY Lengths DEF IInv, ShapeInv
<1>2. call.flags \in SUBSET Flags /\ call.fd \in Fds
  BY DEF Calls
<1>3. CASE n # 0
  <2>1. n \in 1..len /\ pollFds[n].fd = call.fd
    BY <1>3, Lengths, FindFinds
  <2>2. items' = items /\ pollFds' = [pollFds EXCEPT ![n].events = call.flags]
    BY <1>3 DEF Add, Update
  <2> HIDE DEF n
  <2>3. pollFds' \in Seq(PollFd) /\ Len(pollFds') = len
    BY <1>1, <1>2, <2>1, <2>2, Lengths DEF PollFd
  <2>4. /\ pollFds'[n].fd = call.fd /\ pollFds'[n].events = call.flags
        /\ \A p \in 1..len : p # n => pollFds'[p] = pollFds[p]
    BY <2>1, <2>2, Lengths DEF PollFd
  <2> QED
    BY <1>1, <2>1, <2>2, <2>3, <2>4
<1>4. CASE n = 0
  <2> DEFINE pollFd == [fd |-> call.fd, events |-> call.flags]
  <2>1. pollFd \in PollFd /\ pollFd.fd = call.fd /\ pollFd.events = call.flags
    BY <1>2 DEF PollFd
  <2>2. items' = Append(items, call) /\ pollFds' = Append(pollFds, pollFd)
    BY <1>4 DEF Add
  <2>3. \A p \in 1..len : pollFds[p].fd # call.fd
    BY <1>4, Lengths, FindFinds
  <2> HIDE DEF pollFd
  <2>4. /\ items' \in Seq(Calls) /\ Len(items') = len + 1
        /\ items'[len + 1] = call /\ \A p \in 1..len : items'[p] = items[p]
    BY <1>1, <2>2
  <2>5. /\ pollFds' \in Seq(PollFd) /\ Len(pollFds') = len + 1
        /\ pollFds'[len + 1] = pollFd /\ \A p \in 1..len : pollFds'[p] = pollFds[p]
    BY <1>1, <2>1, <2>2
  <2> QED
    BY <2>1, <2>3, <2>4, <2>5
<1> QED
  BY <1>3, <1>4

LEMMA AddStep ==
    ASSUME IInv, NEW call \in Calls, Add(call)
    PROVE  items' \in Seq(Calls) /\ pollFds' \in Seq(PollFd) /\ Aligned'
<1>1. items' \in Seq(Calls) /\ pollFds' \in Seq(PollFd)
  BY AfterAdd, SMTT(60)
<1>2. PICK len \in Nat : len = Len(pollFds)
  BY Lengths
<1>3. ASSUME NEW n \in 1..len, pollFds[n].fd = call.fd, UNCHANGED items, Len(pollFds') = len,
             pollFds'[n].fd = call.fd, \A p \in 1..len : p # n => pollFds'[p] = pollFds[p]
      PROVE  Aligned'
  <2>1. \A p \in 1..len : pollFds'[p].fd = pollFds[p].fd
    BY <1>3
  <2> QED
    BY <1>1, <1>2, <1>3, <2>1, Lengths, AlignedAgain
<1>4. ASSUME \A p \in 1..len : pollFds[p].fd # call.fd,
             Len(pollFds') = len + 1, Len(items') = len + 1,
             items'[len + 1] = call, pollFds'[len + 1].fd = call.fd,
             \A p \in 1..len : items'[p] = items[p] /\ pollFds'[p] = pollFds[p]
      PROVE  Aligned'
  <2>1. \A p \in 1..(len + 1) : p \in 1..len \/ p = len + 1
    OBVIOUS
  <2>2. \A p \in 1..(len + 1) : items'[p].fd = pollFds'[p].fd
    BY <1>2, <1>4, <2>1, Lengths
  <2>3. \A p, q \in 1..(len + 1) : p # q => pollFds'[p].fd # pollFds'[q].fd
    BY <1>2, <1>4, <2>1, Lengths
  <2> QED
    BY <1>1, <1>4, <2>2, <2>3, AlignedAgain
<1> QED
  BY <1>2, <1>3, <1>4, AfterAdd, SMTT(60)

-----------------------------------------------------------------------------

LEMMA InitIInv == Init => IInv
  BY DEF Init, IInv, ShapeInv, Aligned, IsOpen

\* A step that leaves the vectors alone and makes a call of monitor, or none
LEMMA VectorsStay ==
    ASSUME IInv, UNCHANGED <<items, pollFds>>,
           \/ NoMonitor
           \/ \E c \in Connections, fd \in Fds, flags \in SUBSET Flags : Monitor(c, fd, flags)
    PROVE  queue' \in Seq(Calls) /\ items' \in Seq(Calls) /\ pollFds' \in Seq(PollFd) /\ Aligned'
<1>1. items' \in Seq(Calls) /\ pollFds' \in Seq(PollFd) /\ Aligned'
  BY DEF IInv, ShapeInv, Aligned
<1>2. CASE NoMonitor
  BY <1>1, <1>2 DEF NoMonitor, IInv, ShapeInv
<1>3. ASSUME NEW c \in Connections, NEW fd \in Fds, NEW flags \in SUBSET Flags,
             Monitor(c, fd, flags)
      PROVE  queue' \in Seq(Calls)
  <2>1. [connection |-> c, fd |-> fd, flags |-> flags] \in Calls
    BY DEF Calls
  <2>2. queue \in Seq(Calls)
    BY DEF IInv, ShapeInv
  <2> QED
    BY <1>3, <2>1, <2>2 DEF Monitor
<1> QED
  BY <1>1, <1>2, <1>3

\* The sockets of the open connections are descriptors.
SocketInv ==
    /\ state \in [Connections -> {"new", "open", "closed", "destroyed"}]
    /\ socket \in [Connections -> Fds \cup {0}]
    /\ \A c \in Connections : IsOpen(c) => socket[c] \in Fds

LEMMA CloseStep ==
    ASSUME IInv, NEW c \in Connections, NEW s \in {"closed", "destroyed"}, CloseSocket(c, s)
    PROVE  SocketInv'
  BY DEF CloseSocket, IInv, ShapeInv, SocketInv, IsOpen

LEMMA LoopStep ==
    ASSUME IInv, LoopThread
    PROVE  IInv'
<1> SUFFICES SocketInv' /\ i' \in Nat \ {0} /\ queue' \in Seq(Calls)
             /\ items' \in Seq(Calls) /\ pollFds' \in Seq(PollFd) /\ Aligned'
  BY DEF IInv, ShapeInv, SocketInv
<1>1. i \in Nat \ {0} /\ queue \in Seq(Calls) /\ SocketInv
  BY DEF IInv, ShapeInv, SocketInv
<1>2. CASE Top \/ Drained \/ PollWithoutResult
  BY <1>1, <1>2, VectorsStay
  DEF Top, Drained, PollWithoutResult, libraryVars, NoMonitor, SocketInv, IsOpen
<1>3. CASE Poll \/ RoundOver
  BY <1>1, <1>3, VectorsStay
  DEF Poll, RoundOver, libraryVars, NoMonitor, SocketInv, IsOpen
<1>4. CASE ProcessConnectionItem
  <2>1. Head(queue) \in Calls /\ queue' \in Seq(Calls)
    BY <1>1, <1>4 DEF ProcessConnectionItem
  <2>2. RemoveItem(Head(queue)) \/ Add(Head(queue))
    BY <1>4 DEF ProcessConnectionItem
  <2>3. items' \in Seq(Calls) /\ pollFds' \in Seq(PollFd) /\ Aligned'
    BY <2>1, <2>2, RemoveStep, AddStep
  <2> QED
    BY <1>1, <1>4, <2>1, <2>3 DEF ProcessConnectionItem, libraryVars, SocketInv, IsOpen
<1>5. CASE Handle
  <2>1. /\ i \in 1..Len(pollFds) /\ i' = i + 1 /\ UNCHANGED <<items, pollFds>>
        /\ \/ UNCHANGED libraryVars /\ NoMonitor
           \/ Process(items[i].connection, items[i].fd, items[i].flags)
    BY <1>1, <1>5, Lengths DEF Handle, UseDestroyed
  <2>2. items[i].connection \in Connections /\ items[i].fd \in Fds /\ items[i].flags \in SUBSET Flags
    BY <2>1, Lengths DEF Calls
  <2> DEFINE c == items[i].connection
  <2> DEFINE fd == items[i].fd
  <2>3. CASE UNCHANGED libraryVars /\ NoMonitor
    BY <1>1, <2>1, <2>3, VectorsStay DEF libraryVars, SocketInv, IsOpen
  <2>4. CASE Process(c, fd, items[i].flags)
    <3>1. /\ SocketInv'
          /\ \/ NoMonitor
             \/ \E flags \in SUBSET Flags : Monitor(c, fd, flags)
      <4>1. CASE UNCHANGED libraryVars /\ NoMonitor
        BY <1>1, <4>1 DEF libraryVars, SocketInv, IsOpen
      <4>2. CASE CloseSocket(c, "closed") /\ Monitor(c, fd, {})
        BY <2>2, <4>2, CloseStep
      <4>3. CASE /\ UNCHANGED <<state, socket>>
                 /\ NoMonitor \/ Monitor(c, fd, {"readable"})
        BY <1>1, <4>3 DEF SocketInv, IsOpen, Flags
      <4> QED
        BY <2>4, <4>1, <4>2, <4>3 DEF Process
    <3> QED
      BY <1>1, <2>1, <2>2, <3>1, VectorsStay
  <2> QED
    BY <2>1, <2>3, <2>4
<1> QED
  BY <1>2, <1>3, <1>4, <1>5 DEF LoopThread

LEMMA ConnectionStep ==
    ASSUME IInv, NEW c \in Connections,
           \/ \E fd \in Fds, blocked \in BOOLEAN : Open(c, fd, blocked)
           \/ Send(c)
           \/ Destroy(c)
           \/ Kernel(c)
           \/ PeerReads(c)
    PROVE  IInv'
<1> SUFFICES SocketInv' /\ i' \in Nat \ {0} /\ queue' \in Seq(Calls)
             /\ items' \in Seq(Calls) /\ pollFds' \in Seq(PollFd) /\ Aligned'
  BY DEF IInv, ShapeInv, SocketInv
<1>1. i \in Nat \ {0} /\ queue \in Seq(Calls) /\ SocketInv
  BY DEF IInv, ShapeInv, SocketInv
<1>2. ASSUME NEW fd \in Fds, NEW blocked \in BOOLEAN, Open(c, fd, blocked)
      PROVE  /\ SocketInv' /\ UNCHANGED loopVars
             /\ \E flags \in SUBSET Flags : Monitor(c, fd, flags)
  BY <1>1, <1>2 DEF Open, SocketInv, IsOpen, Flags
<1>3. CASE Send(c)
  BY <1>1, <1>3, VectorsStay DEF Send, SocketInv, IsOpen, loopVars
<1>4. CASE Destroy(c)
  <2>1. SocketInv'
    BY <1>4, CloseStep DEF Destroy
  <2> QED
    BY <1>1, <1>4, <2>1, VectorsStay DEF Destroy, SocketInv, loopVars
<1>5. CASE Kernel(c) \/ PeerReads(c)
  <2>1. UNCHANGED <<loopVars, queue, libraryVars, monitored>>
    BY <1>5 DEF Kernel, PeerReads
  <2> QED
    BY <1>1, <2>1, VectorsStay DEF libraryVars, loopVars, NoMonitor, SocketInv, IsOpen
<1> QED
  BY <1>1, <1>2, <1>3, <1>4, <1>5, VectorsStay DEF loopVars

LEMMA NextIInv == IInv /\ [Next]_vars => IInv'
<1> SUFFICES ASSUME IInv, [Next]_vars PROVE IInv'
  OBVIOUS
<1>1. CASE Stop \/ UNCHANGED vars
  BY <1>1 DEF Stop, vars, loopVars, libraryVars, IInv, ShapeInv, Aligned, IsOpen
<1> QED
  BY <1>1, LoopStep, ConnectionStep DEF Next

\* The invariant, from which the next theorem follows.
THEOREM InvariantHolds == Spec => []IInv
<1> QED
  BY InitIInv, NextIInv, PTL DEF Spec

\* m_connectionItems and m_pollFds have the same descriptor at each position, and each
\* descriptor once, for any connections, any descriptors and any order of adding,
\* updating and removing them.
THEOREM VectorsStayAligned == Spec => []Aligned
<1>1. IInv => Aligned
  BY DEF IInv
<1> QED
  BY <1>1, InvariantHolds, PTL

-----------------------------------------------------------------------------
(* Types                                                                   *)

\* Outside of a round nothing is left of the last one: what changes the vectors leaves no position
\* behind their end.
RoundInv ==
    /\ isRunning \in BOOLEAN /\ crashed \in BOOLEAN
    /\ pc \in {"top", "drain", "poll", "handle", "stopped"}
    /\ ready \subseteq 1..Len(pollFds)
    /\ res \in 0..Len(pollFds)
    /\ i \in 1..Len(pollFds) + 1
    /\ pc # "handle" => ready = {} /\ res = 0 /\ i = 1

LibraryInv ==
    /\ unsent \subseteq Connections
    /\ arrived \subseteq Connections
    /\ full \subseteq Connections
    /\ stalls \in 0..MaxStalls
    /\ broken \subseteq Connections
    /\ monitored \subseteq Calls

TypeInv == IInv /\ RoundInv /\ LibraryInv

\* What one more call of monitor leaves monitored are calls.
LEMMA MonitoredCalls ==
    ASSUME monitored \subseteq Calls, NEW c \in Connections, NEW fd \in Fds,
           NEW flags \in SUBSET Flags, Monitor(c, fd, flags)
    PROVE  monitored' \subseteq Calls
<1>1. [connection |-> c, fd |-> fd, flags |-> flags] \in Calls
  BY DEF Calls
<1> QED
  BY <1>1 DEF Monitor, After

LEMMA CloseTypes ==
    ASSUME LibraryInv, NEW c \in Connections, NEW s, CloseSocket(c, s)
    PROVE  /\ unsent' \subseteq Connections /\ arrived' \subseteq Connections
           /\ full' \subseteq Connections /\ stalls' \in 0..MaxStalls /\ broken' \subseteq Connections
  BY DEF CloseSocket, LibraryInv

LEMMA LoopTypes ==
    ASSUME TypeInv, LoopThread
    PROVE  RoundInv' /\ LibraryInv'
<1> USE DEF TypeInv
<1>1. PICK n \in Nat : n = Len(pollFds)
  BY Lengths
<1>2. CASE Top \/ Drained \/ PollWithoutResult \/ RoundOver
  <2>1. /\ LibraryInv' /\ UNCHANGED <<pollFds, isRunning, crashed>>
        /\ pc' \in {"top", "drain", "poll", "stopped"}
    BY <1>2 DEF Top, Drained, PollWithoutResult, RoundOver, NextRound, LibraryInv, libraryVars, kernelVars
  <2>2. ready' = {} /\ res' = 0 /\ i' = 1
    BY <1>2 DEF Top, Drained, PollWithoutResult, PollEnds, RoundOver, RoundInv
  <2> QED
    BY <1>1, <2>1, <2>2 DEF RoundInv
<1>3. CASE Poll
  <2> DEFINE found == {p \in DOMAIN pollFds : IsReady(p)}
             invalid == {p \in DOMAIN pollFds : IsInvalid(p)}
  <2>1. /\ pc' = "handle" /\ i' = 1 /\ ready' = found /\ res' = Cardinality(found \cup invalid)
        /\ UNCHANGED <<isRunning, pollFds, crashed>>
    BY <1>3 DEF Poll
  <2>2. found \cup invalid \subseteq 1..n
    BY <1>1, Lengths
  <2> HIDE DEF found, invalid
  <2>3. IsFiniteSet(1..n) /\ Cardinality(1..n) = n
    BY FS_Interval
  <2>4. Cardinality(found \cup invalid) \in 0..n
    BY <2>2, <2>3, FS_Subset, FS_CardinalityType
  <2>5. LibraryInv'
    BY <1>3 DEF Poll, LibraryInv, libraryVars, kernelVars
  <2> QED
    BY <1>1, <2>1, <2>2, <2>4, <2>5 DEF RoundInv
<1>4. CASE ProcessConnectionItem
  <2>1. pc = "drain" /\ UNCHANGED <<isRunning, pc, ready, res, i, crashed>> /\ LibraryInv'
    BY <1>4 DEF ProcessConnectionItem, LibraryInv, libraryVars, kernelVars
  <2>2. Len(pollFds') \in Nat
    BY LoopStep, Lengths DEF IInv, ShapeInv
  <2> QED
    BY <2>1, <2>2 DEF RoundInv
<1>5. CASE Handle
  <2>1. /\ pc = "handle" /\ pc' = pc /\ i <= n /\ res > 0 /\ i' = i + 1
        /\ res' = IF i \in ready THEN res - 1 ELSE res
        /\ UNCHANGED <<isRunning, pollFds, ready>>
    BY <1>1, <1>5 DEF Handle, Left
  <2>2. i \in 1..n
    BY <1>1, <2>1 DEF RoundInv
  <2> DEFINE c == items[i].connection
             fd == items[i].fd
  <2>3. c \in Connections /\ fd \in Fds /\ items[i].flags \in SUBSET Flags
    BY <1>1, <2>2, Lengths DEF Calls
  <2>4. \/ UNCHANGED <<libraryVars, kernelVars>> /\ NoMonitor /\ crashed' \in BOOLEAN
        \/ Process(c, fd, items[i].flags) /\ UNCHANGED crashed
    BY <1>5 DEF Handle, UseDestroyed, RoundInv
  <2> HIDE DEF c, fd
  <2>5. crashed' \in BOOLEAN
    BY <2>4 DEF RoundInv
  <2>6. LibraryInv'
    <3>1. CASE UNCHANGED <<libraryVars, kernelVars>> /\ NoMonitor
      BY <3>1 DEF LibraryInv, libraryVars, kernelVars, NoMonitor
    <3>2. CASE CloseSocket(c, "closed") /\ Monitor(c, fd, {})
      BY <2>3, <3>2, CloseTypes, MonitoredCalls DEF LibraryInv
    <3>3. CASE /\ NoMonitor \/ Monitor(c, fd, {"readable"})
               /\ unsent' \subseteq unsent /\ arrived' \subseteq arrived
               /\ UNCHANGED <<full, stalls, broken>>
      <4>1. monitored' \subseteq Calls
        BY <2>3, <3>3, MonitoredCalls DEF LibraryInv, NoMonitor, Flags
      <4> QED
        BY <3>3, <4>1 DEF LibraryInv
    <3> QED
      BY <2>4, <3>1, <3>2, <3>3 DEF Process
  <2> QED
    BY <1>1, <2>1, <2>2, <2>5, <2>6 DEF RoundInv
<1> QED
  BY <1>2, <1>3, <1>4, <1>5, SMTT(60) DEF LoopThread

LEMMA ConnectionTypes ==
    ASSUME TypeInv, NEW c \in Connections,
           \/ \E fd \in Fds, blocked \in BOOLEAN : Open(c, fd, blocked)
           \/ Send(c)
           \/ Destroy(c)
           \/ Kernel(c)
           \/ PeerReads(c)
    PROVE  RoundInv' /\ LibraryInv'
<1> USE DEF TypeInv
<1>1. UNCHANGED <<isRunning, pc, pollFds, ready, res, i, crashed>>
  BY DEF Open, Send, Destroy, Kernel, PeerReads, loopVars
<1>2. RoundInv'
  BY <1>1 DEF RoundInv
<1>3. ASSUME NEW fd \in Fds, NEW blocked \in BOOLEAN, Open(c, fd, blocked)
      PROVE  LibraryInv'
  <2>1. monitored' \subseteq Calls
    BY <1>3, MonitoredCalls DEF Open, LibraryInv, Flags
  <2>2. stalls' \in 0..MaxStalls
    BY <1>3, EventLoopAssumption DEF Open, LibraryInv
  <2> QED
    BY <1>3, <2>1, <2>2 DEF Open, LibraryInv
<1>4. CASE Send(c)
  <2>1. socket[c] \in Fds
    BY <1>4 DEF Send, IInv, ShapeInv
  <2>2. monitored' \subseteq Calls
    BY <1>4, <2>1, MonitoredCalls DEF Send, LibraryInv
  <2>3. stalls' \in 0..MaxStalls
    BY <1>4, EventLoopAssumption DEF Send, LibraryInv
  <2> QED
    <3>1. UNCHANGED <<arrived, broken>> /\ unsent' = unsent \cup {c} /\ full' = full \cup {c}
      BY <1>4 DEF Send
    <3> QED
      BY <1>2, <2>2, <2>3, <3>1 DEF LibraryInv
<1>5. CASE Destroy(c)
  <2>1. monitored' \subseteq Calls
    <3>1. IsOpen(c) => socket[c] \in Fds
      BY DEF IInv, ShapeInv
    <3> QED
      BY <1>5, <3>1, MonitoredCalls DEF Destroy, LibraryInv, NoMonitor
  <2>2. CloseSocket(c, "destroyed")
    BY <1>5 DEF Destroy
  <2>3. /\ unsent' \subseteq Connections /\ arrived' \subseteq Connections
        /\ full' \subseteq Connections /\ stalls' \in 0..MaxStalls /\ broken' \subseteq Connections
    BY <2>2, CloseTypes
  <2> QED
    BY <1>2, <2>1, <2>3 DEF LibraryInv
<1>6. CASE Kernel(c) \/ PeerReads(c)
  <2>1. /\ UNCHANGED <<unsent, stalls, monitored>>
        /\ arrived' \subseteq arrived \cup {c} /\ full' \subseteq full /\ broken' \subseteq broken \cup {c}
    BY <1>6 DEF Kernel, PeerReads, libraryVars
  <2> QED
    BY <1>2, <2>1 DEF LibraryInv
<1> QED
  BY <1>2, <1>3, <1>4, <1>5, <1>6

LEMMA TypeStep == TypeInv /\ [Next]_vars => TypeInv'
<1> SUFFICES ASSUME TypeInv, [Next]_vars PROVE RoundInv' /\ LibraryInv'
  BY NextIInv DEF TypeInv
<1>1. CASE Stop \/ UNCHANGED vars
  BY <1>1 DEF Stop, vars, loopVars, libraryVars, kernelVars, TypeInv, RoundInv, LibraryInv
<1> QED
  BY <1>1, LoopTypes, ConnectionTypes DEF Next

\* The variables keep their types: what poll found, the number it returned and the position of the
\* round are about positions that both vectors have, whatever was added and removed.
THEOREM TypeCorrect == Spec => []TypeOK
<1>1. Init => TypeInv
  <2>1. ASSUME Init PROVE RoundInv /\ LibraryInv
    <3>1. Len(pollFds) = 0
      BY <2>1 DEF Init
    <3>2. RoundInv
      <4>1. isRunning \in BOOLEAN /\ crashed \in BOOLEAN /\ pc = "top"
        BY <2>1 DEF Init
      <4>2. ready = {} /\ res = 0 /\ i = 1
        BY <2>1 DEF Init
      <4>3. res \in 0..Len(pollFds) /\ i \in 1..Len(pollFds) + 1
        BY <3>1, <4>2
      <4> QED
        BY <4>1, <4>2, <4>3 DEF RoundInv
    <3>3. LibraryInv
      BY <2>1, EventLoopAssumption DEF Init, LibraryInv
    <3> QED
      BY <3>2, <3>3
  <2> QED
    BY <2>1, InitIInv DEF TypeInv
<1>2. TypeInv => TypeOK
  BY DEF TypeInv, IInv, ShapeInv, RoundInv, LibraryInv, TypeOK, PollFd
<1> QED
  BY <1>1, <1>2, TypeStep, PTL DEF Spec

-----------------------------------------------------------------------------
(* What is polled is what the library asked for                            *)

\* A call that ends the monitoring of a descriptor
Ends(calls, fd, k) == calls[k].fd = fd /\ calls[k].flags = {}

Owned(c, fd) == IsOpen(c) /\ socket[c] = fd

SocketsInv ==
    /\ \A c \in Connections : socket[c] # 0 => IsOpen(c)
    /\ \A c, d \in Connections : IsOpen(c) /\ IsOpen(d) /\ socket[c] = socket[d] => c = d

\* Monitoring is ended before the socket is closed.  So whatever is polled or asked for is for the
\* connection that has the descriptor, or a call that ends it is waiting behind; and between the
\* calls for two connections with one descriptor there is a call that ends the first one.
HandoverInv ==
    /\ \A p \in 1..Len(items) :
         \/ \E m \in 1..Len(queue) : Ends(queue, items[p].fd, m)
         \/ Owned(items[p].connection, items[p].fd)
    /\ \A k \in 1..Len(queue) : queue[k].flags # {} =>
         \/ \E m \in 1..Len(queue) : m > k /\ Ends(queue, queue[k].fd, m)
         \/ Owned(queue[k].connection, queue[k].fd)
    /\ \A p \in 1..Len(items), l \in 1..Len(queue) :
         items[p].fd = queue[l].fd /\ queue[l].flags # {} /\ items[p].connection # queue[l].connection =>
            \E m \in 1..Len(queue) : m < l /\ Ends(queue, queue[l].fd, m)
    /\ \A k, l \in 1..Len(queue) :
         /\ k < l /\ queue[k].fd = queue[l].fd /\ queue[k].flags # {} /\ queue[l].flags # {}
         /\ queue[k].connection # queue[l].connection
         => \E m \in 1..Len(queue) : k < m /\ m < l /\ Ends(queue, queue[l].fd, m)

CallsInv == HandoverInv /\ MonitoringIsExact

ExactInv == IInv /\ SocketsInv /\ CallsInv

Entry(p) == [connection |-> items[p].connection, fd |-> pollFds[p].fd, flags |-> pollFds[p].events]

LEMMA QueueShape ==
    ASSUME IInv
    PROVE  /\ queue \in Seq(Calls) /\ Len(queue) \in Nat
           /\ \A k \in 1..Len(queue) : queue[k] \in Calls
  BY DEF IInv, ShapeInv

\* Outstanding, call by call and entry by entry
LEMMA OutstandingElements ==
    ASSUME NEW calls \in Seq(Calls), NEW polled, NEW m, NEW n \in Nat, n = Len(calls)
    PROVE  m \in Outstanding(calls, polled) <=>
             \/ \E k \in 1..n :
                  /\ m = calls[k] /\ calls[k].flags # {}
                  /\ \A l \in 1..n : l > k => calls[l].fd # calls[k].fd
             \/ m \in polled /\ \A l \in 1..n : calls[l].fd # m.fd
<1>1. \A k \in 1..n : IsOverridden(calls, calls[k].fd, k) <=>
         \E l \in 1..n : l > k /\ calls[l].fd = calls[k].fd
  <2>1. \A k \in 1..n : \A l : l \in k + 1..n <=> l \in 1..n /\ l > k
    OBVIOUS
  <2> QED
    BY <2>1 DEF IsOverridden
<1>2. IsOverridden(calls, m.fd, 0) <=> \E l \in 1..n : calls[l].fd = m.fd
  BY DEF IsOverridden
<1> QED
  BY <1>1, <1>2 DEF Outstanding

\* A new call counts for its descriptor.
LEMMA CallAppended ==
    ASSUME NEW calls \in Seq(Calls), NEW polled, NEW call \in Calls
    PROVE  Outstanding(Append(calls, call), polled) = After(Outstanding(calls, polled), call)
<1>1. PICK n \in Nat : n = Len(calls)
  OBVIOUS
<1>2. PICK more \in Seq(Calls) : more = Append(calls, call)
  BY AppendProperties
<1>3. /\ Len(more) = n + 1 /\ more[n + 1] = call
      /\ \A k \in 1..n : more[k] = calls[k]
  BY <1>1, <1>2
<1>4. SUFFICES ASSUME NEW m
               PROVE  m \in Outstanding(more, polled) <=> m \in After(Outstanding(calls, polled), call)
  BY <1>2
<1>5. m \in Outstanding(calls, polled) <=>
        \/ \E k \in 1..n : /\ m = calls[k] /\ calls[k].flags # {}
                           /\ \A l \in 1..n : l > k => calls[l].fd # calls[k].fd
        \/ m \in polled /\ \A l \in 1..n : calls[l].fd # m.fd
  BY <1>1, OutstandingElements
<1>6. m \in Outstanding(more, polled) <=>
        \/ \E k \in 1..n + 1 : /\ m = more[k] /\ more[k].flags # {}
                               /\ \A l \in 1..n + 1 : l > k => more[l].fd # more[k].fd
        \/ m \in polled /\ \A l \in 1..n + 1 : more[l].fd # m.fd
  BY <1>3, n + 1 \in Nat, OutstandingElements
<1>7. m \in After(Outstanding(calls, polled), call) <=>
        (m \in Outstanding(calls, polled) /\ m.fd # call.fd) \/ (call.flags # {} /\ m = call)
  BY DEF After
<1>8. \A k \in 1..n + 1 : k \in 1..n \/ k = n + 1
  OBVIOUS
<1>9. ASSUME m \in Outstanding(more, polled) PROVE m \in After(Outstanding(calls, polled), call)
  <2>1. CASE m \in polled /\ \A l \in 1..n + 1 : more[l].fd # m.fd
    <3>1. call.fd # m.fd /\ \A l \in 1..n : calls[l].fd # m.fd
      BY <1>3, <2>1
    <3> QED
      BY <1>5, <1>7, <2>1, <3>1
  <2>2. ASSUME NEW k \in 1..n + 1, m = more[k], more[k].flags # {},
               \A l \in 1..n + 1 : l > k => more[l].fd # more[k].fd
        PROVE  m \in After(Outstanding(calls, polled), call)
    <3>1. CASE k = n + 1
      BY <1>3, <1>7, <2>2, <3>1
    <3>2. CASE k \in 1..n
      <4>1. call.fd # m.fd
        BY <1>3, <2>2, <3>2
      <4>2. \A l \in 1..n : l > k => calls[l].fd # calls[k].fd
        BY <1>3, <2>2, <3>2
      <4> QED
        BY <1>3, <1>5, <1>7, <2>2, <3>2, <4>1, <4>2
    <3> QED
      BY <1>8, <3>1, <3>2
  <2> QED
    BY <1>6, <1>9, <2>1, <2>2
<1>10. ASSUME m \in After(Outstanding(calls, polled), call) PROVE m \in Outstanding(more, polled)
  <2>1. CASE call.flags # {} /\ m = call
    <3>1. \A l \in 1..n + 1 : ~(l > n + 1)
      OBVIOUS
    <3>2. n + 1 \in 1..n + 1
      OBVIOUS
    <3> QED
      BY <1>3, <1>6, <2>1, <3>1, <3>2
  <2>2. ASSUME m.fd # call.fd, m \in polled, \A l \in 1..n : calls[l].fd # m.fd
        PROVE  m \in Outstanding(more, polled)
    BY <1>3, <1>6, <1>8, <2>2
  <2>3. ASSUME m.fd # call.fd, NEW k \in 1..n, m = calls[k], calls[k].flags # {},
               \A l \in 1..n : l > k => calls[l].fd # calls[k].fd
        PROVE  m \in Outstanding(more, polled)
    <3>1. k \in 1..n + 1 /\ more[k] = calls[k]
      BY <1>3
    <3>2. \A l \in 1..n + 1 : l > k => more[l].fd # more[k].fd
      BY <1>3, <1>8, <2>3, <3>1
    <3> QED
      BY <1>6, <2>3, <3>1, <3>2
  <2> QED
    BY <1>5, <1>7, <1>10, <2>1, <2>2, <2>3
<1> QED
  BY <1>9, <1>10

\* Applying the first call leaves what is outstanding.
LEMMA CallApplied ==
    ASSUME NEW calls \in Seq(Calls), calls # <<>>, NEW polled
    PROVE  Outstanding(Tail(calls), After(polled, Head(calls))) = Outstanding(calls, polled)
<1>1. PICK n \in Nat : n = Len(calls)
  OBVIOUS
<1>2. PICK call : call = Head(calls)
  OBVIOUS
<1>3. PICK rest \in Seq(Calls) : rest = Tail(calls)
  BY HeadTailProperties
<1>3a. PICK applied : applied = After(polled, call)
  OBVIOUS
<1>4. /\ n > 0 /\ call = calls[1] /\ Len(rest) = n - 1
      /\ \A k \in 1..n - 1 : rest[k] = calls[k + 1]
  BY <1>1, <1>2, <1>3
<1> SUFFICES ASSUME NEW m
             PROVE  m \in Outstanding(rest, applied) <=> m \in Outstanding(calls, polled)
  BY <1>2, <1>3, <1>3a
<1>5. m \in Outstanding(calls, polled) <=>
        \/ \E k \in 1..n : /\ m = calls[k] /\ calls[k].flags # {}
                           /\ \A l \in 1..n : l > k => calls[l].fd # calls[k].fd
        \/ m \in polled /\ \A l \in 1..n : calls[l].fd # m.fd
  BY <1>1, OutstandingElements
<1>6. m \in Outstanding(rest, applied) <=>
        \/ \E k \in 1..n - 1 : /\ m = rest[k] /\ rest[k].flags # {}
                               /\ \A l \in 1..n - 1 : l > k => rest[l].fd # rest[k].fd
        \/ m \in applied /\ \A l \in 1..n - 1 : rest[l].fd # m.fd
  <2>1. rest \in Seq(Calls) /\ n - 1 \in Nat /\ n - 1 = Len(rest)
    BY <1>4
  <2> QED
    BY <2>1, OutstandingElements
<1>7. m \in applied <=> (m \in polled /\ m.fd # call.fd) \/ (call.flags # {} /\ m = call)
  BY <1>3a DEF After
<1>8. \A l \in 1..n : l = 1 \/ (l - 1 \in 1..n - 1 /\ rest[l - 1] = calls[l])
  BY <1>4
<1>9. \A l \in 1..n - 1 : l + 1 \in 1..n /\ rest[l] = calls[l + 1]
  BY <1>4
<1>10. ASSUME m \in Outstanding(rest, applied) PROVE m \in Outstanding(calls, polled)
  <2>1. ASSUME NEW k \in 1..n - 1, m = rest[k], rest[k].flags # {},
               \A l \in 1..n - 1 : l > k => rest[l].fd # rest[k].fd
        PROVE  m \in Outstanding(calls, polled)
    <3>1. ASSUME NEW l \in 1..n, l > k + 1 PROVE calls[l].fd # calls[k + 1].fd
      <4>1. l - 1 \in 1..n - 1 /\ l - 1 > k /\ rest[l - 1] = calls[l]
        BY <1>8, <3>1
      <4> QED
        BY <1>9, <2>1, <4>1
    <3> QED
      BY <1>5, <1>9, <2>1, <3>1
  <2>2. ASSUME m \in applied, \A l \in 1..n - 1 : rest[l].fd # m.fd
        PROVE  m \in Outstanding(calls, polled)
    <3>1. \A l \in 1..n : l > 1 => calls[l].fd # m.fd
      BY <1>8, <2>2
    <3>2. CASE m \in polled /\ m.fd # call.fd
      <4>1. \A l \in 1..n : calls[l].fd # m.fd
        BY <1>4, <1>8, <2>2, <3>2
      <4> QED
        BY <1>5, <3>2, <4>1
    <3>3. CASE call.flags # {} /\ m = call
      <4>1. 1 \in 1..n
        BY <1>4
      <4> QED
        BY <1>4, <1>5, <3>1, <3>3, <4>1
    <3> QED
      BY <1>7, <2>2, <3>2, <3>3
  <2> QED
    BY <1>6, <1>10, <2>1, <2>2
<1>11. ASSUME m \in Outstanding(calls, polled) PROVE m \in Outstanding(rest, applied)
  <2>1. ASSUME NEW k \in 1..n, m = calls[k], calls[k].flags # {},
               \A l \in 1..n : l > k => calls[l].fd # calls[k].fd
        PROVE  m \in Outstanding(rest, applied)
    <3>1. CASE k = 1
      <4>1. ASSUME NEW l \in 1..n - 1 PROVE rest[l].fd # m.fd
        <5>1. l + 1 > 1
          OBVIOUS
        <5> QED
          BY <1>9, <2>1, <3>1, <5>1
      <4>2. m \in applied
        BY <1>4, <1>7, <2>1, <3>1
      <4> QED
        BY <1>6, <4>1, <4>2
    <3>2. CASE k # 1
      <4>1. k - 1 \in 1..n - 1 /\ rest[k - 1] = calls[k]
        BY <1>8, <3>2
      <4>2. ASSUME NEW l \in 1..n - 1, l > k - 1 PROVE rest[l].fd # rest[k - 1].fd
        <5>1. l + 1 > k
          BY <4>2
        <5> QED
          BY <1>9, <2>1, <4>1, <5>1
      <4> QED
        BY <1>6, <2>1, <4>1, <4>2
    <3> QED
      BY <3>1, <3>2
  <2>2. ASSUME m \in polled, \A l \in 1..n : calls[l].fd # m.fd
        PROVE  m \in Outstanding(rest, applied)
    <3>1. m \in applied
      <4>1. 1 \in 1..n
        BY <1>4
      <4> QED
        BY <1>4, <1>7, <2>2, <4>1
    <3>2. \A l \in 1..n - 1 : rest[l].fd # m.fd
      BY <1>9, <2>2
    <3> QED
      BY <1>6, <3>1, <3>2
  <2> QED
    BY <1>5, <1>11, <2>1, <2>2
<1> QED
  BY <1>10, <1>11

\* Applying the first call changes what is polled as it is meant to: also where a connection item
\* is kept, it is that of the connection that calls.
LEMMA FirstCallPolled ==
    ASSUME ExactInv, queue # <<>>, NEW call, call = Head(queue),
           IF call.flags = {} THEN RemoveItem(call) ELSE Add(call)
    PROVE  /\ Polled' = After(Polled, call)
           /\ \A p \in 1..Len(items') :
                \/ items'[p] = call /\ call.flags # {}
                \/ \E q \in 1..Len(items) :
                     items'[p] = items[q] /\ (call.flags = {} => items[q].fd # call.fd)
<1> USE DEF ExactInv
<1>1. call \in Calls /\ call = queue[1] /\ 1 \in 1..Len(queue)
  BY QueueShape, SMTT(60)
<1>2. PICK len \in Nat : len = Len(pollFds)
  BY Lengths, ZenonT(60)
<1>3. /\ Len(items) = len /\ DOMAIN pollFds = 1..len /\ DOMAIN items = 1..len
      /\ \A p \in 1..len : items[p] \in Calls /\ pollFds[p] \in PollFd /\ items[p].fd = pollFds[p].fd
      /\ \A p, q \in 1..len : p # q => pollFds[p].fd # pollFds[q].fd
  BY <1>2, Lengths
<1>4. Polled = {Entry(p) : p \in 1..len} /\ \A p : Entry(p).fd = pollFds[p].fd
  BY <1>3 DEF Polled, Entry
<1>5. \A n : items' \in Seq(Calls) /\ pollFds' \in Seq(PollFd) /\ Len(pollFds') = n =>
               Polled' = {Entry(p)' : p \in 1..n}
  <2>1. pollFds' \in Seq(PollFd) => DOMAIN pollFds' = 1..Len(pollFds')
    OBVIOUS
  <2> QED
    BY <2>1 DEF Polled, Entry
<1>6. call = [connection |-> call.connection, fd |-> call.fd, flags |-> call.flags]
  BY <1>1 DEF Calls
<1>7. \A m : m \in After(Polled, call) <=>
               (\E p \in 1..len : m = Entry(p) /\ pollFds[p].fd # call.fd) \/ (call.flags # {} /\ m = call)
  BY <1>4 DEF After
<1>8. ASSUME call.flags = {}
      PROVE  /\ Polled' = After(Polled, call)
             /\ \A p \in 1..Len(items') : \E q \in 1..len : items'[p] = items[q] /\ items[q].fd # call.fd
  <2>1. CASE UNCHANGED <<items, pollFds>> /\ \A p \in 1..len : pollFds[p].fd # call.fd
    <3>1. Polled' = Polled
      BY <2>1 DEF Polled
    <3>2. \A m : m \in Polled <=> m \in After(Polled, call)
      BY <1>4, <1>7, <1>8, <2>1
    <3> QED
      BY <1>3, <2>1, <3>1, <3>2, ZenonT(60)
  <2>2. ASSUME NEW n \in 1..len, pollFds[n].fd = call.fd,
               Len(pollFds') = len - 1, Len(items') = len - 1,
               \A p \in 1..len - 1 :
                  /\ items'[p] = IF p < n THEN items[p] ELSE items[p + 1]
                  /\ pollFds'[p] = IF p < n THEN pollFds[p] ELSE pollFds[p + 1]
        PROVE  /\ Polled' = After(Polled, call)
               /\ \A p \in 1..Len(items') : \E q \in 1..len : items'[p] = items[q] /\ items[q].fd # call.fd
    <3>1. \A q \in 1..len : q # n => pollFds[q].fd # call.fd
      BY <1>3, <2>2
    <3>2. \A p \in 1..len - 1 : \E q \in 1..len :
             q # n /\ items'[p] = items[q] /\ pollFds'[p] = pollFds[q] /\ Entry(p)' = Entry(q)
      <4>1. SUFFICES ASSUME NEW p \in 1..len - 1
                     PROVE  \E q \in 1..len : q # n /\ items'[p] = items[q] /\ pollFds'[p] = pollFds[q]
        BY DEF Entry
      <4>2. CASE p < n
        BY <2>2, <4>2
      <4>3. CASE ~(p < n)
        <5>1. p + 1 \in 1..len /\ p + 1 # n
          BY <4>3
        <5> QED
          BY <2>2, <4>3, <5>1
      <4> QED
        BY <4>2, <4>3
    <3>3. \A q \in 1..len : q # n => \E p \in 1..len - 1 : Entry(p)' = Entry(q)
      <4>1. SUFFICES ASSUME NEW q \in 1..len, q # n
                     PROVE  \E p \in 1..len - 1 : items'[p] = items[q] /\ pollFds'[p] = pollFds[q]
        BY DEF Entry
      <4>2. CASE q < n
        <5>1. q \in 1..len - 1
          BY <4>2
        <5> QED
          BY <2>2, <4>2, <5>1
      <4>3. CASE q > n
        <5>1. q - 1 \in 1..len - 1 /\ ~(q - 1 < n) /\ (q - 1) + 1 = q
          BY <4>3
        <5> QED
          BY <2>2, <5>1
      <4> QED
        BY <4>1, <4>2, <4>3
    <3>4. Polled' = {Entry(p)' : p \in 1..len - 1}
      BY <1>1, <1>5, <1>8, <2>2, AfterRemove
    <3>5. \A m : m \in Polled' <=> \E q \in 1..len : q # n /\ m = Entry(q)
      BY <3>2, <3>3, <3>4
    <3>6. \A m : m \in Polled' <=> m \in After(Polled, call)
      BY <1>7, <1>8, <2>2, <3>1, <3>5
    <3>7. Polled' = After(Polled, call)
      BY <3>6
    <3>8. \A p \in 1..Len(items') : \E q \in 1..len : items'[p] = items[q] /\ items[q].fd # call.fd
      BY <1>3, <2>2, <3>1, <3>2
    <3> QED
      BY <3>7, <3>8
  <2> QED
    BY <1>1, <1>2, <1>8, <2>1, <2>2, AfterRemove
<1>9. ASSUME call.flags # {}
      PROVE  /\ Polled' = After(Polled, call)
             /\ \A p \in 1..Len(items') : items'[p] = call \/ \E q \in 1..len : items'[p] = items[q]
  <2>1. ASSUME NEW n \in 1..len, pollFds[n].fd = call.fd, UNCHANGED items, Len(pollFds') = len,
               pollFds'[n].fd = call.fd, pollFds'[n].events = call.flags,
               \A p \in 1..len : p # n => pollFds'[p] = pollFds[p]
        PROVE  Polled' = After(Polled, call)
    <3>1. items[n].connection = call.connection
      <4>1. ~ \E m \in 1..Len(queue) : m < 1
        BY QueueShape
      <4>2. items[n].fd = queue[1].fd /\ queue[1].flags # {}
        BY <1>1, <1>3, <1>9, <2>1
      <4>3. n \in 1..Len(items)
        BY <1>3
      <4> QED
        BY <1>1, <4>1, <4>2, <4>3 DEF CallsInv, HandoverInv
    <3>2. Entry(n)' = call
      BY <1>6, <2>1, <3>1 DEF Entry
    <3>3. \A p \in 1..len : p # n => Entry(p)' = Entry(p) /\ pollFds[p].fd # call.fd
      BY <1>3, <2>1 DEF Entry
    <3>4. Polled' = {Entry(p)' : p \in 1..len}
      BY <1>1, <1>5, <1>9, <2>1, AfterAdd
    <3>5. \A m : m \in Polled' <=> m \in After(Polled, call)
      BY <1>7, <1>9, <2>1, <3>2, <3>3, <3>4
    <3> QED
      BY <3>5
  <2>2. ASSUME \A p \in 1..len : pollFds[p].fd # call.fd,
               Len(pollFds') = len + 1, Len(items') = len + 1, items'[len + 1] = call,
               pollFds'[len + 1].fd = call.fd, pollFds'[len + 1].events = call.flags,
               \A p \in 1..len : items'[p] = items[p] /\ pollFds'[p] = pollFds[p]
        PROVE  Polled' = After(Polled, call)
    <3>1. Entry(len + 1)' = call
      BY <1>6, <2>2 DEF Entry
    <3>2. \A p \in 1..len : Entry(p)' = Entry(p)
      BY <2>2 DEF Entry
    <3>3. Polled' = {Entry(p)' : p \in 1..len + 1}
      BY <1>1, <1>5, <1>9, <2>2, AfterAdd
    <3>4. \A p : p \in 1..len + 1 <=> p \in 1..len \/ p = len + 1
      OBVIOUS
    <3>5. \A m : m \in Polled' <=> m \in After(Polled, call)
      BY <1>7, <1>9, <2>2, <3>1, <3>2, <3>3, <3>4
    <3> QED
      BY <3>5
  <2>3. Polled' = After(Polled, call)
    BY <1>1, <1>2, <1>9, <2>1, <2>2, AfterAdd
  <2>4. \A p \in 1..Len(items') : items'[p] = call \/ \E q \in 1..len : items'[p] = items[q]
    <3>1. CASE UNCHANGED items
      BY <1>3, <3>1
    <3>2. CASE /\ Len(items') = len + 1 /\ items'[len + 1] = call
               /\ \A p \in 1..len : items'[p] = items[p]
      <4>1. \A p : p \in 1..len + 1 <=> p \in 1..len \/ p = len + 1
        OBVIOUS
      <4> QED
        BY <3>2, <4>1
    <3> QED
      BY <1>1, <1>2, <1>9, <3>1, <3>2, AfterAdd
  <2> QED
    BY <2>3, <2>4
<1> QED
  BY <1>2, <1>3, <1>8, <1>9

\* Applying the first call: a call for another connection was waiting behind an end, and an end
\* takes the entry that it was waiting for with it.
LEMMA ProcessCalls ==
    ASSUME ExactInv, IInv', ProcessConnectionItem
    PROVE  CallsInv'
<1> USE DEF ExactInv
<1>1. PICK call : call = Head(queue)
  OBVIOUS
<1>2. PICK n \in Nat : n = Len(queue)
  BY QueueShape
<1>3. /\ queue # <<>> /\ queue' = Tail(queue) /\ UNCHANGED <<state, socket, monitored>>
      /\ IF call.flags = {} THEN RemoveItem(call) ELSE Add(call)
  BY <1>1 DEF ProcessConnectionItem, libraryVars
<1>4. /\ n > 0 /\ call = queue[1] /\ Len(queue') = n - 1
      /\ \A k \in 1..n - 1 : queue'[k] = queue[k + 1]
  BY <1>1, <1>2, <1>3, QueueShape
<1>5. /\ Polled' = After(Polled, call)
      /\ \A p \in 1..Len(items') :
           \/ items'[p] = call /\ call.flags # {}
           \/ \E q \in 1..Len(items) :
                items'[p] = items[q] /\ (call.flags = {} => items[q].fd # call.fd)
  BY <1>1, <1>3, FirstCallPolled
<1>6. MonitoringIsExact'
  <2>1. Outstanding(Tail(queue), After(Polled, Head(queue))) = Outstanding(queue, Polled)
    BY <1>3, QueueShape, CallApplied
  <2> QED
    BY <1>1, <1>3, <1>5, <2>1 DEF CallsInv, MonitoringIsExact
\* an end that is behind the first call is still there, one place earlier
<1>8. \A fd : \A m \in 1..n : Ends(queue, fd, m) /\ m > 1 => m - 1 \in 1..n - 1 /\ Ends(queue', fd, m - 1)
  <2>1. ASSUME NEW fd, NEW m \in 1..n, Ends(queue, fd, m), m > 1
        PROVE  m - 1 \in 1..n - 1 /\ Ends(queue', fd, m - 1)
    <3>1. m - 1 \in 1..n - 1 /\ queue'[m - 1] = queue[m]
      BY <1>4, <2>1
    <3> QED
      BY <2>1, <3>1 DEF Ends
  <2> QED
    BY <2>1
<1>9. \A fd : Ends(queue, fd, 1) <=> fd = call.fd /\ call.flags = {}
  BY <1>4 DEF Ends
<1>10. /\ \A p \in 1..Len(items) :
            \/ \E m \in 1..n : Ends(queue, items[p].fd, m)
            \/ Owned(items[p].connection, items[p].fd)
       /\ \A k \in 1..n : queue[k].flags # {} =>
            \/ \E m \in 1..n : m > k /\ Ends(queue, queue[k].fd, m)
            \/ Owned(queue[k].connection, queue[k].fd)
       /\ \A p \in 1..Len(items), l \in 1..n :
            items[p].fd = queue[l].fd /\ queue[l].flags # {} /\ items[p].connection # queue[l].connection =>
               \E m \in 1..n : m < l /\ Ends(queue, queue[l].fd, m)
       /\ \A k, l \in 1..n :
            /\ k < l /\ queue[k].fd = queue[l].fd /\ queue[k].flags # {} /\ queue[l].flags # {}
            /\ queue[k].connection # queue[l].connection
            => \E m \in 1..n : k < m /\ m < l /\ Ends(queue, queue[l].fd, m)
  BY <1>2 DEF CallsInv, HandoverInv
<1>11. ASSUME NEW p \in 1..Len(items')
       PROVE  \/ \E m \in 1..n - 1 : Ends(queue', items'[p].fd, m)
              \/ Owned(items'[p].connection, items'[p].fd)
  <2>1. CASE items'[p] = call /\ call.flags # {}
    <3>1. 1 \in 1..n
      BY <1>4
    <3> QED
      BY <1>4, <1>8, <1>10, <2>1, <3>1
  <2>2. ASSUME NEW q \in 1..Len(items), items'[p] = items[q], call.flags = {} => items[q].fd # call.fd
        PROVE  \/ \E m \in 1..n - 1 : Ends(queue', items'[p].fd, m)
               \/ Owned(items'[p].connection, items'[p].fd)
    <3>1. ASSUME NEW m \in 1..n, Ends(queue, items[q].fd, m)
          PROVE  \E l \in 1..n - 1 : Ends(queue', items[q].fd, l)
      <4>1. m > 1
        BY <1>9, <2>2, <3>1
      <4> QED
        BY <1>8, <3>1, <4>1
    <3> QED
      BY <1>10, <2>2, <3>1
  <2> QED
    BY <1>5, <2>1, <2>2
<1>12. ASSUME NEW k \in 1..n - 1, queue'[k].flags # {}
       PROVE  \/ \E m \in 1..n - 1 : m > k /\ Ends(queue', queue'[k].fd, m)
              \/ Owned(queue'[k].connection, queue'[k].fd)
  <2>1. k + 1 \in 1..n /\ queue'[k] = queue[k + 1]
    BY <1>4
  <2>2. ASSUME NEW m \in 1..n, m > k + 1, Ends(queue, queue[k + 1].fd, m)
        PROVE  \E l \in 1..n - 1 : l > k /\ Ends(queue', queue[k + 1].fd, l)
    <3>1. m > 1 /\ m - 1 > k
      BY <2>2
    <3> QED
      BY <1>8, <2>2, <3>1
  <2> QED
    BY <1>10, <1>12, <2>1, <2>2
<1>13. ASSUME NEW p \in 1..Len(items'), NEW l \in 1..n - 1,
              items'[p].fd = queue'[l].fd, queue'[l].flags # {},
              items'[p].connection # queue'[l].connection
       PROVE  \E m \in 1..n - 1 : m < l /\ Ends(queue', queue'[l].fd, m)
  <2>1. l + 1 \in 1..n /\ queue'[l] = queue[l + 1] /\ 1 \in 1..n /\ 1 < l + 1
    BY <1>4
  <2>2. ASSUME NEW m \in 1..n, m > 1, m < l + 1, Ends(queue, queue[l + 1].fd, m)
        PROVE  \E k \in 1..n - 1 : k < l /\ Ends(queue', queue[l + 1].fd, k)
    <3>1. m - 1 < l
      BY <2>2
    <3> QED
      BY <1>8, <2>2, <3>1
  <2>3. CASE items'[p] = call /\ call.flags # {}
    <3>1. \E m \in 1..n : 1 < m /\ m < l + 1 /\ Ends(queue, queue[l + 1].fd, m)
      BY <1>4, <1>10, <1>13, <2>1, <2>3
    <3> QED
      BY <2>1, <2>2, <3>1
  <2>4. ASSUME NEW q \in 1..Len(items), items'[p] = items[q], call.flags = {} => items[q].fd # call.fd
        PROVE  \E m \in 1..n - 1 : m < l /\ Ends(queue', queue'[l].fd, m)
    <3>1. PICK m \in 1..n : m < l + 1 /\ Ends(queue, queue[l + 1].fd, m)
      BY <1>10, <1>13, <2>1, <2>4
    <3>2. m > 1
      <4>1. m # 1
        BY <1>9, <1>13, <2>1, <2>4, <3>1
      <4> QED
        BY <4>1
    <3> QED
      BY <2>1, <2>2, <3>1, <3>2
  <2> QED
    BY <1>5, <2>3, <2>4
<1>14. ASSUME NEW k \in 1..n - 1, NEW l \in 1..n - 1, k < l, queue'[k].fd = queue'[l].fd,
              queue'[k].flags # {}, queue'[l].flags # {}, queue'[k].connection # queue'[l].connection
       PROVE  \E m \in 1..n - 1 : k < m /\ m < l /\ Ends(queue', queue'[l].fd, m)
  <2>1. /\ k + 1 \in 1..n /\ queue'[k] = queue[k + 1]
        /\ l + 1 \in 1..n /\ queue'[l] = queue[l + 1] /\ k + 1 < l + 1
    BY <1>4, <1>14
  <2>2. PICK m \in 1..n : k + 1 < m /\ m < l + 1 /\ Ends(queue, queue[l + 1].fd, m)
    BY <1>10, <1>14, <2>1
  <2>3. m > 1 /\ k < m - 1 /\ m - 1 < l
    BY <2>2
  <2> QED
    BY <1>8, <2>1, <2>2, <2>3
<1>15. HandoverInv'
  BY <1>3, <1>4, <1>11, <1>12, <1>13, <1>14 DEF HandoverInv, Owned, IsOpen
<1> QED
  BY <1>6, <1>15 DEF CallsInv

\* A call by the connection that has the descriptor, after every other connection has lost it:
\* whoever loses it ends its monitoring.
LEMMA MonitorCalls ==
    ASSUME ExactInv, NEW c \in Connections, NEW fd \in Fds, NEW flags \in SUBSET Flags,
           Monitor(c, fd, flags), UNCHANGED <<items, pollFds>>,
           \A d \in Connections : Owned(d, fd) => d = c,
           flags # {} => state'[c] = "open" /\ socket'[c] = fd,
           \A d \in Connections : \A f : Owned(d, f) =>
                \/ state'[d] = "open" /\ socket'[d] = f
                \/ f = fd /\ flags = {}
    PROVE  CallsInv'
<1> USE DEF ExactInv
<1>1. PICK call \in Calls : call = [connection |-> c, fd |-> fd, flags |-> flags]
  BY DEF Calls
<1>2. call.connection = c /\ call.fd = fd /\ call.flags = flags
  BY <1>1
<1>3. queue' = Append(queue, call) /\ monitored' = After(monitored, call)
  BY <1>1 DEF Monitor
<1>4. PICK n \in Nat : n = Len(queue)
  BY QueueShape
<1>5. /\ Len(queue') = n + 1 /\ queue'[n + 1] = call
      /\ \A k \in 1..n : queue'[k] = queue[k]
  BY <1>3, <1>4, QueueShape
<1>6. MonitoringIsExact'
  <2>1. Polled' = Polled
    BY DEF Polled
  <2>2. Outstanding(Append(queue, call), Polled) = After(Outstanding(queue, Polled), call)
    BY QueueShape, CallAppended
  <2> QED
    BY <1>3, <2>1, <2>2 DEF CallsInv, MonitoringIsExact
<1>7. \A k : k \in 1..n + 1 <=> k \in 1..n \/ k = n + 1
  OBVIOUS
<1>8. \A f, m : m \in 1..n /\ Ends(queue, f, m) => m \in 1..n + 1 /\ Ends(queue', f, m)
  BY <1>5, <1>7 DEF Ends
<1>9. flags = {} => n + 1 \in 1..n + 1 /\ Ends(queue', fd, n + 1)
  BY <1>2, <1>5, <1>7 DEF Ends
<1>10. /\ \A p \in 1..Len(items) :
            \/ \E m \in 1..n : Ends(queue, items[p].fd, m)
            \/ Owned(items[p].connection, items[p].fd)
       /\ \A k \in 1..n : queue[k].flags # {} =>
            \/ \E m \in 1..n : m > k /\ Ends(queue, queue[k].fd, m)
            \/ Owned(queue[k].connection, queue[k].fd)
       /\ \A p \in 1..Len(items), l \in 1..n :
            items[p].fd = queue[l].fd /\ queue[l].flags # {} /\ items[p].connection # queue[l].connection =>
               \E m \in 1..n : m < l /\ Ends(queue, queue[l].fd, m)
       /\ \A k, l \in 1..n :
            /\ k < l /\ queue[k].fd = queue[l].fd /\ queue[k].flags # {} /\ queue[l].flags # {}
            /\ queue[k].connection # queue[l].connection
            => \E m \in 1..n : k < m /\ m < l /\ Ends(queue, queue[l].fd, m)
  BY <1>4 DEF CallsInv, HandoverInv
<1>11. (\A p \in 1..Len(items) : items[p].connection \in Connections)
       /\ \A k \in 1..n : queue[k].connection \in Connections
  BY <1>4, QueueShape, Lengths DEF Calls
<1>12. ASSUME NEW p \in 1..Len(items)
       PROVE  \/ \E m \in 1..n + 1 : Ends(queue', items[p].fd, m)
              \/ state'[items[p].connection] = "open" /\ socket'[items[p].connection] = items[p].fd
  <2>1. CASE \E m \in 1..n : Ends(queue, items[p].fd, m)
    BY <1>8, <2>1
  <2>2. CASE Owned(items[p].connection, items[p].fd)
    BY <1>9, <1>11, <2>2
  <2> QED
    BY <1>10, <2>1, <2>2
<1>13. ASSUME NEW k \in 1..n + 1, queue'[k].flags # {}
       PROVE  \/ \E m \in 1..n + 1 : m > k /\ Ends(queue', queue'[k].fd, m)
              \/ state'[queue'[k].connection] = "open" /\ socket'[queue'[k].connection] = queue'[k].fd
  <2>1. CASE k = n + 1
    BY <1>2, <1>5, <1>13, <2>1
  <2>2. CASE k \in 1..n
    <3>1. queue'[k] = queue[k] /\ n + 1 > k
      BY <1>5, <2>2
    <3>2. CASE \E m \in 1..n : m > k /\ Ends(queue, queue[k].fd, m)
      BY <1>8, <3>1, <3>2
    <3>3. CASE Owned(queue[k].connection, queue[k].fd)
      BY <1>9, <1>11, <2>2, <3>1, <3>3
    <3> QED
      BY <1>10, <1>13, <2>2, <3>1, <3>2, <3>3
  <2> QED
    BY <1>7, <2>1, <2>2
<1>14. ASSUME NEW p \in 1..Len(items), NEW l \in 1..n + 1,
              items[p].fd = queue'[l].fd, queue'[l].flags # {},
              items[p].connection # queue'[l].connection
       PROVE  \E m \in 1..n + 1 : m < l /\ Ends(queue', queue'[l].fd, m)
  <2>1. CASE l = n + 1
    <3>1. ~Owned(items[p].connection, items[p].fd)
      BY <1>2, <1>5, <1>11, <1>14, <2>1
    <3>2. PICK m \in 1..n : Ends(queue, items[p].fd, m)
      BY <1>10, <3>1
    <3>3. m < l
      BY <2>1
    <3> QED
      BY <1>8, <1>14, <3>2, <3>3
  <2>2. CASE l \in 1..n
    <3>1. queue'[l] = queue[l]
      BY <1>5, <2>2
    <3>2. \E m \in 1..n : m < l /\ Ends(queue, queue[l].fd, m)
      BY <1>10, <1>14, <2>2, <3>1
    <3> QED
      BY <1>8, <3>1, <3>2
  <2> QED
    BY <1>7, <2>1, <2>2
<1>15. ASSUME NEW k \in 1..n + 1, NEW l \in 1..n + 1, k < l, queue'[k].fd = queue'[l].fd,
              queue'[k].flags # {}, queue'[l].flags # {}, queue'[k].connection # queue'[l].connection
       PROVE  \E m \in 1..n + 1 : k < m /\ m < l /\ Ends(queue', queue'[l].fd, m)
  <2>1. k \in 1..n /\ queue'[k] = queue[k]
    BY <1>5, <1>15
  <2>2. CASE l = n + 1
    <3>1. ~Owned(queue[k].connection, queue[k].fd)
      BY <1>2, <1>5, <1>11, <1>15, <2>1, <2>2
    <3>2. PICK m \in 1..n : m > k /\ Ends(queue, queue[k].fd, m)
      BY <1>10, <1>15, <2>1, <3>1
    <3>3. m < l /\ k < m
      BY <2>2, <3>2
    <3> QED
      BY <1>8, <1>15, <2>1, <3>2, <3>3
  <2>3. CASE l \in 1..n
    <3>1. queue'[l] = queue[l]
      BY <1>5, <2>3
    <3>2. \E m \in 1..n : k < m /\ m < l /\ Ends(queue, queue[l].fd, m)
      BY <1>10, <1>15, <2>1, <2>3, <3>1
    <3> QED
      BY <1>8, <3>1, <3>2
  <2> QED
    BY <1>7, <2>2, <2>3
<1>16. HandoverInv'
  BY <1>5, <1>12, <1>13, <1>14, <1>15 DEF HandoverInv, Owned, IsOpen
<1> QED
  BY <1>6, <1>16 DEF CallsInv

\* Without a call: nobody who has a descriptor loses it.
LEMMA QuietCalls ==
    ASSUME ExactInv, NoMonitor, UNCHANGED <<items, pollFds>>,
           \A d \in Connections : \A f : Owned(d, f) => state'[d] = "open" /\ socket'[d] = f
    PROVE  CallsInv'
<1>1. UNCHANGED <<queue, monitored, items, pollFds>>
  BY DEF NoMonitor
<1>2. MonitoringIsExact'
  BY <1>1 DEF ExactInv, CallsInv, MonitoringIsExact, Polled
<1>3. HandoverInv'
  <2>1. \A d \in Connections : \A f : Owned(d, f) => Owned(d, f)'
    BY DEF Owned, IsOpen
  <2>2. HandoverInv
    BY DEF ExactInv, CallsInv
  <2>3. /\ \A p \in 1..Len(items) : items[p].connection \in Connections
        /\ \A k \in 1..Len(queue) : queue[k].connection \in Connections
    BY Lengths, QueueShape DEF ExactInv, Calls
  <2> QED
    BY <1>1, <2>1, <2>2, <2>3 DEF HandoverInv
<1> QED
  BY <1>2, <1>3 DEF CallsInv

\* A connection that has a descriptor has it alone.
LEMMA OwnersAlone ==
    ASSUME ExactInv, NEW c \in Connections, NEW fd \in Fds, socket[c] = fd
    PROVE  IsOpen(c) /\ \A d \in Connections : Owned(d, fd) => d = c
<1>1. fd # 0
  BY EventLoopAssumption
<1>2. IsOpen(c)
  BY <1>1 DEF ExactInv, SocketsInv
<1> QED
  BY <1>2 DEF ExactInv, SocketsInv, Owned

\* Closing a socket leaves the others alone.
LEMMA CloseSockets ==
    ASSUME ExactInv, NEW c \in Connections, NEW s \in {"closed", "destroyed"}, CloseSocket(c, s)
    PROVE  /\ SocketsInv'
           /\ \A d \in Connections : d # c => state'[d] = state[d] /\ socket'[d] = socket[d]
<1>1. /\ state \in [Connections -> {"new", "open", "closed", "destroyed"}]
      /\ socket \in [Connections -> Fds \cup {0}]
  BY DEF ExactInv, IInv, ShapeInv
<1>2. /\ state'[c] = s /\ socket'[c] = 0
      /\ \A d \in Connections : d # c => state'[d] = state[d] /\ socket'[d] = socket[d]
  BY <1>1 DEF CloseSocket
<1>3. s # "open"
  OBVIOUS
<1>4. SocketsInv
  BY DEF ExactInv
<1>5. \A d \in Connections : socket'[d] # 0 => state'[d] = "open"
  BY <1>2, <1>4 DEF SocketsInv, IsOpen
<1>6. \A d, e \in Connections : state'[d] = "open" /\ state'[e] = "open" /\ socket'[d] = socket'[e] => d = e
  BY <1>2, <1>3, <1>4 DEF SocketsInv, IsOpen
<1> QED
  BY <1>2, <1>5, <1>6 DEF SocketsInv, IsOpen

\* While no socket is opened or closed
LEMMA SocketsStay ==
    ASSUME ExactInv, UNCHANGED <<state, socket>>
    PROVE  /\ SocketsInv'
           /\ \A d \in Connections : \A f : Owned(d, f) => state'[d] = "open" /\ socket'[d] = f
  BY DEF ExactInv, SocketsInv, Owned, IsOpen

\* Closing a socket: its monitoring ends first.
LEMMA CloseCalls ==
    ASSUME ExactInv, NEW c \in Connections, NEW s \in {"closed", "destroyed"}, CloseSocket(c, s),
           IsOpen(c), Monitor(c, socket[c], {}), UNCHANGED <<items, pollFds>>
    PROVE  SocketsInv' /\ CallsInv'
<1>1. PICK fd \in Fds : fd = socket[c]
  BY DEF ExactInv, IInv, ShapeInv
<1>2. \A d \in Connections : Owned(d, fd) => d = c
  BY <1>1, OwnersAlone
<1>3. SocketsInv' /\ \A d \in Connections : d # c => state'[d] = state[d] /\ socket'[d] = socket[d]
  BY CloseSockets
<1>4. \A d \in Connections : \A f : Owned(d, f) =>
         (state'[d] = "open" /\ socket'[d] = f) \/ f = fd
  BY <1>1, <1>3 DEF Owned, IsOpen
<1>5. CallsInv'
  BY <1>1, <1>2, <1>4, MonitorCalls
<1> QED
  BY <1>3, <1>5

LEMMA LoopExact ==
    ASSUME ExactInv, LoopThread
    PROVE  SocketsInv' /\ CallsInv'
<1> USE DEF ExactInv
<1>1. CASE Top \/ Drained \/ Poll \/ PollWithoutResult \/ RoundOver
  <2>1. UNCHANGED <<items, pollFds, state, socket>> /\ NoMonitor
    BY <1>1 DEF Top, Drained, Poll, PollWithoutResult, RoundOver, libraryVars, NoMonitor
  <2> QED
    BY <2>1, SocketsStay, QuietCalls
<1>2. CASE ProcessConnectionItem
  <2>1. IInv' /\ UNCHANGED <<state, socket>>
    BY <1>2, LoopStep DEF ProcessConnectionItem, libraryVars
  <2> QED
    BY <1>2, <2>1, SocketsStay, ProcessCalls
<1>3. CASE Handle
  <2>1. i \in 1..Len(pollFds)
    BY <1>3, Lengths DEF Handle, IInv, ShapeInv
  <2> DEFINE c == items[i].connection
             fd == items[i].fd
  <2>2. c \in Connections /\ fd \in Fds
    BY <2>1, Lengths DEF Calls
  <2>3. /\ UNCHANGED <<items, pollFds>>
        /\ \/ UNCHANGED <<state, socket>> /\ NoMonitor
           \/ Process(c, fd, items[i].flags)
    BY <1>3 DEF Handle, UseDestroyed, libraryVars
  <2> HIDE DEF c, fd
  <2>4. CASE UNCHANGED <<state, socket>> /\ NoMonitor
    BY <2>3, <2>4, SocketsStay, QuietCalls
  <2>5. CASE socket[c] = fd /\ CloseSocket(c, "closed") /\ Monitor(c, fd, {})
    BY <2>2, <2>3, <2>5, OwnersAlone, CloseCalls
  <2>6. CASE socket[c] = fd /\ UNCHANGED <<state, socket>> /\ Monitor(c, fd, {"readable"})
    <3>1. IsOpen(c) /\ \A d \in Connections : Owned(d, fd) => d = c
      BY <2>2, <2>6, OwnersAlone
    <3>2. state'[c] = "open" /\ socket'[c] = fd
      BY <2>6, <3>1 DEF IsOpen
    <3>3. {"readable"} \in SUBSET Flags
      BY DEF Flags
    <3> QED
      BY <2>2, <2>3, <2>6, <3>1, <3>2, <3>3, SocketsStay, MonitorCalls
  <2> QED
    BY <2>3, <2>4, <2>5, <2>6 DEF Process, libraryVars
<1> QED
  BY <1>1, <1>2, <1>3 DEF LoopThread

LEMMA ConnectionExact ==
    ASSUME ExactInv, NEW c \in Connections,
           \/ \E fd \in Fds, blocked \in BOOLEAN : Open(c, fd, blocked)
           \/ Send(c)
           \/ Destroy(c)
           \/ Kernel(c)
           \/ PeerReads(c)
    PROVE  SocketsInv' /\ CallsInv'
<1> USE DEF ExactInv
<1>1. UNCHANGED <<items, pollFds>>
  BY DEF Open, Send, Destroy, Kernel, PeerReads, loopVars
<1>2. ASSUME NEW fd \in Fds, NEW blocked \in BOOLEAN, Open(c, fd, blocked)
      PROVE  SocketsInv' /\ CallsInv'
  <2>1. PICK flags \in SUBSET Flags : Monitor(c, fd, flags)
    BY <1>2 DEF Open, Flags
  <2>2. /\ state \in [Connections -> {"new", "open", "closed", "destroyed"}]
        /\ socket \in [Connections -> Fds \cup {0}]
    BY DEF IInv, ShapeInv
  <2>3. /\ state[c] = "new" /\ state'[c] = "open" /\ socket'[c] = fd
        /\ \A d \in Connections : d # c => state'[d] = state[d] /\ socket'[d] = socket[d]
    BY <1>2, <2>2 DEF Open
  <2>4. \A d \in Connections : socket[d] # fd
    BY <1>2, <2>2 DEF Open, Range
  <2>5. \A d \in Connections : \A f : Owned(d, f) => state'[d] = "open" /\ socket'[d] = f
    BY <2>3 DEF Owned, IsOpen
  <2>6. \A d \in Connections : Owned(d, fd) => d = c
    BY <2>4 DEF Owned
  <2>7. CallsInv'
    BY <1>1, <2>1, <2>3, <2>5, <2>6, MonitorCalls
  <2>8. SocketsInv'
    BY <2>3, <2>4 DEF SocketsInv, IsOpen
  <2> QED
    BY <2>7, <2>8
<1>3. CASE Send(c)
  <2>1. PICK fd \in Fds : fd = socket[c]
    BY <1>3 DEF Send, IInv, ShapeInv
  <2>2. IsOpen(c) /\ Monitor(c, fd, Flags) /\ UNCHANGED <<state, socket>>
    BY <1>3, <2>1 DEF Send
  <2>3. \A d \in Connections : Owned(d, fd) => d = c
    BY <2>1, OwnersAlone
  <2>4. state'[c] = "open" /\ socket'[c] = fd
    BY <2>1, <2>2 DEF IsOpen
  <2> QED
    BY <1>1, <2>2, <2>3, <2>4, SocketsStay, MonitorCalls
<1>4. CASE Destroy(c)
  <2>1. CASE IsOpen(c)
    <3>1. CloseSocket(c, "destroyed") /\ Monitor(c, socket[c], {})
      BY <1>4, <2>1 DEF Destroy
    <3> QED
      BY <1>1, <2>1, <3>1, CloseCalls
  <2>2. CASE ~IsOpen(c)
    <3>1. CloseSocket(c, "destroyed") /\ NoMonitor
      BY <1>4, <2>2 DEF Destroy
    <3>2. SocketsInv' /\ \A d \in Connections : d # c => state'[d] = state[d] /\ socket'[d] = socket[d]
      BY <3>1, CloseSockets
    <3>3. \A d \in Connections : \A f : Owned(d, f) => state'[d] = "open" /\ socket'[d] = f
      BY <2>2, <3>2 DEF Owned, IsOpen
    <3> QED
      BY <1>1, <3>1, <3>2, <3>3, QuietCalls
  <2> QED
    BY <2>1, <2>2
<1>5. CASE Kernel(c) \/ PeerReads(c)
  <2>1. UNCHANGED <<state, socket>> /\ NoMonitor
    BY <1>5 DEF Kernel, PeerReads, libraryVars, NoMonitor
  <2> QED
    BY <1>1, <2>1, SocketsStay, QuietCalls
<1> QED
  BY <1>2, <1>3, <1>4, <1>5

\* Always: descriptors are handed over from one connection to the next in order.
THEOREM ExactInvariantHolds == Spec => []ExactInv
<1>1. ASSUME Init PROVE ExactInv
  <2>1. Len(queue) = 0 /\ Len(items) = 0 /\ queue = <<>> /\ pollFds = <<>> /\ monitored = {}
    BY <1>1 DEF Init
  <2>2. SocketsInv
    BY <1>1 DEF Init, SocketsInv, IsOpen
  <2>3. HandoverInv
    BY <2>1 DEF HandoverInv
  <2>4. MonitoringIsExact
    <3>1. Polled = {}
      BY <2>1 DEF Polled
    <3>2. Outstanding(queue, Polled) = {}
      BY <2>1, <3>1 DEF Outstanding
    <3> QED
      BY <2>1, <3>2 DEF MonitoringIsExact
  <2> QED
    BY <1>1, <2>2, <2>3, <2>4, InitIInv DEF ExactInv, CallsInv
<1>2. ASSUME ExactInv, [Next]_vars PROVE ExactInv'
  <2>1. IInv'
    BY <1>2, NextIInv DEF ExactInv
  <2>2. CASE Stop \/ UNCHANGED vars
    <3>1. UNCHANGED <<items, pollFds, state, socket>> /\ NoMonitor
      BY <2>2 DEF Stop, vars, loopVars, libraryVars, NoMonitor
    <3> QED
      BY <1>2, <2>1, <3>1, SocketsStay, QuietCalls DEF ExactInv
  <2> QED
    BY <1>2, <2>1, <2>2, LoopExact, ConnectionExact DEF Next, ExactInv
<1> QED
  BY <1>1, <1>2, PTL DEF Spec

\* Once the waiting calls of monitor are applied, what is polled is what the library asked for last,
\* for the connection that asked, however often a descriptor is closed and given to another one.
THEOREM MonitoringStaysExact == Spec => []MonitoringIsExact
<1>1. ExactInv => MonitoringIsExact
  BY DEF ExactInv, CallsInv
<1> QED
  BY <1>1, ExactInvariantHolds, PTL

\* Whatever is still polled for a destroyed connection, a call that ends it is waiting: the loop
\* uses the connection for the last time before it has applied the queue once more.
THEOREM DestroyedLeave == Spec => []DestroyedAreLeaving
<1>1. ExactInv => DestroyedAreLeaving
  <2>1. SUFFICES ASSUME ExactInv, NEW p \in DOMAIN items, state[items[p].connection] = "destroyed"
                 PROVE  \E call \in Range(queue) : call.fd = items[p].fd /\ call.flags = {}
    BY DEF DestroyedAreLeaving
  <2>2. p \in 1..Len(items)
    BY <2>1, Lengths DEF ExactInv
  <2>3. ~Owned(items[p].connection, items[p].fd)
    BY <2>1 DEF Owned, IsOpen
  <2>4. PICK m \in 1..Len(queue) : Ends(queue, items[p].fd, m)
    BY <2>1, <2>2, <2>3 DEF ExactInv, CallsInv, HandoverInv
  <2>5. m \in DOMAIN queue
    BY <2>1, QueueShape DEF ExactInv
  <2> QED
    BY <2>4, <2>5 DEF Ends, Range
<1> QED
  BY <1>1, ExactInvariantHolds, PTL

=============================================================================
