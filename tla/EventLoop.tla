----------------------------- MODULE EventLoop -----------------------------
(***************************************************************************)
(* rabbitmq::EventLoop: one thread polls the descriptors of all AMQP       *)
(* connections and hands the ready ones to the library.                    *)
(*                                                                         *)
(* The library says what it wants to be polled by TcpHandler::monitor, on  *)
(* whatever thread it runs.  The calls wait in a queue, which the loop     *)
(* applies at the start of every round to two parallel vectors: the        *)
(* connections (m_connectionItems) and what poll(2) is asked (m_pollFds).  *)
(*                                                                         *)
(* The AMQP library and the sockets are external.  The library opens one   *)
(* socket for a connection, stops its monitoring before it closes it,      *)
(* keeps what the socket does not take and then asks for writability, and  *)
(* sends the rest only when process() is called with that flag.            *)
(***************************************************************************)
EXTENDS Integers, FiniteSets, Sequences, SequencesExt

CONSTANTS
    Connections,  \* the AMQP::TcpConnection objects: the consumer's, the publisher's
    Fds,          \* the descriptors the system gives their sockets, again and again
    MaxStalls     \* bound: how often a socket does not take all the output

\* 0 stands for no descriptor.
ASSUME EventLoopAssumption == Fds \subseteq Nat \ {0} /\ MaxStalls \in Nat

VARIABLES
    isRunning,    \* m_isRunning
    pc,           \* where the loop is; it holds the queue's mutex in "drain"
    queue,        \* m_connectionItemsQueue
    items,        \* m_connectionItems
    pollFds,      \* m_pollFds: the descriptors and the events asked for
    ready,        \* the positions with POLLHUP, POLLERR, POLLIN or POLLOUT in revents
    res,          \* what poll returned, less what was handled
    i,            \* the position in both vectors
    state,        \* of a connection: "new", "open", "closed" or "destroyed"
    socket,       \* the descriptor of an open connection
    unsent,       \* the open connections with output in the library's buffer
    arrived,      \* the open connections with data in the socket that nobody read
    full,         \* the open connections whose socket did not take all the output
    stalls,       \* how often that happened
    broken,       \* the open connections whose peer is gone
    monitored,    \* what the library asked to monitor, all calls considered
    crashed       \* whether the use of a destroyed connection brought the process down

loopVars == <<pc, items, pollFds, ready, res, i>>
libraryVars == <<state, socket, unsent>>
kernelVars == <<arrived, full, stalls, broken>>
vars == <<isRunning, loopVars, queue, libraryVars, kernelVars, monitored, crashed>>

Flags == {"readable", "writable"}

\* A call of monitor(); without flags it ends the monitoring.
Calls == [connection : Connections, fd : Fds, flags : SUBSET Flags]

TypeOK ==
    /\ isRunning \in BOOLEAN
    /\ pc \in {"top", "drain", "poll", "handle", "stopped"}
    /\ queue \in Seq(Calls)
    /\ items \in Seq(Calls)
    /\ pollFds \in Seq([fd : Fds, events : SUBSET Flags])
    /\ ready \subseteq 1..Len(pollFds)
    /\ res \in 0..Len(pollFds)
    /\ i \in 1..(Len(pollFds) + 1)
    /\ state \in [Connections -> {"new", "open", "closed", "destroyed"}]
    /\ socket \in [Connections -> Fds \cup {0}]
    /\ unsent \subseteq Connections
    /\ arrived \subseteq Connections
    /\ full \subseteq Connections
    /\ stalls \in 0..MaxStalls
    /\ broken \subseteq Connections
    /\ monitored \subseteq Calls
    /\ crashed \in BOOLEAN

Init ==
    /\ isRunning = TRUE
    /\ pc = "top"
    /\ queue = <<>>
    /\ items = <<>>
    /\ pollFds = <<>>
    /\ ready = {}
    /\ res = 0
    /\ i = 1
    /\ state = [c \in Connections |-> "new"]
    /\ socket = [c \in Connections |-> 0]
    /\ unsent = {}
    /\ arrived = {}
    /\ full = {}
    /\ stalls = 0
    /\ broken = {}
    /\ monitored = {}
    /\ crashed = FALSE

IsOpen(c) == state[c] = "open"

-----------------------------------------------------------------------------
(* TcpHandler::monitor                                                     *)

\* A set of monitored descriptors after one more call
After(set, call) ==
    {m \in set : m.fd # call.fd} \cup (IF call.flags = {} THEN {} ELSE {call})

\* addConnectionItem: it waits for the mutex
Monitor(c, fd, flags) ==
    LET call == [connection |-> c, fd |-> fd, flags |-> flags]
    IN  /\ pc # "drain"
        /\ queue' = Append(queue, call)
        /\ monitored' = After(monitored, call)

NoMonitor == UNCHANGED <<queue, monitored>>

-----------------------------------------------------------------------------
(* The loop: func                                                          *)

\* while (m_isRunning), and inside the lock of the queue
NextRound == pc' = IF isRunning THEN "drain" ELSE "stopped"

\* The thread starts, or the sleep is over.
Top ==
    /\ pc = "top"
    /\ NextRound
    /\ UNCHANGED <<isRunning, items, pollFds, ready, res, i, queue,
                   libraryVars, kernelVars, monitored, crashed>>

\* std::find_if: the first position of a descriptor, 0 if there is none
Find(fd) == SelectInSeq(pollFds, LAMBDA p : p.fd = fd)

\* Faulty variant of RemoveItem: a connection that is closed stays in both vectors.
RemoveNothing(call) == UNCHANGED <<items, pollFds>>

\* Faulty variant of RemoveItem: the connection item is not erased.
RemoveDescriptor(call) ==
    /\ UNCHANGED items
    /\ pollFds' = IF Find(call.fd) = 0 THEN pollFds ELSE RemoveAt(pollFds, Find(call.fd))

RemoveItem(call) ==
    IF Find(call.fd) = 0
      THEN UNCHANGED <<items, pollFds>>
      ELSE /\ items' = RemoveAt(items, Find(call.fd))
           /\ pollFds' = RemoveAt(pollFds, Find(call.fd))

\* Faulty variant of Update: what is polled is what was asked for first.
UpdateNothing(call) == UNCHANGED <<items, pollFds>>

\* The events change; the connection item keeps its first m_flags and m_connection.
Update(call) ==
    /\ UNCHANGED items
    /\ pollFds' = [pollFds EXCEPT ![Find(call.fd)].events = call.flags]

Add(call) ==
    IF Find(call.fd) # 0
      THEN Update(call)
      ELSE /\ pollFds' = Append(pollFds, [fd |-> call.fd, events |-> call.flags])
           /\ items' = Append(items, call)

ProcessConnectionItem ==
    /\ pc = "drain"
    /\ queue # <<>>
    /\ IF Head(queue).flags = {} THEN RemoveItem(Head(queue)) ELSE Add(Head(queue))
    /\ queue' = Tail(queue)
    /\ UNCHANGED <<isRunning, pc, ready, res, i, libraryVars, kernelVars, monitored, crashed>>

\* The queue is empty and the lock released.  Without descriptors: sleep(1).
Drained ==
    /\ pc = "drain"
    /\ queue = <<>>
    /\ pc' = IF pollFds = <<>> THEN "top" ELSE "poll"
    /\ UNCHANGED <<isRunning, items, pollFds, ready, res, i, queue,
                   libraryVars, kernelVars, monitored, crashed>>

\* What poll finds at a position.  A descriptor that no open socket has gets POLLNVAL.
Owners(p) == {c \in Connections : IsOpen(c) /\ socket[c] = pollFds[p].fd}

IsInvalid(p) == Owners(p) = {}

IsReady(p) ==
    \E c \in Owners(p) :
        \/ c \in broken
        \/ c \in arrived /\ "readable" \in pollFds[p].events
        \/ c \notin full /\ "writable" \in pollFds[p].events

\* poll returns: something is ready
Poll ==
    LET found == {p \in DOMAIN pollFds : IsReady(p)}
        invalid == {p \in DOMAIN pollFds : IsInvalid(p)}
    IN  /\ pc = "poll"
        /\ found \cup invalid # {}
        /\ ready' = found
        /\ res' = Cardinality(found \cup invalid)
        /\ i' = 1
        /\ pc' = "handle"
        /\ UNCHANGED <<isRunning, items, pollFds, queue, libraryVars, kernelVars, monitored, crashed>>

\* Faulty variant of PollEnds: poll(..., -1), it may fail but it does not time out.
PollFailsOnly == FALSE

\* 100 ms are over and nothing is ready, or poll was interrupted
PollEnds == pc = "poll"

PollWithoutResult ==
    /\ PollEnds
    /\ NextRound
    /\ UNCHANGED <<isRunning, items, pollFds, ready, res, i, queue,
                   libraryVars, kernelVars, monitored, crashed>>

\* Closing a socket, on the library's side: first the end of its monitoring
CloseSocket(c, newState) ==
    /\ state' = [state EXCEPT ![c] = newState]
    /\ socket' = [socket EXCEPT ![c] = 0]
    /\ unsent' = unsent \ {c}
    /\ arrived' = arrived \ {c}
    /\ full' = full \ {c}
    /\ broken' = broken \ {c}
    /\ UNCHANGED stalls

\* TcpConnection::process(fd, flags) on a connection that is not destroyed
Process(c, fd, flags) ==
    \/ /\ socket[c] # fd
       /\ UNCHANGED <<libraryVars, kernelVars>>
       /\ NoMonitor
    \/ /\ socket[c] = fd
       /\ c \in broken
       /\ CloseSocket(c, "closed")
       /\ Monitor(c, fd, {})
    \/ /\ socket[c] = fd
       /\ c \notin broken
       /\ LET flushes == "writable" \in flags /\ (c \in unsent => c \notin full)
          IN  /\ unsent' = IF flushes THEN unsent \ {c} ELSE unsent
              /\ IF flushes THEN Monitor(c, fd, {"readable"}) ELSE NoMonitor
       /\ arrived' = IF "readable" \in flags THEN arrived \ {c} ELSE arrived
       /\ UNCHANGED <<state, socket, full, stalls, broken>>

\* Using a connection that another thread destroyed: nothing is seen of it, or the
\* process crashes.
UseDestroyed ==
    /\ crashed' \in BOOLEAN
    /\ UNCHANGED <<libraryVars, kernelVars>>
    /\ NoMonitor

\* Faulty variant of Left: --res whether the position was ready or not.
LeftAtAnyPosition == res - 1

\* Faulty variant of Left: poll's result is taken for a number of events.
LeftPerEvent == IF i \in ready THEN res - Cardinality(pollFds[i].events) ELSE res

\* res after this position
Left == IF i \in ready THEN res - 1 ELSE res

Handle ==
    /\ pc = "handle"
    /\ i <= Len(pollFds)
    /\ res > 0
    /\ IF i \notin ready
         THEN UNCHANGED <<libraryVars, kernelVars, crashed>> /\ NoMonitor
         ELSE IF state[items[i].connection] = "destroyed"
         THEN UseDestroyed
         ELSE Process(items[i].connection, items[i].fd, items[i].flags) /\ UNCHANGED crashed
    /\ res' = Left
    /\ i' = i + 1
    /\ UNCHANGED <<isRunning, pc, items, pollFds, ready>>

RoundOver ==
    /\ pc = "handle"
    /\ i > Len(pollFds) \/ res = 0
    /\ NextRound
    /\ ready' = {}
    /\ res' = 0
    /\ i' = 1
    /\ UNCHANGED <<isRunning, items, pollFds, queue,
                   libraryVars, kernelVars, monitored, crashed>>

\* EventLoop::stop: the flag; the caller then joins the thread
Stop ==
    /\ isRunning
    /\ isRunning' = FALSE
    /\ UNCHANGED <<loopVars, queue, libraryVars, kernelVars, monitored, crashed>>

-----------------------------------------------------------------------------
(* The library and the handlers, on any thread                             *)

\* Handler::start: the connection gets the lowest free descriptor.  What the handshake could not write
\* yet stays in the buffer.
Open(c, fd, blocked) ==
    /\ state[c] = "new"
    /\ fd \notin Range(socket)
    /\ \A lower \in Fds \ Range(socket) : fd <= lower
    /\ state' = [state EXCEPT ![c] = "open"]
    /\ socket' = [socket EXCEPT ![c] = fd]
    /\ unsent' = IF blocked THEN unsent \cup {c} ELSE unsent
    /\ full' = IF blocked THEN full \cup {c} ELSE full
    /\ blocked => stalls < MaxStalls
    /\ stalls' = stalls + (IF blocked THEN 1 ELSE 0)
    /\ Monitor(c, fd, IF blocked THEN Flags ELSE {"readable"})
    /\ UNCHANGED <<isRunning, loopVars, arrived, broken, crashed>>

\* Something is published, acked or declared, and the socket does not take all of it.
Send(c) ==
    /\ IsOpen(c)
    /\ c \notin broken
    /\ c \notin unsent
    /\ unsent' = unsent \cup {c}
    /\ full' = full \cup {c}
    /\ stalls < MaxStalls
    /\ stalls' = stalls + 1
    /\ Monitor(c, socket[c], Flags)
    /\ UNCHANGED <<isRunning, loopVars, state, socket, arrived, broken, crashed>>

\* Handler::stop: m_connection.reset(), on the thread that stops the program
Destroy(c) ==
    /\ state[c] \in {"open", "closed"}
    /\ CloseSocket(c, "destroyed")
    /\ IF IsOpen(c) THEN Monitor(c, socket[c], {}) ELSE NoMonitor
    /\ UNCHANGED <<isRunning, loopVars, crashed>>

-----------------------------------------------------------------------------
(* The sockets                                                             *)

Kernel(c) ==
    /\ IsOpen(c)
    /\ c \notin broken
    /\ \/ arrived' = arrived \cup {c} /\ UNCHANGED <<full, stalls, broken>>
       \/ /\ broken' = broken \cup {c}
          /\ arrived' = arrived \ {c}
          /\ full' = full \ {c}
          /\ UNCHANGED stalls
    /\ UNCHANGED <<isRunning, loopVars, queue, libraryVars, monitored, crashed>>

\* The peer reads what is in the socket.
PeerReads(c) ==
    /\ c \in full
    /\ full' = full \ {c}
    /\ UNCHANGED <<isRunning, loopVars, queue, libraryVars, arrived, stalls, broken, monitored, crashed>>

-----------------------------------------------------------------------------

LoopThread ==
    \/ Top
    \/ ProcessConnectionItem
    \/ Drained
    \/ Poll
    \/ PollWithoutResult
    \/ Handle
    \/ RoundOver

Next ==
    /\ ~crashed
    /\ \/ LoopThread
       \/ Stop
       \/ \E c \in Connections :
             \/ \E fd \in Fds, blocked \in BOOLEAN : Open(c, fd, blocked)
             \/ Send(c)
             \/ Destroy(c)
             \/ Kernel(c)
             \/ PeerReads(c)

Spec == Init /\ [][Next]_vars

\* The loop thread runs, poll is not interrupted for ever while something is ready,
\* and a peer that is there reads.
FairSpec ==
    /\ Spec
    /\ WF_vars(~crashed /\ LoopThread)
    /\ SF_vars(~crashed /\ Poll)
    /\ \A c \in Connections : WF_vars(~crashed /\ PeerReads(c))

-----------------------------------------------------------------------------
(* Properties                                                              *)

\* m_connectionItems and m_pollFds are used with one index: whatever is added and
\* removed, a position has the same descriptor in both, and no descriptor has two.
Aligned ==
    /\ Len(items) = Len(pollFds)
    /\ \A p \in DOMAIN pollFds : items[p].fd = pollFds[p].fd
    /\ \A p, q \in DOMAIN pollFds : p # q => pollFds[p].fd # pollFds[q].fd

Polled ==
    {[connection |-> items[p].connection, fd |-> pollFds[p].fd, flags |-> pollFds[p].events] :
        p \in DOMAIN pollFds}

\* Whether a call behind position k is about the descriptor
IsOverridden(calls, fd, k) == \E l \in k + 1..Len(calls) : calls[l].fd = fd

\* What is going to be polled once the calls are applied: for each descriptor the last
\* call counts, and without one what is polled.
Outstanding(calls, polled) ==
    {calls[k] : k \in {l \in 1..Len(calls) : calls[l].flags # {} /\ ~IsOverridden(calls, calls[l].fd, l)}}
    \cup {m \in polled : ~IsOverridden(calls, m.fd, 0)}

\* Once the waiting calls of monitor are applied, the loop polls what the library
\* asked for last, for the connection that asked, also when a descriptor was closed
\* and given to another connection in between.
MonitoringIsExact == Outstanding(queue, Polled) = monitored

\* What is still polled for a destroyed connection is on its way out: after the
\* queue is drained once more the loop never uses that connection.
DestroyedAreLeaving ==
    \A p \in DOMAIN items :
        state[items[p].connection] = "destroyed" =>
            \E call \in Range(queue) : call.fd = items[p].fd /\ call.flags = {}

\* What arrives is read, however busy the other connections are.
ArrivedIsRead ==
    \A c \in Connections :
        c \in arrived ~> c \notin arrived \/ ~isRunning \/ crashed

\* A call of monitor is applied although no descriptor that is polled ever gets ready.
CallsAreApplied == queue # <<>> ~> queue = <<>> \/ ~isRunning \/ crashed

\* EventLoop::stop can join the thread.
EventLoopEnds == ~isRunning ~> pc = "stopped" \/ crashed

\* "event loop for sending/receiving events for AMQP-CPP library": what a full socket
\* did not take is sent once its peer reads.
UnsentIsSent ==
    \A c \in Connections :
        c \in unsent ~> c \notin unsent \/ ~isRunning \/ crashed

=============================================================================
