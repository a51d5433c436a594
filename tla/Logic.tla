------------------------------- MODULE Logic -------------------------------
(***************************************************************************)
(* app::Logic: the queue of deliveries, the processor threads that empty   *)
(* it, the leaderboard loop thread and the lifecycle that starts and joins *)
(* them.                                                                   *)
(*                                                                         *)
(* The RabbitMQ event loop pushes every delivery (processMessage); the     *)
(* processors pop, parse and settle it (ack or reject) on the delivery's   *)
(* channel.  Deliveries of one consumer carry consecutive delivery tags,   *)
(* so the n-th item pushed is the one with tag n, and the std::deque       *)
(* behind m_processingQueue is two counters: `pushed' (its end) and        *)
(* `popped' (its start).  The deque compares the two for equality in       *)
(* empty(): a pop() on the empty queue leaves popped = pushed + 1, which   *)
(* is not empty.                                                           *)
(***************************************************************************)
EXTENDS Integers, FiniteSets

CONSTANTS
    Processors,  \* the threads of m_processingThreads, m_processorsCount of them
    MaxTag,      \* bound: the deliveries of one run have the tags 1..MaxTag
    NoThread     \* the owner of a mutex nobody holds

\* Logic::configure refuses a processors-count below 1.
ASSUME ProcessorsAssumption ==
    /\ IsFiniteSet(Processors)
    /\ Processors # {}
    /\ NoThread \notin Processors

ASSUME MaxTagAssumption == MaxTag \in Nat

VARIABLES
    state,        \* m_state
    running,      \* m_isProcessingThreadsRunning
    guard,        \* the owner of m_processingQueueGuard
    pushed,       \* how many items were pushed to m_processingQueue
    popped,       \* how many times m_processingQueue.pop() was called
    pc,           \* where each processor thread is
    item,         \* the tag of the item a processor took, 0 for none
    outcome,      \* tag -> what parseMessage returned for it
    settled,      \* tag -> the frame the broker received for it
    loopRunning,  \* m_loopIsRunning
    loopPc,       \* where the leaderboard loop thread is
    stopPc,       \* where the thread that called Logic::stop is
    crashed       \* undefined behaviour brought the process down

queueVars == <<guard, pushed, popped>>
procVars  == <<pc, item>>
ackVars   == <<outcome, settled>>
loopVars  == <<loopRunning, loopPc>>
vars == <<state, running, queueVars, procVars, ackVars, loopVars, stopPc, crashed>>

-----------------------------------------------------------------------------

Tags == 1..MaxTag
NoItem == 0

States == {"CREATED", "INITIALIZED", "CONFIGURED", "STARTED", "STOPPED", "DEINITIALIZED"}
Results == {"SUCCESS", "FAILED"}
ProcessorPcs == {"unborn", "check", "acquire", "test", "enterWait", "waiting", "woken",
                 "take", "garbage", "parse", "settle", "done"}
\* The points of processingThreadFunc at which a processor owns the mutex.
LockedPcs == {"test", "enterWait", "take"}
LoopPcs == {"unborn", "check", "work", "sleep", "done"}
StopPcs == {"idle", "notify", "joinProcessors", "joinLoop", "returned"}

\* Among others: a processor has no item that was not pushed.
TypeOK ==
    /\ state \in States
    /\ running \in BOOLEAN
    /\ guard \in Processors \cup {NoThread}
    /\ pushed \in 0..MaxTag
    /\ popped \in Nat
    /\ pc \in [Processors -> ProcessorPcs]
    /\ item \in [Processors -> 0..pushed]
    /\ outcome \in [Tags -> Results \cup {"none"}]
    /\ settled \in [Tags -> {"unsettled", "acked", "rejected"}]
    /\ loopRunning \in BOOLEAN
    /\ loopPc \in LoopPcs
    /\ stopPc \in StopPcs
    /\ crashed \in BOOLEAN

Init ==
    /\ state = "CREATED"
    /\ running = FALSE
    /\ guard = NoThread
    /\ pushed = 0
    /\ popped = 0
    /\ pc = [p \in Processors |-> "unborn"]
    /\ item = [p \in Processors |-> NoItem]
    /\ outcome = [t \in Tags |-> "none"]
    /\ settled = [t \in Tags |-> "unsettled"]
    /\ loopRunning = FALSE
    /\ loopPc = "unborn"
    /\ stopPc = "idle"
    /\ crashed = FALSE

-----------------------------------------------------------------------------
(* Lifecycle: initialize, configure, start and deinitialize.               *)

Initialize ==
    /\ state = "CREATED"
    /\ state' = "INITIALIZED"
    /\ UNCHANGED <<running, queueVars, procVars, ackVars, loopVars, stopPc, crashed>>

Configure ==
    /\ state = "INITIALIZED"
    /\ state' = "CONFIGURED"
    /\ UNCHANGED <<running, queueVars, procVars, ackVars, loopVars, stopPc, crashed>>

\* The threads exist from here on; the storage's own start is part of the call.
Start ==
    /\ state = "CONFIGURED"
    /\ state' = "STARTED"
    /\ running' = TRUE
    /\ loopRunning' = TRUE
    /\ loopPc' = "check"
    /\ pc' = [p \in Processors |-> "check"]
    /\ UNCHANGED <<queueVars, item, ackVars, stopPc, crashed>>

Deinitialize ==
    /\ state = "STOPPED"
    /\ state' = "DEINITIALIZED"
    /\ UNCHANGED <<running, queueVars, procVars, ackVars, loopVars, stopPc, crashed>>

-----------------------------------------------------------------------------
(* The event loop thread: Consumer::onMessageCallback -> processMessage.   *)

\* Faulty variant of Notified: the notification is forgotten.
NobodyNotified == pc

\* notify_all
Notified == [p \in Processors |-> IF pc[p] = "waiting" THEN "woken" ELSE pc[p]]

\* Lock, push, notify_all and unlock.  Application::doStart starts the consumer
\* after the logic and doStop stops it after the logic: deliveries go on during
\* and after Logic::stop.
ProcessMessage ==
    /\ state \in {"STARTED", "STOPPED"}
    /\ pushed < MaxTag
    /\ guard = NoThread
    /\ pushed' = pushed + 1
    /\ pc' = Notified
    /\ UNCHANGED <<state, running, guard, popped, item, ackVars, loopVars, stopPc, crashed>>

-----------------------------------------------------------------------------
(* A processor thread: processingThreadFunc.                               *)

Goto(p, l) == pc' = [pc EXCEPT ![p] = l]

QueueIsEmpty == popped = pushed

\* Faulty variant of ResumeAt: `if' instead of `while' around the wait.
ResumeWithoutTest(p) == IF pc[p] = "woken" THEN "take" ELSE "test"

\* The loop around the wait tests its condition again after every wakeup.
ResumeAt(p) == "test"

\* Faulty variant of Front: front() after pop().
FrontAfterPop == popped + 2

\* m_processingQueue.front(): the first item that was not popped
Front == popped + 1

\* Faulty variant of Pop: the item stays at the front of the queue.
FrontOnly == popped' = popped

\* m_processingQueue.pop()
Pop == popped' = popped + 1

\* Faulty variant of Frame: `continue' without a reject.
FrameOnSuccessOnly(res) == IF res = "SUCCESS" THEN "acked" ELSE "unsettled"

\* channel->ack on SUCCESS, channel->reject (without requeue) otherwise
Frame(res) == IF res = "SUCCESS" THEN "acked" ELSE "rejected"

\* while (m_isProcessingThreadsRunning)
CheckRunning(p) ==
    /\ pc[p] = "check"
    /\ Goto(p, IF running THEN "acquire" ELSE "done")
    /\ UNCHANGED <<state, running, queueVars, item, ackVars, loopVars, stopPc, crashed>>

\* unique_lock's constructor, and the end of condition_variable::wait
Acquire(p) ==
    /\ pc[p] \in {"acquire", "woken"}
    /\ guard = NoThread
    /\ guard' = p
    /\ Goto(p, ResumeAt(p))
    /\ UNCHANGED <<state, running, pushed, popped, item, ackVars, loopVars, stopPc, crashed>>

\* while (m_isProcessingThreadsRunning && m_processingQueue.empty())
TestQueue(p) ==
    /\ pc[p] = "test"
    /\ Goto(p, IF running /\ QueueIsEmpty THEN "enterWait" ELSE "take")
    /\ UNCHANGED <<state, running, queueVars, item, ackVars, loopVars, stopPc, crashed>>

\* m_processingQueueCv.wait(l) gives the mutex up and blocks, in one step
Wait(p) ==
    /\ pc[p] = "enterWait"
    /\ guard' = NoThread
    /\ Goto(p, "waiting")
    /\ UNCHANGED <<state, running, pushed, popped, item, ackVars, loopVars, stopPc, crashed>>

\* A condition variable may return without a notification.
SpuriousWakeup(p) ==
    /\ pc[p] = "waiting"
    /\ Goto(p, "woken")
    /\ UNCHANGED <<state, running, queueVars, item, ackVars, loopVars, stopPc, crashed>>

\* front(), pop() and unlock().  The loop above also ends when the threads are
\* told to stop: the queue may then be empty and front() and pop() undefined.
TakeItem(p) ==
    /\ pc[p] = "take"
    /\ Pop
    /\ guard' = NoThread
    /\ IF popped < pushed
         THEN /\ item' = [item EXCEPT ![p] = Front]
              /\ Goto(p, "parse")
         ELSE /\ item' = item
              /\ Goto(p, "garbage")
    /\ UNCHANGED <<state, running, pushed, ackVars, loopVars, stopPc, crashed>>

\* What front() found on the empty queue was zeroed or moved-from memory: the
\* item has no channel and the thread goes on ("continue") ...
GarbageWithoutChannel(p) ==
    /\ pc[p] = "garbage"
    /\ Goto(p, "check")
    /\ UNCHANGED <<state, running, queueVars, item, ackVars, loopVars, stopPc, crashed>>

\* ... or bytes of something else: moving and destroying it ends the process.
GarbageCrash(p) ==
    /\ pc[p] = "garbage"
    /\ crashed' = TRUE
    /\ UNCHANGED <<state, running, queueVars, procVars, ackVars, loopVars, stopPc>>

\* m_parser.parseMessage(item): the effect of the message, and its result
ParseMessage(p, res) ==
    /\ pc[p] = "parse"
    /\ outcome' = [outcome EXCEPT ![item[p]] = res]
    /\ Goto(p, "settle")
    /\ UNCHANGED <<state, running, queueVars, item, settled, loopVars, stopPc, crashed>>

Settle(p) ==
    /\ pc[p] = "settle"
    /\ settled' = [settled EXCEPT ![item[p]] = Frame(outcome[item[p]])]
    /\ item' = [item EXCEPT ![p] = NoItem]
    /\ Goto(p, "check")
    /\ UNCHANGED <<state, running, queueVars, outcome, loopVars, stopPc, crashed>>

Processor(p) ==
    \/ CheckRunning(p)
    \/ Acquire(p)
    \/ TestQueue(p)
    \/ Wait(p)
    \/ TakeItem(p)
    \/ GarbageWithoutChannel(p)
    \/ GarbageCrash(p)
    \/ \E res \in Results : ParseMessage(p, res)
    \/ Settle(p)

-----------------------------------------------------------------------------
(* The leaderboard loop thread (Logic::loop): loopFunc, then sleeps of at  *)
(* most 60 seconds until the interval is over or the loop is told to stop. *)
(* A sleep that is followed by another one is a stuttering step.           *)

LoopGoto(l) ==
    /\ loopPc' = l
    /\ UNCHANGED <<state, running, queueVars, procVars, ackVars, loopRunning, stopPc, crashed>>

LoopCheck == loopPc = "check" /\ LoopGoto(IF loopRunning THEN "work" ELSE "done")
LoopFunc  == loopPc = "work" /\ LoopGoto("sleep")
LoopSleep == loopPc = "sleep" /\ LoopGoto("check")

Loop == LoopCheck \/ LoopFunc \/ LoopSleep

-----------------------------------------------------------------------------
(* Logic::stop, called by Application::doStop or by the destructor.        *)

\* m_isProcessingThreadsRunning = false, without the queue's mutex
StopBegin ==
    /\ state = "STARTED"
    /\ stopPc = "idle"
    /\ running' = FALSE
    /\ stopPc' = "notify"
    /\ UNCHANGED <<state, queueVars, procVars, ackVars, loopVars, crashed>>

\* m_processingQueueCv.notify_all(), without the queue's mutex
StopNotify ==
    /\ stopPc = "notify"
    /\ pc' = Notified
    /\ stopPc' = "joinProcessors"
    /\ UNCHANGED <<state, running, queueVars, item, ackVars, loopVars, crashed>>

\* Faulty variant of Joined: the threads are detached.
NotJoined == TRUE

Joined == \A p \in Processors : pc[p] = "done"

\* join() of every processor, then m_loopIsRunning = false
StopJoinProcessors ==
    /\ stopPc = "joinProcessors"
    /\ Joined
    /\ loopRunning' = FALSE
    /\ stopPc' = "joinLoop"
    /\ UNCHANGED <<state, running, queueVars, procVars, ackVars, loopPc, crashed>>

StopJoinLoop ==
    /\ stopPc = "joinLoop"
    /\ loopPc = "done"
    /\ state' = "STOPPED"
    /\ stopPc' = "returned"
    /\ UNCHANGED <<running, queueVars, procVars, ackVars, loopVars, crashed>>

StopSteps == StopNotify \/ StopJoinProcessors \/ StopJoinLoop

-----------------------------------------------------------------------------

Environment ==
    \/ Initialize
    \/ Configure
    \/ Start
    \/ Deinitialize
    \/ ProcessMessage
    \/ StopBegin
    \/ \E p \in Processors : SpuriousWakeup(p)

Next ==
    /\ ~crashed
    /\ \/ Environment
       \/ \E p \in Processors : Processor(p)
       \/ Loop
       \/ StopSteps

Spec == Init /\ [][Next]_vars

\* The operating system runs every thread that can run.  Nobody is obliged to
\* publish a message, to stop the service or to wake a waiting thread up.
Fairness ==
    /\ \A p \in Processors : WF_vars(~crashed /\ Processor(p))
    /\ WF_vars(~crashed /\ Loop)
    /\ WF_vars(~crashed /\ StopSteps)

FairSpec == Spec /\ Fairness

-----------------------------------------------------------------------------
(* Properties                                                              *)

Queued(t) == popped < t /\ t <= pushed
Holders(t) == {p \in Processors : item[p] = t}
IsSettled(t) == settled[t] # "unsettled"

\* While the processors run, every delivery processMessage accepted is in
\* exactly one place: still in the queue, in the hands of exactly one processor
\* thread, or settled with the broker.  (processingThreadFunc: no message is
\* dropped and no two threads get the same item out of m_processingQueue.)
NoDeliveryLost ==
    running => \A t \in 1..pushed :
        \/ Queued(t) /\ Holders(t) = {} /\ ~IsSettled(t)
        \/ ~Queued(t) /\ (\E p \in Processors : Holders(t) = {p}) /\ ~IsSettled(t)
        \/ ~Queued(t) /\ Holders(t) = {} /\ IsSettled(t)

\* While the processors run, no thread pops more than was pushed, whatever wakes
\* it up: a thread that is about to call front() and pop() finds an item.
PopsAreBacked ==
    running => /\ popped <= pushed
               /\ \A p \in Processors : /\ pc[p] # "garbage"
                                         /\ pc[p] = "take" => popped < pushed

\* A message has its effect once and is settled once: parseMessage does not run
\* a second time on a tag, and no second ack or reject is sent for it (a channel
\* error in AMQP).
EffectOnceAndFinal ==
    [][\A t \in Tags : /\ outcome[t] # "none" => UNCHANGED outcome[t]
                       /\ IsSettled(t) => UNCHANGED settled[t]]_vars

\* When Logic::stop has returned, no thread works on an item any more, and the
\* deliveries the broker will hand out again (the unsettled ones) are the ones
\* that had no effect: stopping loses no message and applies none twice.
StopLeavesNothingHalfDone ==
    stopPc = "returned" =>
        /\ \A p \in Processors : pc[p] = "done" /\ item[p] = NoItem
        /\ \A t \in Tags : IsSettled(t) <=> outcome[t] # "none"

\* A delivery is settled eventually, unless the logic is told to stop first: no
\* notification of m_processingQueueCv is lost between a processor's test of the
\* queue and its wait, because processMessage notifies under the mutex.
EveryDeliverySettled ==
    \A t \in Tags : t <= pushed /\ running ~> IsSettled(t) \/ ~running

\* Logic::stop returns, as the test of a start followed by a stop expects.
StopReturns == stopPc = "notify" ~> stopPc = "returned" \/ crashed

=============================================================================
