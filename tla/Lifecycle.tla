----------------------------- MODULE Lifecycle -----------------------------
(***************************************************************************)
(* The life of both programs, leaderboard_app and traffic_generator:       *)
(* main() takes the parts of the application through initialize, configure *)
(* and start, the handler of SIGINT stops and deinitializes them, and      *)
(* leaving main() or exit() destroys the static Application.               *)
(*                                                                         *)
(* A thread is represented by the calls it still has to make (todo).  The  *)
(* threads that the parts start (the event loop, Logic's processors and    *)
(* Logic's loop) run elsewhere: here they have calls to make only when a   *)
(* signal interrupts them.  The calls to the broker are synchronous and    *)
(* succeed or fail (Publisher has their callbacks).                        *)
(***************************************************************************)
EXTENDS Integers, Sequences, SequencesExt

CONSTANT
    MaxSignals  \* bound: how often SIGINT is sent

ASSUME MaxSignalsAssumption == MaxSignals \in Nat

VARIABLES
    program,     \* which of the two programs runs
    state,       \* m_state of every part
    todo,        \* the calls each thread still has to make
    threads,     \* the running threads of the parts
    told,        \* the threads that were told to end
    joiner,      \* who joins or joined a thread
    asleep,      \* a processor missed the notification of Logic::stop
    channels,    \* the handlers that have a connection and a channel
    callback,    \* Consumer: m_messageProcessingCallback is set
    consuming,   \* the broker delivers messages to the consumer
    registered,  \* Logic: m_publisher is set
    failed,      \* a step of main failed
    signals,     \* how often SIGINT was sent
    installed,   \* the handler of SIGINT is installed
    code,        \* the exit code: what main returns or gives to exit()
    strayed,     \* a message was given to a Logic that is destroyed
    ended        \* how the process ended, "no" before

partVars == <<state, callback, consuming, registered, channels>>
threadVars == <<threads, told, joiner, asleep>>
processVars == <<failed, signals, installed, code, ended>>
vars == <<program, partVars, todo, threadVars, processVars, strayed>>

Programs == {"leaderboard_app", "traffic_generator"}
Parts == {"logger", "application", "consumer", "publisher", "logic", "storage"}
Threads == {"eventLoop", "processors", "loop"}

States == {"CREATED", "INITIALIZED", "CONFIGURED", "STARTED", "STOPPED", "DEINITIALIZED"}

IsApplication == program = "leaderboard_app"

\* A call: a part and what is asked of it
Call(part, op) == <<part, op>>

-----------------------------------------------------------------------------
(* What main, the signal handler and the destructors call                  *)

ApplicationInitialize ==
    <<Call("consumer", "initialize"), Call("publisher", "initialize"),
      Call("logic", "initialize"), Call("application", "initialize")>>

ApplicationConfigure ==
    <<Call("consumer", "registerCallback"), Call("consumer", "configure"),
      Call("publisher", "configure"), Call("storage", "configure"),
      Call("logic", "configure"), Call("application", "configure")>>

PrepareExchangeQueue ==
    <<Call("consumer", "declareExchange"), Call("consumer", "declareQueue"),
      Call("consumer", "bindQueue")>>

ApplicationStart ==
    <<Call("eventLoop", "start"), Call("storage", "start"), Call("logic", "start"),
      Call("consumer", "start")>> \o
    PrepareExchangeQueue \o
    <<Call("consumer", "consume"), Call("publisher", "start"),
      Call("publisher", "declareExchange"), Call("logic", "registerPublisher"),
      Call("application", "start")>>

GeneratorInitialize == <<Call("publisher", "initialize"), Call("application", "initialize")>>

GeneratorConfigure == <<Call("publisher", "configure"), Call("application", "configure")>>

GeneratorStart ==
    <<Call("eventLoop", "start"), Call("publisher", "start"),
      Call("publisher", "declareExchange"), Call("application", "start")>>

StartLogger == <<Call("logger", "configure"), Call("logger", "start")>>

ApplicationMain ==
    StartLogger \o ApplicationInitialize \o ApplicationConfigure \o ApplicationStart \o
    <<Call("main", "signal")>>

GeneratorMain ==
    StartLogger \o GeneratorInitialize \o GeneratorConfigure \o GeneratorStart \o
    <<Call("main", "writeData"), Call("main", "signal")>>

Main == IF IsApplication THEN ApplicationMain ELSE GeneratorMain

LogicStop ==
    <<Call("logic", "stop"), Call("processors", "join"), Call("loop", "join"),
      Call("logic", "stopped")>>

\* Faulty variant of ApplicationStop: the channels are closed before Logic's threads
\* are joined.
StopHandlersFirst ==
    <<Call("publisher", "stop"), Call("consumer", "stop")>> \o LogicStop

ApplicationStop ==
    LogicStop \o <<Call("publisher", "stop"), Call("consumer", "stop")>>

GeneratorStop == <<Call("publisher", "stop")>>

StopLoop == <<Call("eventLoop", "stop"), Call("eventLoop", "join")>>

\* Faulty variant of BaseStop: the event loop is left to its destructor.
EventLoopRunsOn ==
    <<Call("application", "stop")>> \o (IF IsApplication THEN ApplicationStop ELSE GeneratorStop) \o
    <<Call("application", "stopped")>>

\* ApplicationBase::stop
BaseStop ==
    <<Call("application", "stop")>> \o (IF IsApplication THEN ApplicationStop ELSE GeneratorStop) \o
    StopLoop \o <<Call("application", "stopped")>>

ApplicationDeinitialize == <<Call("publisher", "deinitialize"), Call("consumer", "deinitialize")>>

GeneratorDeinitialize == <<Call("publisher", "deinitialize")>>

\* ApplicationBase::deinitialize
BaseDeinitialize ==
    (IF IsApplication THEN ApplicationDeinitialize ELSE GeneratorDeinitialize) \o
    <<Call("application", "deinitialize")>>

\* Faulty variant of SignalHandler: the logger is stopped before those that write to it.
LoggerStopsFirst ==
    <<Call("logger", "stop")>> \o BaseStop \o BaseDeinitialize \o <<Call("main", "exit")>>

SignalHandler ==
    BaseStop \o BaseDeinitialize \o <<Call("logger", "stop"), Call("main", "exit")>>

\* ~Application or ~Generator: the members in reverse order, then the base class
Destruction ==
    (IF IsApplication
       THEN LogicStop \o <<Call("logic", "destroy"), Call("publisher", "destroy"),
                           Call("consumer", "destroy")>>
       ELSE <<Call("publisher", "destroy")>>) \o <<Call("eventLoop", "destroy")>>

TypeOK ==
    /\ program \in Programs
    /\ state \in [Parts -> States]
    /\ \A t \in Threads \cup {"main"} : IsSuffix(todo[t], Main)
                                        \/ IsSuffix(todo[t], SignalHandler)
                                        \/ IsSuffix(todo[t], Destruction)
    /\ told \subseteq Threads
    /\ threads \subseteq Threads
    /\ joiner \in [Threads -> Threads \cup {"main", "nobody"}]
    /\ channels \subseteq {"consumer", "publisher"}
    /\ {asleep, callback, consuming, registered, failed, installed, strayed} \subseteq BOOLEAN
    /\ signals \in 0..MaxSignals
    /\ code \in {0, 2, 3}
    /\ ended \in {"no", "exited", "killed", "aborted"}

Init ==
    /\ program \in Programs
    /\ state = [p \in Parts |-> "CREATED"]
    /\ todo = [t \in Threads \cup {"main"} |-> IF t = "main" THEN Main ELSE <<>>]
    /\ threads = {}
    /\ told = {}
    /\ joiner = [t \in Threads |-> "nobody"]
    /\ asleep = FALSE
    /\ channels = {}
    /\ callback = FALSE
    /\ consuming = FALSE
    /\ registered = FALSE
    /\ failed = FALSE
    /\ signals = 0
    /\ installed = FALSE
    /\ code = 0
    /\ strayed = FALSE
    /\ ended = "no"

-----------------------------------------------------------------------------
(* The steps of a thread                                                   *)

Calling(t, op) == Head(todo[t])[2] = op

Part(t) == Head(todo[t])[1]

Go(t, rest) == todo' = [todo EXCEPT ![t] = rest]

Done(t) == Go(t, Tail(todo[t]))

SetState(part, s) == state' = [state EXCEPT ![part] = s]

\* The call changes the state of its part and nothing else.
Reach(t, from, to) ==
    /\ state[Part(t)] = from
    /\ SetState(Part(t), to)
    /\ Done(t)
    /\ UNCHANGED <<callback, consuming, registered, channels, threadVars>>

\* ApplicationBase::initialize, configure and start, once the parts have done theirs
Advance(t) ==
    /\ Part(t) = "application"
    /\ \/ Calling(t, "initialize") /\ Reach(t, "CREATED", "INITIALIZED")
       \/ Calling(t, "configure") /\ Reach(t, "INITIALIZED", "CONFIGURED")
       \/ Calling(t, "start") /\ Reach(t, "CONFIGURED", "STARTED")

\* The logger and the storages have no initialize.
ConfigureLogger(t) ==
    /\ Part(t) = "logger"
    /\ Calling(t, "configure")
    /\ Reach(t, "CREATED", "CONFIGURED")

OpenLog(t) ==
    /\ Part(t) = "logger"
    /\ Calling(t, "start")
    /\ Reach(t, "CONFIGURED", "STARTED")

ConfigureStorage(t) ==
    /\ Part(t) = "storage"
    /\ Calling(t, "configure")
    /\ Reach(t, "CREATED", "CONFIGURED")

\* It is never stopped.
StartStorage(t) ==
    /\ Part(t) = "storage"
    /\ Calling(t, "start")
    /\ Reach(t, "CONFIGURED", "STARTED")

Initialize(t) ==
    /\ Part(t) \in {"consumer", "publisher", "logic"}
    /\ Calling(t, "initialize")
    /\ Reach(t, "CREATED", "INITIALIZED")

Configure(t) ==
    /\ Part(t) \in {"consumer", "publisher", "logic"}
    /\ Calling(t, "configure")
    /\ Reach(t, "INITIALIZED", "CONFIGURED")

RegisterCallback(t) ==
    /\ Calling(t, "registerCallback")
    /\ callback' = TRUE
    /\ Done(t)
    /\ UNCHANGED <<state, consuming, registered, channels, threadVars>>

\* Handler::start makes a connection and a channel.
OpenedBy(part) == {part} \cap {"consumer", "publisher"}

StartEventLoop(t) ==
    /\ Part(t) = "eventLoop"
    /\ Calling(t, "start")
    /\ threads' = threads \cup {"eventLoop"}
    /\ Done(t)
    /\ UNCHANGED <<partVars, told, joiner, asleep>>

StartLogic(t) ==
    /\ Part(t) = "logic"
    /\ Calling(t, "start")
    /\ state["logic"] = "CONFIGURED"
    /\ SetState("logic", "STARTED")
    /\ threads' = threads \cup {"processors", "loop"}
    /\ Done(t)
    /\ UNCHANGED <<callback, consuming, registered, channels, told, joiner, asleep>>

StartHandler(t) ==
    /\ Part(t) \in {"consumer", "publisher"}
    /\ Calling(t, "start")
    /\ state[Part(t)] = "CONFIGURED"
    /\ SetState(Part(t), "STARTED")
    /\ channels' = channels \cup OpenedBy(Part(t))
    /\ Done(t)
    /\ UNCHANGED <<callback, consuming, registered, threadVars>>

Declares(t) == \E op \in {"declareExchange", "declareQueue", "bindQueue"} : Calling(t, op)

\* declareExchangeSync, declareQueueSync and bindQueueSync
Declare(t) ==
    /\ Declares(t)
    /\ Done(t)
    /\ UNCHANGED <<partVars, threadVars>>

Consume(t) ==
    /\ Calling(t, "consume")
    /\ consuming' = TRUE
    /\ Done(t)
    /\ UNCHANGED <<state, callback, registered, channels, threadVars>>

RegisterPublisher(t) ==
    /\ Calling(t, "registerPublisher")
    /\ registered' = TRUE
    /\ Done(t)
    /\ UNCHANGED <<state, callback, consuming, channels, threadVars>>

Configures(t) == Calling(t, "configure") \/ Calling(t, "start")

\* The log's level, type or file is wrong.
LogWriterFails(t) == Configures(t) /\ Part(t) = "logger"

\* The address or another setting is wrong, Logic's own ones included, which come before
\* the storage; the channel or the storage does not start.
PartFails(t) == Configures(t) /\ Part(t) \in {"consumer", "publisher", "storage"}

\* The broker answers with an error or not within five seconds.
BrokerFails(t) == Declares(t) \/ Calling(t, "consume")

\* The calls with a result that main gives up on
Fails(t) == LogWriterFails(t) \/ PartFails(t) \/ BrokerFails(t)

\* Faulty variant of Fail: the result is logged and the start goes on.
FailAndGoOn(t) ==
    /\ Fails(t)
    /\ failed' = TRUE
    /\ code' = 3
    /\ Done(t)
    /\ UNCHANGED <<partVars, threadVars, signals, installed, ended>>

\* A call returns an error, and main returns.  A channel that does not get ready stays;
\* the broker may have done what it did not confirm in time.
Fail(t) ==
    /\ Fails(t)
    /\ failed' = TRUE
    /\ code' = IF Head(todo[t]) = Call("logger", "configure") THEN 2 ELSE 3
    /\ Go(t, Destruction)
    /\ channels' = IF Calling(t, "start") THEN channels \cup OpenedBy(Part(t)) ELSE channels
    /\ consuming' \in {consuming, consuming \/ Calling(t, "consume")}
    /\ UNCHANGED <<state, callback, registered, threadVars, signals, installed, ended>>

\* ApplicationBase::stop and Logic::stop do nothing in another state than STARTED.
StopApplication(t) ==
    /\ Part(t) = "application"
    /\ Calling(t, "stop")
    /\ IF state["application"] = "STARTED"
         THEN Done(t)
         ELSE Go(t, SubSeq(todo[t], Len(BaseStop) + 1, Len(todo[t])))
    /\ UNCHANGED <<partVars, threadVars>>

\* The processors are told to end, and notified: one of them may miss it.
StopLogic(t) ==
    /\ Part(t) = "logic"
    /\ Calling(t, "stop")
    /\ \/ /\ state["logic"] = "STARTED"
          /\ told' = told \cup {"processors"}
          /\ asleep' \in BOOLEAN
          /\ Done(t)
       \/ /\ state["logic"] # "STARTED"
          /\ Go(t, SubSeq(todo[t], Len(LogicStop) + 1, Len(todo[t])))
          /\ UNCHANGED <<told, asleep>>
    /\ UNCHANGED <<partVars, threads, joiner>>

\* EventLoop::stop: m_isRunning = false
StopEventLoop(t) ==
    /\ Calling(t, "stop")
    /\ Part(t) = "eventLoop"
    /\ told' = told \cup {"eventLoop"}
    /\ Done(t)
    /\ UNCHANGED <<partVars, threads, joiner, asleep>>

\* Handler::stop: the channel is closed, the broker takes back what is not settled
StopHandler(t) ==
    /\ Calling(t, "stop")
    /\ Part(t) \in {"consumer", "publisher"}
    /\ IF state[Part(t)] = "STARTED"
         THEN /\ SetState(Part(t), "STOPPED")
              /\ channels' = channels \ {Part(t)}
              /\ consuming' = (consuming /\ Part(t) # "consumer")
         ELSE UNCHANGED <<state, channels, consuming>>
    /\ Done(t)
    /\ UNCHANGED <<callback, registered, threadVars>>

Stopped(t) ==
    /\ Calling(t, "stopped")
    /\ SetState(Part(t), "STOPPED")
    /\ Done(t)
    /\ UNCHANGED <<callback, consuming, registered, channels, threadVars>>

\* Faulty variant of ToldToEnd: m_loopIsRunning is cleared after the join.
ToldTooLate(thread) == {}

\* m_loopIsRunning is cleared just before the loop is joined.
ToldToEnd(thread) == {thread} \cap {"loop"}

\* std::thread::join
Join(t) ==
    /\ Calling(t, "join")
    /\ LET thread == Part(t)
       IN  /\ thread # t
           /\ \/ /\ joiner[thread] = "nobody"
                 /\ joiner' = [joiner EXCEPT ![thread] = t]
                 /\ told' = told \cup ToldToEnd(thread)
                 /\ UNCHANGED todo
              \/ /\ joiner[thread] = t
                 /\ thread \notin threads
                 /\ Done(t)
                 /\ UNCHANGED <<joiner, told>>
    /\ UNCHANGED <<partVars, threads, asleep>>

\* Handler::deinitialize and ApplicationBase::deinitialize; Logic is not deinitialized.
DeinitializePart(t) ==
    /\ Calling(t, "deinitialize")
    /\ IF state[Part(t)] = "STOPPED" THEN SetState(Part(t), "DEINITIALIZED") ELSE UNCHANGED state
    /\ Done(t)
    /\ UNCHANGED <<callback, consuming, registered, channels, threadVars>>

StopLogger(t) ==
    /\ Calling(t, "stop")
    /\ Part(t) = "logger"
    /\ IF state["logger"] = "STARTED" THEN SetState("logger", "STOPPED") ELSE UNCHANGED state
    /\ Done(t)
    /\ UNCHANGED <<callback, consuming, registered, channels, threadVars>>

\* exit(0) runs the destructors
Exit(t) ==
    /\ Calling(t, "exit")
    /\ Go(t, Destruction)
    /\ UNCHANGED <<partVars, threadVars>>

\* ~Logic after its stop(), the handlers and with them their channels
Destroy(t) ==
    /\ Calling(t, "destroy")
    /\ Part(t) # "eventLoop"
    /\ channels' = channels \ {Part(t)}
    /\ consuming' = (consuming /\ Part(t) # "consumer")
    /\ Done(t)
    /\ UNCHANGED <<state, callback, registered, threadVars>>

\* Generator::writeData; it ends, in Publisher's model.
WriteData(t) ==
    /\ Calling(t, "writeData")
    /\ Done(t)
    /\ UNCHANGED <<partVars, threadVars>>

InstallHandler(t) ==
    /\ Calling(t, "signal")
    /\ installed' = TRUE
    /\ Done(t)
    /\ UNCHANGED <<partVars, threadVars, failed, signals, code, ended>>

\* ~EventLoop, the last destructor: a joinable std::thread calls std::terminate.  So
\* does join() on the calling thread, or on one that is joined by somebody else.
End(t) ==
    /\ \/ /\ Calling(t, "destroy")
          /\ Part(t) = "eventLoop"
          /\ ended' = IF "eventLoop" \in threads THEN "aborted" ELSE "exited"
       \/ /\ Calling(t, "join")
          /\ t = Part(t) \/ joiner[Part(t)] \notin {"nobody", t}
          /\ ended' = "aborted"
    /\ UNCHANGED <<partVars, todo, threadVars, failed, signals, installed, code>>

Execute(t) ==
    /\ todo[t] # <<>>
    /\ \/ Fail(t)
       \/ InstallHandler(t)
       \/ End(t)
       \/ /\ UNCHANGED processVars
          /\ \/ Initialize(t)
             \/ Advance(t)
             \/ ConfigureLogger(t)
             \/ OpenLog(t)
             \/ ConfigureStorage(t)
             \/ StartStorage(t)
             \/ RegisterCallback(t)
             \/ Configure(t)
             \/ StartEventLoop(t)
             \/ StartLogic(t)
             \/ StartHandler(t)
             \/ Declare(t)
             \/ Consume(t)
             \/ RegisterPublisher(t)
             \/ StopApplication(t)
             \/ StopLogic(t)
             \/ StopEventLoop(t)
             \/ StopHandler(t)
             \/ Stopped(t)
             \/ Join(t)
             \/ DeinitializePart(t)
             \/ StopLogger(t)
             \/ Exit(t)
             \/ Destroy(t)
             \/ WriteData(t)
    /\ UNCHANGED <<program, strayed>>

-----------------------------------------------------------------------------
(* Signals, deliveries and the end of threads                              *)

\* Faulty variant of Handle: the signal is not blocked while its handler runs.
HandleOnTop(t) == Go(t, SignalHandler \o todo[t])

\* A thread that is not in the handler is interrupted by it.
Handle(t) == todo[t] = <<>> /\ Go(t, SignalHandler)

\* SIGINT goes to the main thread, and to another one while that is in the handler.
Interrupt ==
    /\ signals < MaxSignals
    /\ signals' = signals + 1
    /\ IF ~installed
         THEN ended' = "killed" /\ UNCHANGED todo
         ELSE /\ \/ Handle("main")
                 \/ todo["main"] # <<>> /\ \E t \in threads : Handle(t)
              /\ UNCHANGED ended
    /\ UNCHANGED <<program, partVars, threadVars, failed, installed, code, strayed>>

\* The event loop hands a message to Logic::processMessage, which wakes the processors.
Deliver ==
    /\ consuming
    /\ callback
    /\ "eventLoop" \in threads
    /\ todo["eventLoop"] = <<>>
    /\ IF ~failed \/ Call("logic", "destroy") \in Range(todo["main"])
         THEN asleep' = FALSE /\ UNCHANGED strayed
         ELSE strayed' = TRUE /\ UNCHANGED asleep
    /\ UNCHANGED <<program, partVars, todo, threads, told, joiner, processVars>>

\* A thread that was told to end does so, unless it sleeps or runs the signal handler.
ThreadEnds(thread) ==
    /\ thread \in threads \cap told
    /\ todo[thread] = <<>>
    /\ thread = "processors" => ~asleep
    /\ threads' = threads \ {thread}
    /\ UNCHANGED <<program, partVars, todo, told, joiner, asleep, processVars, strayed>>

Next ==
    /\ ended = "no"
    /\ \/ \E t \in Threads \cup {"main"} : Execute(t)
       \/ Interrupt
       \/ Deliver
       \/ \E thread \in Threads : ThreadEnds(thread)

Spec == Init /\ [][Next]_vars

\* Threads run.  Nobody owes the program a signal or a message.
FairSpec ==
    /\ Spec
    /\ \A t \in Threads \cup {"main"} : WF_vars(ended = "no" /\ Execute(t))
    /\ \A thread \in Threads : WF_vars(ended = "no" /\ ThreadEnds(thread))

-----------------------------------------------------------------------------
(* Properties                                                              *)

InHandler(t) == todo[t] # <<>> /\ installed

\* When start() has returned SUCCESS and nobody stops the program, every part it has
\* is up: what an earlier failure left out is not forgotten by a later success.
StartedMeansStarted ==
    installed /\ signals = 0 =>
        /\ state["application"] = "STARTED"
        /\ state["publisher"] = "STARTED"
        /\ threads = IF IsApplication THEN Threads ELSE {"eventLoop"}
        /\ channels = IF IsApplication THEN {"consumer", "publisher"} ELSE {"publisher"}
        /\ IsApplication => /\ consuming /\ callback /\ registered
                            /\ state["logic"] = "STARTED" /\ state["storage"] = "STARTED"

\* Processors settle messages on the consumer's channel and the loop publishes on the
\* publisher's: neither channel is closed or destroyed before those threads have ended.
ChannelsOutliveTheirUsers ==
    /\ "processors" \in threads /\ consuming => "consumer" \in channels
    /\ state["consumer"] = "STOPPED" => "processors" \notin threads
    /\ registered /\ "loop" \in threads => "publisher" \in channels

\* The log is open while a thread of the program may write to it: the main thread from the
\* first part that is initialized to the last one that is deinitialized, a handler of
\* SIGINT meanwhile, and the threads of the parts until all of them have ended.
LogIsOpen ==
    /\ ended = "no" /\ threads # {} => state["logger"] = "STARTED"
    /\ ended = "no" /\ (\E p \in {"application", "consumer", "publisher"} :
                          state[p] \in {"INITIALIZED", "CONFIGURED", "STARTED", "STOPPED"})
         => state["logger"] = "STARTED"
    /\ ended = "no" /\ state["logic"] \in {"INITIALIZED", "CONFIGURED", "STARTED"}
         => state["logger"] = "STARTED"

\* A program that was started and gets one SIGINT exits with code 0, with everything
\* stopped.  It aborts only if start() fails after the event loop was started, or if a
\* second SIGINT is handled while the first one is.  A message is given to a destroyed
\* Logic only after a failed start().
EndsAreExplained ==
    /\ ended = "aborted" => (failed /\ "eventLoop" \in threads) \/ signals > 1
    /\ ended = "exited" /\ code = 0 =>
          /\ threads = {} /\ channels = {}
          /\ state["application"] = "DEINITIALIZED"
          /\ state["logger"] = "STOPPED"
    /\ ended = "exited" /\ code # 0 => failed /\ threads = {} /\ ~consuming
    /\ strayed => failed

\* A handled SIGINT ends the program, unless a processor missed Logic::stop's
\* notification: no order of the calls and the joins makes the threads wait for each other.
SignalEnds == signals > 0 ~> ended # "no" \/ asleep

=============================================================================
