# Leaderboard application: TLA+ models and proofs

This directory models the leaderboard service of this repository: a program that
consumes user events from RabbitMQ, stores them, and publishes leaderboards at an
interval. Source paths below are relative to the repository, and `PROJECT.json`
names the lines every definition stands for.

## 1. The system

| Component | State | Operations | Interacts with |
|---|---|---|---|
| `app::Logic` (`src/app/Logic.cpp`) | `m_state`, the processing queue with its mutex and condition variable, processor threads, loop thread | lifecycle, `processMessage`, `processingThreadFunc`, `loop`/`loopFunc`, `onUser*` | consumer (push), parser and storage (calls), channel (ack/reject), publisher |
| `db::Storage` (`include/db/Storage.h`) | users with names and scores, connected users | `storeUser`, `renameUser`, `storeUserDeal`, `storeConnectedUser`, `removeConnectedUser`, `getUser`, `getLeaderboards` | called by the processors and by the loop thread |
| `db::InMemoryStorage` | two maps, a mutex each | the same | - |
| `db::MongodbStorage` | two collections | the same, one to three requests each | MongoDB (external) |
| `rabbitmq::Publisher`, `SyncObj` | channel, unanswered requests | start, commit and roll back a transaction synchronously; `publish` | loop thread, event loop thread, broker |
| `rabbitmq::Handler`, `Consumer` | connection, channel, state | lifecycle, declare/bind/consume, `onMessageCallback` | event loop, Logic |
| `rabbitmq::EventLoop`, `TcpHandler` | queue of monitor calls, two vectors for `poll` | `addConnectionItem`, `func`, `add`/`update`/`remove` | AMQP library |
| `app::ApplicationBase`, `Application`, `main` | `m_state` | initialize ... deinitialize, SIGINT handler | everything |
| `app::MessageParser` | callbacks | `parseMessage` | Logic |
| `tg::Generator` (traffic generator) | its place in the loops, the open transaction | lifecycle, `writeData` | Publisher |
| web application (`web/server.js`) | the last ten leaderboards of each user | `leaderboards.add`, routes | broker |
| logger, configuration, utilities | none that matters here | - | - |

Threads of the service: the main thread (lifecycle), the event loop thread (it runs
every AMQP callback), `processors-count` processor threads and the leaderboard loop
thread. They share the processing queue (one mutex), the storage and the AMQP
channels (no mutex at all).

Hard behaviour: the processors' wait loop against `stop`; a crash between the effect
of a message and its ack; three-request deals against each other; a ranking read while
deals are stored; a transaction whose answers come too late, or before anybody
listens; a connection that is destroyed, and its descriptor given out again, under a
loop that polls it; a start that fails half-way and a signal handler that joins
threads; and the off-by-one boundaries of a sliding window. `PROJECT.json` lists these
hazards at their lines, with the properties that cover them and a note where none does.

What makes each component correct:

* Logic: no delivery is lost, processed twice or settled twice; whoever pops finds an
  item; stopping leaves nothing half done; each delivery is settled eventually.
* Parser and storage together: what is acked is stored, what is stored came from a
  message, a refusal has a reason, after crashes too - and the one exception, a deal that
  another processor's deal races with in MongoDB, is known.
* Storage: a call takes effect at one moment or not at all, and its result says which.
* `getLeaderboards`: a connected user sees exactly the neighbours in the ranking, the
  top is the top, the ranking is of one moment, and a user who cannot be looked up
  disturbs nobody else's leaderboard.
* Publisher and those who use it: subscribers see whole transactions, in order, once; a
  reported success is one; a round ends although nobody answers; nobody sees a deal of
  an unregistered generated user.
* Event loop: vectors aligned, the polled descriptors are the ones the library asked
  for, data is read, calls are applied, the thread ends when told to.
* Lifecycle: started means everything is up; channels and log outlive the threads that
  use them; one signal ends the program cleanly.

## 2. Modules

| Module | Models | Checked by | Proofs |
|---|---|---|---|
| `Logic` | Logic.cpp: queue, processors, loop thread, lifecycle, `stop` | `Logic.cfg`, `LogicStop.cfg` | `LogicProofs` |
| `StorageCalls` | the calls and results of `db::Storage` | extended by the storages | - |
| `Storage` | abstract: what `db::Storage` promises | as a PROPERTY of the storages; its actions in Pipeline, but for MongoDB's deals | - |
| `InMemoryStorage` | InMemoryStorage.cpp: mutexes and calls, `getLeaderboards` step by step | `MCInMemoryStorage` | `InMemoryStorageProofs` |
| `MongodbStorage` | MongodbStorage.cpp: requests and calls, `getLeaderboards` | `MCMongodbStorage` with three cfgs | `MongodbStorageProofs` |
| `Leaderboards` | the ranking algorithm of both storages | `Leaderboards.cfg` | `LeaderboardsProofs` |
| `Pipeline` | MessageParser.cpp and a message's way from the broker to the storage, with crashes; composes `Storage` and has the three requests of MongoDB's deals | `MCPipeline` | `PipelineProofs` |
| `Publisher` | Publisher.cpp, `SyncObj`, the library and the broker | extended by the next two | - |
| `LeaderboardLoop` | `Logic::loopFunc` | through `Publishing` | - |
| `TrafficGenerator` | `Generator::writeData` | through `Publishing` | - |
| `Publishing` | composes the last three: either program with its Publisher | `Publishing.cfg` | `PublishingProofs` |
| `EventLoop` | EventLoop.cpp and TcpHandler.cpp, the library and the sockets | two cfgs | `EventLoopProofs` |
| `Lifecycle` | both `main`s, ApplicationBase, Application, Generator, Handler, Consumer, the storages and the logger from start to exit | `Lifecycle.cfg` | `LifecycleProofs` |

Operators described as "Faulty variant of X" are plausible bugs at X. No specification
uses them; putting one in the place of X breaks the property it is paired with in
`PROJECT.json`, which shows that the property depends on that line of the code.

### Logic

`state` is `m_state`, `running` is `m_isProcessingThreadsRunning`, `guard` the owner
of `m_processingQueueGuard`. Deliveries of one consumer carry consecutive tags, so the
queue is two counters, `pushed` and `popped`; as in `std::deque`, "empty" means that
they are equal, and popping the empty queue makes them unequal the wrong way round.
Each processor has a program counter: `check` (the outer `while`), `acquire`, `test`
(the wait loop's condition), `enterWait`, `waiting`, `woken`, `take` (front, pop,
unlock), `garbage` (what `front()` found on an empty queue), `parse`, `settle`.
`enterWait` and `waiting` are apart since the mutex is held in the former:
`processMessage`, which notifies under the mutex, cannot come in between, and `stop`,
which does not take it, can. `front()` and `pop()` are one step, as both happen under
the mutex: `Front` is the item that is taken. The undefined `front()`/`pop()` either yields an item
without channel (the thread goes on) or ends the process (`crashed`).

### InMemoryStorage, MongodbStorage, Storage

A client is a processor thread in one call. In memory a call is lock, find, apply and
unlock, return; with MongoDB it is one atomic request, and `storeUserDeal` is `find`,
`inc` and, if nothing was modified, `add`. The loop thread's `getLeaderboards` copies
the connected users, then the users one by one, then takes the mutex again (or asks
the database) for each title.

`Storage` is the atomic contract: between invocation and return a call succeeds with
its effect, or is refused, without effect, because it was futile; an *unreliable*
storage may also refuse for no reason or lose an answer. The refinement mapping sums
the entries of a user and time (`earned`) and maps every error to `ERROR`.

### Leaderboards

Sequential: collect (insert into the multimap, number), enter the top, walk down the
ranking. `Precedes` is the comparator as written, and `Emplace` inserts behind every
row the new one does not precede. Since the comparator is no strict weak order this is
what the search tree does only if the rows to compare with are partitioned;
`InsertionsAreDefined` checks that they always are. Ties are in any order for MongoDB
(`Cursors`), in hash order in memory, where every hash order is an initial state. `served`
are the connected users whom `getUser` finds when the walk reaches them: any of them with
MongoDB, where that is a request of its own, and all of them in memory. The walk leaves out
the others' leaderboards and goes on. Without
a count the in-memory ranking is moved away before the walk; the only caller passes
10, and the runs use a positive `Count`.

### Pipeline

A message is a record of what the parser finds out about it: whether it ends with a
parenthesis, whether it has an opening one, the command, how many arguments `sscanf`
matches and whether the time of a deal is one. `script` is what the other services
publish, one of a few sequences in the order the services would use; `storageType`
chooses the storage. A processor takes a message, parses it (an error ends here), calls
the storage, turns the answer into SUCCESS or FAILED and acks or rejects. With MongoDB the
storage may fail before or after the effect. A call that is one locked section or one
request takes effect through `Storage`'s actions. A deal in MongoDB does not keep
`Storage`'s promise when there are two processors: it is the requests `FindUser`,
`IncrementScore` and, if nothing was modified, `AddScore`, with other processors' steps
between them, on the list of entries that MongoDB has for a user and time (`scores`;
`Stored` is their sum). So Pipeline also has the deal that is answered with SUCCESS and
changes nothing, since `$addToSet` takes it for another one (`Lost`).
`CrashAndRestart` ends the process at any moment: queue and processors are empty, the
broker delivers again what was not settled (in the order of publication), MongoDB keeps
its data, the storage in memory loses everything. A request that is under way at a crash
has been executed before it, or never is. `Deliver` and `Take` are
one step each since Logic has their mutex in detail. `applied` counts for each message
how often it has changed what is stored, and `overtaken` keeps which earlier messages were
still with other processors when it was taken. RefusalsAreExplained says what a reason for
a refusal is: a crash or a failure of the storage; a message of the same user, published no
later, which was overtaken by another message of that user; or one which could not have
been done even in the order of publication (`CanBeDone`). AckedIsStored excuses a lost deal
only if it can name the other one (`Raced`): a deal of the same user and time that had its
effect, was not settled when this one was taken or was published after it, with MongoDB and
more than one processor.

### Publisher, LeaderboardLoop, TrafficGenerator, Publishing

A synchronous call is three steps: send the request (`attach`), attach the callbacks
(`wait`), and the end of the wait, with an answer or after five waits of a second
(time is not modelled: the wait may end at any moment). The event loop thread handles
answers in order. An answer to a request without callbacks is forgotten; a callback
whose call is over touches a dead `SyncObj`: nothing is seen, or the call that now has
that place of the stack is completed, or the process crashes (`Stray`, `fate`).
Losing the connection drops what was on the way and the open transaction, and calls the
channel's error callback, which refers to a dead `SyncObj` too.

`LeaderboardLoop` and `TrafficGenerator` are what a thread does between these calls.
A round publishes a fixed number of leaderboards. The generator's `next` is its place
in the two nested loops; a message that is not published is a `continue` of one of
them, and `MaxFailures` bounds those on a working channel. It retries to start a
transaction for ever, which `MaxTransactions` cuts short. Both threads use the same
names (`pc`, `transaction`), and `program` says which one runs.

### EventLoop

`items` and `pollFds` are the two vectors, `queue` the calls of `monitor` that the loop
has not applied, `monitored` the set the library asked for, all calls considered. `Poll`
chooses the ready positions from the state of the sockets, counts those with POLLNVAL
into `res` as poll(2) does, and `Handle` is one position of the walk. The library and
the kernel are external: connections are opened with the lowest free descriptor, as the
system gives them out, closed by the peer, or destroyed by `Handler::stop` on
another thread, and each closing ends the monitoring first. `process()` reads if it is
passed "readable", writes what was kept if it is passed "writable", and closes a broken
connection. A connection that is destroyed during a round may still be used in it
(`UseDestroyed`), with no effect or the end of the process.

### Lifecycle

A thread is the sequence of calls it still has to make (`todo`): `Main`, the signal
handler and the destructors are sequences of pairs of a part and an operation, written
down in the order of the code, and each operation is an action on the state of its part
(`m_state`), the running threads and the channels. The logger is started first and stopped
last, and `LogIsOpen` is about everything before: the log is open from
the first part that is initialized to the last one that is deinitialized, and while any
thread runs. `Fail` is any call with a result
that `main` gives up on: it returns, which runs the destructors of the static
Application. SIGINT interrupts the main thread, and while that is in the handler any
other one; it is blocked on the thread that handles it (`Handle`), so no thread is in the
handler twice. The handler joins threads, so it may join the thread it runs on.
`std::thread` ends the process when a joinable one is destroyed or joined twice (`End`).
`asleep` is a processor that missed the notification of `Logic::stop` (the run
`logic_stop_returns`); a later delivery wakes it.

## 3. Runs

"Violation" runs check what a document, a log message or a test of the repository says
and find it refuted; `PROJECT.json` quotes the line.

| Run | Checks | Bounds | Shows |
|---|---|---|---|
| `logic` | TypeOK, NoDeliveryLost, PopsAreBacked, StopLeavesNothingHalfDone, EffectOnceAndFinal, EveryDeliverySettled | 2 processors, 3 deliveries, fairness | queue, processors and stop in every interleaving; no wakeup is lost between test and wait |
| `logic_stop_returns` (violation) | StopReturns | 1, 1, fairness | `stop` without the mutex may wait for ever |
| `inmemory` | SnapshotIsConsistent, ImplementsStorage, ConnectedGetLeaderboards | 2 processors, 2 users, 3 calls | atomic calls, consistent ranking |
| `mongo_one_processor` | ImplementsStorage | 1 processor, 4 calls, failing requests | a deal is atomic if nobody else writes |
| `mongo_two_processors` | NeverCountedTwice, LeaderboardsCountEarlierDeals | 2 processors, 4 calls | concurrent deals never add up to too much, and the unsynchronised aggregation misses no earlier deal ... |
| `mongo_lost_deal` (violation) | AcceptedDealsAreStored | 2 processors, 3 calls | ... but one of two equal deals can vanish |
| `leaderboards` | WindowsAreExact, RankingIsComplete, InsertionsAreDefined, TopIsTop | 4 ids, 3 scores, one row above and two below, both storages, any set of users who cannot be looked up | the walk equals its reference definition |
| `pipeline` | TypeOK, AckedIsStored, EffectsAreCounted, EarnedIsAccountedFor, RefusalsAreExplained, PublishedIsSettled | 2 processors, 4 scripts of 4 messages, 2 users, 1 crash, 1 failure, both storages, fairness | acked means stored, but for a deal that another one races with in MongoDB; a score is the deals that had their effect; a refusal has a reason; every message is settled, after a crash too |
| `publishing` | CommitsAreWhole, UsersAreWhole, SuccessMeansDelivered, EveryRoundEnds | 3 transactions, 2 leaderboards; 2 users with 2 deals, transactions of 3 | what is delivered is whole transactions; users appear registration first; no answer is needed for a round to end |
| `event_loop` | TypeOK, Aligned, MonitoringIsExact, DestroyedAreLeaving, ArrivedIsRead, CallsAreApplied, EventLoopEnds | 2 connections, 2 descriptors, 2 stalls, fairness | what is polled is what was asked for, under reuse of descriptors; no connection starves another |
| `event_loop_stale_flags` (violation) | UnsentIsSent | the same | a connection first monitored for reading is never told that it can write |
| `lifecycle` | TypeOK, StartedMeansStarted, ChannelsOutliveTheirUsers, LogIsOpen, EndsAreExplained, SignalEnds | both programs, 2 signals, every failing step, fairness | clean ends, and the two reasons for the others |

More facts are in the models and have no run of their own, as nothing in the repository
that could be quoted says otherwise or the effect is undefined behaviour:

* A stopping processor pops the empty queue (`Logic!TakeItem`, pc `garbage`).
* A connected user without a deal of the last week gets no leaderboard from
  MongodbStorage (`HasRow`), while InMemoryStorage makes one (ConnectedGetLeaderboards).
* The positions of InMemoryStorage are counted in hash order (`Collect`); MongoDB's are in
  the order of the ranking (`Cursors`).
* The top leaderboard is entered after the users' ones and under the id -1, so a
  connected user with that id would take its place (`Entered`; the runs keep to other ids).
* A commit that timed out and is rolled back may have been delivered
  (SuccessMeansDelivered says nothing of reported failures).
* The callbacks of a synchronous call that timed out refer to a stack frame that is gone
  (`Stray`).
* A start that fails after the event loop was started aborts the process in
  `~EventLoop`, and so may a second SIGINT (EndsAreExplained names both).

Why the bounds are enough. Two processors and three deliveries give every pair of
program counters with an item left over. A lost update needs two clients and three calls
(register and two deals), and a third deal tells adding from inserting. Four users with one row
above and two below have users at both ends and in the middle, rows cut off above and
below, and ties of all kinds; with two rows below the counter counts and is erased.
In Pipeline the four scripts have every command in its legal order, deals of one user and
time with a second processor - two equal ones, of which one can be lost, and a different one,
so that a time can have two entries -, every parser error, and messages of two users; a second crash would find what the first one
found. The proofs lift these bounds for every safety property. Three transactions let the answers of two earlier ones arrive late; two
users with two deals reach the size of a transaction in the middle of a user, at the end
of one, and not at all. Two connections with two descriptors are what the service has,
and a third socket is the same descriptor again. Two signals are enough to have two
threads in the handler; a third finds no state a second does not. All bounds
(`MaxTag`, `MaxCalls`, `MaxTransactions`, `MaxFailures`, `MaxCrashes`, `MaxStalls`,
`MaxSignals`) are guards of the environment's actions only - the exception is
`MaxTransactions`, which stops a publishing thread before a new transaction - so they
cut behaviours short and never change a step.

Deadlock is checked in the storages' runs: the loop thread can always go on.
In the others a run ends (stopped, done, exited, crashed, or the bound reached) and
`CHECK_DEADLOCK FALSE` says so.

Fairness. Weak fairness of every thread of the process - the operating system runs a
thread that can run - is `Logic!Fairness`, `Lifecycle!FairSpec` and the processors' part
of `Pipeline!FairSpec`. Nobody need publish, stop, send a signal or wake a thread
spuriously. The queue's mutex needs no strong fairness: a processor that is overtaken
for ever is overtaken by one that takes the items in its place. Pipeline also lets the
broker deliver what it has, which is what a broker is for, and crashes only finitely
often. `Publishing!FairSpec` is fair to the loop thread only: neither broker nor
network owes an answer. `EventLoop!FairSpec` adds strong fairness of `Poll`: `poll` may be
interrupted or time out any number of times, but while something stays ready it does
not for ever; and a peer that is alive reads its socket.

A type invariant is checked where it says something the other properties do not (which
message a thread may hold, which calls a thread may have left) and proved wherever it is
checked, and for InMemoryStorage.

## 4. Proofs

TLAPS checks every safety property of every passing run - invariants, action properties,
refinements - for every value of the constants. The assumptions are named in the modules and say what the code needs anyway:

* Logic: finitely many processors and at least one, a special value that is none of
  them, `MaxTag` a natural number.
* Storages: well-formed requests, integer amounts, the loop thread and "nobody"
  different from the clients, recent times are times.
* Leaderboards: integer ids and scores, finitely many ids, natural numbers of rows above
  and below.
* Publisher and its users: numbers of leaderboards, transactions, deals and messages.
* EventLoop: descriptors are positive numbers (0 stands for "no socket").
* Pipeline: scripts of well-typed messages, finitely many processors and at least one.
* Lifecycle: `MaxSignals` is a natural number.

A theorem that needs more says so in its ASSUME: see MongodbStorageProofs and
LeaderboardsProofs below.

**LogicProofs.** `IInv` adds to `TypeOK` who owns the mutex (exactly the thread at
`test`, `enterWait` or `take`), that while the threads run `popped <= pushed` and whoever
is at `take` leaves an item, that a tag has at most one holder, and how `outcome` and
`settled` follow the holder's program counter. Without the mutex part two threads could
both be at `take` with one item; without the last one settling could overwrite. One lemma
per group of actions; results `TypeCorrect`, `DeliveriesAreNotLost`, `PopsFindAnItem`,
`StopIsClean`, `EffectsAreFinal`.

**InMemoryStorageProofs.** The invariant ties the mutexes' owners to the program counters
and `found` to the map as long as the finder holds the mutex, which is what makes
find-then-apply one step. From it `SnapshotHolds` and `Implementation`: every step of the
implementation is a step of `Storage` or a stutter. `TypeCorrect` adds that who was copied
stays registered, so that the second lock of `getLeaderboards` finds a name for each title.
`ConnectedAreServed` needs the same of who was registered when the call began (`KeptInv`):
it is among what was copied, so nobody who is connected is left out.

**MongodbStorageProofs.** The invariant says where a call is between its requests and what
it then knows. How one request changes the sum of a user's entries is shown once
(`IncrementStores`, `AddStores`).
* `CountedOnce`: any number of processors never store more than the deals answered with
  SUCCESS. Hypotheses: the database is reliable (otherwise a stored deal may be answered
  with an error, as the code accepts), and no deal is negative (the traffic generator
  draws the amounts from an unsigned range; with a negative one lost, the sum is too high).
* `Implementation`: the refinement of `Storage`, for one processor. `AddInv` - who is
  about to insert an entry has found none, and there still is none - is inductive only if
  nobody else writes; `mongo_lost_deal` shows the loss with two.
* `EarlierDealsAreCounted`: scores never shrink, so whatever the loop thread reads
  later is at least what was stored when it began. Hypotheses: no deal is negative, and the
  week has finitely many times.

**LeaderboardsProofs.** While the rows are collected the positions grow, so among the
rows already there `Precedes` means "greater score", though it is no order in general
(`EmplaceSorts`). During the walk each insertion puts the row at the end, so a user's
window is always a piece of the ranking (`WalkInv`), and what is left is arithmetic on
where it begins and ends. Results: `RankingIsCompleteAlways`, `WindowsAreExactAlways`,
`InsertionsAreDefinedAlways`, `TopIsTopAlways`.
Hypotheses: for the windows a positive `Count` unless only MongoDB is used (without a count
the ranking in memory is moved away before the walk; the only caller passes 10);
for the top and the insertions, no user has its id -1.

**PublishingProofs.** The argument is about one sequence, `Stream`: the messages of the open
transaction at the broker, then everything on the way. A commit in it comes directly behind
all the messages of its own transaction and of no other (`Closes` in `CommitInv`), which
holds since a transaction is begun only after the last one was ended (`OpenInv`), and
stays true when the connection is lost, as then the whole stream is. From it
`CommitsAreWholeAlways`. `UsersAreWholeAlways` adds how far the generator's place in
its loops has come when it writes a message. `SuccessMeansDeliveredAlways` counts:
an answer to a commit is in the hands of the call that sent it only if every request
before it was answered, so a reported success is the broker's, of this transaction.

**EventLoopProofs.** `VectorsStayAligned` is about what `RemoveAt` and `Append` do to both
vectors and about the position `Find` returns; that a descriptor occurs once is what keeps
an update from breaking it. `TypeCorrect` adds that outside a round nothing of the last one
is left. `MonitoringStaysExact` says that applying the waiting calls to the vectors gives
what the library asked for. It needs `HandoverInv`: a closing connection ends its monitoring
before the socket is closed, so between the calls of two connections for one descriptor
there is a call that ends the first one; without it, a descriptor given out again could be
updated for the connection that is gone. `CallAppended` and `CallApplied` are the two
ends of the queue. `DestroyedLeave` follows from it.

**PipelineProofs.** For any scripts, processors, crashes and failures.
* `AckedStaysStored`, `EffectsStayCounted`. Neither is inductive: `IInv` adds where an
  unsettled message is (once in the queue or with one processor - otherwise it could have
  its effect twice), where a processor is in the way through parser and storage, that a
  message which is still to be tried has had at most one effect per crash, and that what
  a processor was told by the storage is true, or about a deal that was raced with (it acks
  because of it). For the exception, `RaceInv`: who is about to add an entry has found none
  to increment, so if there is one now, another deal has stored it since. That both
  processors had their deals at that moment is `ProcessorsRace`: the one with the later message
  has overtaken the other (`HeldInv`, which needs that the queue keeps the order of delivery,
  `OrderInv`). With one processor there is no such pair, and acked means stored.
* `EarnedStaysAccountedFor`: the storage is called with the message the processor has
  (`OriginInv`), and each of the requests that changes the entries adds the amount of that
  message to their sum (`IncrementedEntries`, `AddedEntry`, `EffectIsAccountedFor`), whatever
  other deals did before it; a lost deal changes neither side.
* `RefusalsHaveReasons`: what a message overtakes is with other processors (`OrderInv`), at
  most one message each. As long
  as nothing was overtaken for a user, what is stored of it is what the messages before said
  (`StoredInv`); then a refusal contradicts `CanBeDone`. A reason once found stays one.

**LifecycleProofs.** A thread's `todo` is the program text it still has to run, so the
invariant needs no history: a call that is not in it has been passed. `CallsLeft` says that
`todo` is always the rest of `Main`, `SignalHandler` or `Destruction`; in these sequences
the order of the calls is established once (`MainOrder`, `HandlerOrder`,
`DestructionOrder`), and the other conjuncts say what holds when a call is no longer ahead:
* `StartedParts`, `StartedThings`: what main has passed while it starts is up. When it has
  passed everything, that is `StartedMeansStarted`, and `Up` keeps it until the first SIGINT
  (`StartedStaysStarted`); a call that fails turns main to the destructors instead.
* `JoinedEnded`: a thread whose join the handler has passed has ended, whoever handles the
  signal and however many do, as nobody starts a thread again. So channels are closed after
  their users ended (`ChannelsStayOpen`), and as the handler stops the logger only behind all
  joins, no thread is left to write to it. `LogStaysOpen` also needs that no part is left
  between its initialization and its deinitialization by then (`WentDown`): what was started
  is never back before its start, and what main has deinitialized stays so.
* `StoppedLast`, `PassedIsDown`, `Destroyed`: once the joins are behind main it is alone,
  since every other thread that handles a signal is one of those joined. That is what makes
  the order of the rest of the handler and of the destructors safe, and with it
  `TheEndIsExplained`. `SignalsCounted` tells the first signal from a second one: only a
  thread that still runs can take that, and with one signal only main joins.

The constants leave the bound on SIGINTs open, and the theorems hold for any number of them:
any number of threads in the handler at once, each joining the others or itself.

**Sums and least elements.** A score is a sum, which is defined by recursion, and the
prover has no induction over data. The facts needed are proved from a least counterexample
instead: for the sum over a finite set (`MongodbStorageProofs`) two functions that obey the
fold's equation would differ at a smallest subset (`IterIsUnique`), and a smallest subset
without such a function has one (`IterExists`); for the sum over the positions of a script
(`PipelineProofs`) the same is done with the least position (`SumIsLast`, `SumsExist`).
`MinIsElement`, `MaxIsElement` and `LastPosition` are what the proofs need of `Min` and `Max`.

Only model-checked: the liveness properties - EveryDeliverySettled, EveryRoundEnds,
ArrivedIsRead, CallsAreApplied, EventLoopEnds, SignalEnds, PublishedIsSettled -
and with them ENABLED and the fairness conditions, which are out of the prover's reach; and
the three runs that expect a violation.

## 5. Plan

Done: all components but the ones of the next section, each with its runs; the proofs of
every safety invariant, of both storages' refinements (MongoDB's for one processor), and of
every action property.

Left: the web application's list of leaderboards, which is another program in another
language.

## 6. Not modelled

* The web application (`src/web/server.js`): another process, in JavaScript, that keeps
  the latest leaderboards of each user. Whether its sort orders late messages depends on
  the version of the engine (its comparator returns a Boolean).
* Texts of messages and log lines, the values of settings, levels and categories of
  the logger, name generation (vendored). The two cases of InMemoryStorage::storeUser
  for a known user (same and other name) differ in the text only.
* Documents of the wrong type in the database, exceptions no code catches, and data
  races on C++ objects of the AMQP library, which ack and reject on the processors'
  threads while the event loop reads.
* Time: waits may end at any moment, the loop may sleep any number of times, and
  `getWeekScores` is modelled by its result on recent and old times, not by calendar
  arithmetic on a shared buffer of `localtime`.
* TcpHandler's callbacks other than `monitor` only write log lines.

The remaining components are listed with their reasons in `PROJECT.json`.
