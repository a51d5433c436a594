------------------------------ MODULE Pipeline ------------------------------
(***************************************************************************)
(* A message on its way through the program: the broker's queue, the       *)
(* consumer, Logic's queue and processors, app::MessageParser, the         *)
(* callbacks of Logic and db::Storage.  The program may crash at any time  *)
(* and be started again: the broker then delivers once more what was not   *)
(* settled, while the storage has kept everything (MongoDB) or nothing     *)
(* (in memory).                                                            *)
(*                                                                         *)
(* Composes Storage for the calls that are one request or one locked       *)
(* section.  A deal stored in MongoDB is up to three requests, between     *)
(* which another processor's deal may come: it does not keep the promise   *)
(* of Storage and is modelled as in MongodbStorage.  Logic has the queue's *)
(* mutex and the end of the threads in detail: here a push and a pop are   *)
(* one step each.                                                          *)
(***************************************************************************)
EXTENDS StorageCalls, Sequences, SequencesExt, FiniteSets

CONSTANTS
    Scripts,      \* what the other services publish: sequences of messages
    BadTime,      \* a time that timeFromString does not understand
    MaxCrashes,   \* bound: how often the program crashes
    MaxFailures   \* bound: how often the storage fails for no reason of the caller's

\* The consumers of a message type
Commands == {"user_registered", "user_renamed", "user_deal", "user_deal_won",
             "user_connected", "user_disconnected"}

ASSUME ScriptsAssumption ==
    \A s \in Scripts : s \in Seq(Range(s)) /\ \A n \in DOMAIN s :
        /\ {s[n].closed, s[n].opened} \subseteq BOOLEAN
        /\ s[n].matched \in 0..3
        /\ s[n].id \in Users
        /\ s[n].name \in Names
        /\ s[n].amount \in Amounts
        /\ s[n].time \in Times \cup {BadTime}
        /\ s[n].time = BadTime => s[n].command \in {"user_deal", "user_deal_won"}

\* There is a processor, and the bounds are numbers.
ASSUME PipelineAssumption ==
    /\ IsFiniteSet(Clients) /\ Clients # {}
    /\ MaxCrashes \in Nat /\ MaxFailures \in Nat

VARIABLES
    script,       \* the messages of this behaviour
    storageType,  \* "MONGODB" or "IN_MEMORY"
    published,    \* how many of them were published
    unsettled,    \* the broker: delivered and neither acked nor rejected
    verdict,      \* the broker: what became of a message, "none" yet
    queue,        \* m_processingQueue
    item,         \* processor -> the message it has, 0 for none
    parsed,       \* processor -> what the parser returned, "none" yet
    names,        \* the storage: user -> name
    scores,       \* the storage: user -> time -> the scores of its entries
    connected,    \* the storage: the connected users
    call,         \* processor -> the call of the storage it is in, or NoCall
    request,      \* processor -> which request of the call is next
    reply,        \* processor -> "none", or the answer of the call
    crashes,      \* how often the program crashed
    failures,     \* how often the storage failed
    applied,      \* history: how often a message changed what is stored
    overtaken     \* history: the earlier messages not settled when one was taken

dataVars == <<names, scores, connected>>
storageVars == <<dataVars, call, request, reply>>
brokerVars == <<script, storageType, published, unsettled, verdict>>
logicVars == <<queue, item, parsed>>
historyVars == <<crashes, failures, applied, overtaken>>
vars == <<brokerVars, logicVars, storageVars, historyVars>>

\* The sum of the first n shares, by a recursion over the positions
Sum(share, n) ==
    LET sum[k \in 0..n] == IF k = 0 THEN 0 ELSE sum[k - 1] + share[k]
    IN  sum[n]

\* What is stored as the score of u at t: MongoDB may have several entries for it.
Stored(u, t) == Sum(scores[u][t], Len(scores[u][t]))

S == INSTANCE Storage WITH
    Unreliable <- TRUE,
    earned <- [u \in Users |-> [t \in Times |-> Stored(u, t)]]

Messages == DOMAIN script

TypeOK ==
    /\ script \in Scripts
    /\ storageType \in {"MONGODB", "IN_MEMORY"}
    /\ published \in 0..Len(script)
    /\ unsettled \subseteq 1..published
    /\ verdict \in [Messages -> {"none", "acked", "rejected"}]
    /\ queue \in Seq(1..published)
    /\ item \in [Clients -> 0..published]
    /\ parsed \in [Clients -> {"none", "SUCCESS", "FAILED", "INVALID_FORMAT", "CMD_NOT_SUPPORTED"}]
    /\ names \in [Users -> Names \cup {NoName}]
    /\ scores \in [Users -> [Times -> Seq(Int)]]
    /\ connected \subseteq Users
    /\ call \in [Clients -> AllRequests \cup {NoCall}]
    /\ request \in [Clients -> {"first", "inc", "add"}]
    /\ reply \in [Clients -> {"none", "SUCCESS", "ERROR"}]
    /\ crashes \in 0..MaxCrashes
    /\ failures \in 0..MaxFailures
    /\ applied \in [Messages -> 0..(MaxCrashes + 1)]
    /\ overtaken \in [Messages -> SUBSET Messages]

Init ==
    /\ script \in Scripts
    /\ storageType \in {"MONGODB", "IN_MEMORY"}
    /\ published = 0
    /\ unsettled = {}
    /\ verdict = [m \in Messages |-> "none"]
    /\ queue = <<>>
    /\ item = [p \in Clients |-> 0]
    /\ parsed = [p \in Clients |-> "none"]
    /\ scores = [u \in Users |-> [t \in Times |-> <<>>]]
    /\ request = [p \in Clients |-> "first"]
    /\ S!Init
    /\ crashes = 0
    /\ failures = 0
    /\ applied = [m \in Messages |-> 0]
    /\ overtaken = [m \in Messages |-> {}]

-----------------------------------------------------------------------------
(* app::MessageParser                                                      *)

\* How many arguments sscanf has to find
Arity(command) ==
    CASE command \in {"user_registered", "user_renamed"}     -> 2
      [] command \in {"user_deal", "user_deal_won"}          -> 3
      [] command \in {"user_connected", "user_disconnected"} -> 1

\* The callback of Logic for a command, by the call of the storage it makes.
\* registerCallbackObject binds onUserDeal for both kinds of deals.
Callback(command) ==
    CASE command = "user_registered"                -> "storeUser"
      [] command = "user_renamed"                   -> "renameUser"
      [] command \in {"user_deal", "user_deal_won"} -> "storeUserDeal"
      [] command = "user_connected"                 -> "storeConnectedUser"
      [] command = "user_disconnected"              -> "removeConnectedUser"

\* The last character is ')', there is a '(', and the text before it is in the map.
HasCommand(m) == m.closed /\ m.opened /\ m.command \in Commands

\* Faulty variant of HasArguments: the result of timeFromString is not looked at.
AnyTime(m) == m.matched = Arity(m.command)

\* getArguments finds all of them, and timeFromString the time of a deal.
HasArguments(m) ==
    /\ m.matched = Arity(m.command)
    /\ Callback(m.command) = "storeUserDeal" => m.time # BadTime

IsWellFormed(m) == HasCommand(m) /\ HasArguments(m)

ParseError(m) ==
    IF m.closed /\ m.opened /\ m.command \notin Commands THEN "CMD_NOT_SUPPORTED"
                                                         ELSE "INVALID_FORMAT"

RequestOf(m) ==
    [op |-> Callback(m.command), id |-> m.id, name |-> m.name,
     time |-> m.time, amount |-> m.amount]

-----------------------------------------------------------------------------
(* The broker and the event loop thread                                    *)

Publish ==
    /\ published < Len(script)
    /\ published' = published + 1
    /\ UNCHANGED <<script, storageType, unsettled, verdict, logicVars, storageVars, historyVars>>

\* What the broker has to deliver, the oldest first, again and again until it is settled
Waiting == {m \in 1..published : m \notin unsettled /\ verdict[m] = "none"}

\* Consumer::onMessageCallback and Logic::processMessage
Deliver ==
    /\ \E m \in Waiting :
         /\ \A other \in Waiting : m <= other
         /\ unsettled' = unsettled \cup {m}
         /\ queue' = Append(queue, m)
    /\ UNCHANGED <<script, storageType, published, verdict, item, parsed, storageVars, historyVars>>

-----------------------------------------------------------------------------
(* A processor: processingThreadFunc                                       *)

\* Faulty variant of FrontOfQueue: the item stays in the queue.
FrontWithoutPop == [head |-> Head(queue), rest |-> queue]

\* Faulty variant of FrontOfQueue: the last item is taken.
LastInQueue == [head |-> queue[Len(queue)], rest |-> SubSeq(queue, 1, Len(queue) - 1)]

\* front() and pop()
FrontOfQueue == [head |-> Head(queue), rest |-> Tail(queue)]

Take(p) ==
    /\ item[p] = 0
    /\ queue # <<>>
    /\ LET m == FrontOfQueue.head
       IN  /\ item' = [item EXCEPT ![p] = m]
           /\ overtaken' = [overtaken EXCEPT ![m] = {k \in 1..(m - 1) : verdict[k] = "none"}]
    /\ queue' = FrontOfQueue.rest
    /\ UNCHANGED <<brokerVars, parsed, storageVars, crashes, failures, applied>>

\* parseMessage calls the callback, and that the storage ...
ParseWellFormed(p) ==
    /\ item[p] # 0
    /\ parsed[p] = "none"
    /\ call[p] = NoCall
    /\ IsWellFormed(script[item[p]])
    /\ call' = [call EXCEPT ![p] = RequestOf(script[item[p]])]
    /\ UNCHANGED <<brokerVars, logicVars, dataVars, request, reply, historyVars>>

\* ... or returns an error before.
ParseMalformed(p) ==
    /\ item[p] # 0
    /\ parsed[p] = "none"
    /\ call[p] = NoCall
    /\ ~IsWellFormed(script[item[p]])
    /\ parsed' = [parsed EXCEPT ![p] = ParseError(script[item[p]])]
    /\ UNCHANGED <<brokerVars, queue, item, storageVars, historyVars>>

-----------------------------------------------------------------------------
(* The storage a processor calls                                           *)

IsDeal(p) == call[p] # NoCall /\ call[p].op = "storeUserDeal"

Entries(p) == scores[call[p].id][call[p].time]

\* Faulty variant of Modifies: modified_count is not looked at.
ModifiesAlways(p) == TRUE

\* $inc modifies the first entry of the time, if there is one; adding 0 modifies nothing.
Modifies(p) == Entries(p) # <<>> /\ call[p].amount # 0

\* MongodbStorage::storeUserDeal goes on: the user was found ...
FindUser(p) ==
    /\ storageType = "MONGODB" /\ IsDeal(p) /\ reply[p] = "none"
    /\ request[p] = "first"
    /\ S!Registered(call[p].id)
    /\ request' = [request EXCEPT ![p] = "inc"]
    /\ UNCHANGED <<brokerVars, logicVars, dataVars, call, reply, historyVars>>

\* ... or the second request has modified no document.
NothingToIncrement(p) ==
    /\ request[p] = "inc"
    /\ ~Modifies(p)
    /\ request' = [request EXCEPT ![p] = "add"]
    /\ UNCHANGED <<brokerVars, logicVars, dataVars, call, reply, historyVars>>

SetEntries(p, entries) ==
    /\ scores' = [scores EXCEPT ![call[p].id][call[p].time] = entries]
    /\ UNCHANGED <<names, connected>>

\* Faulty variant of Increased: the score is replaced.
Replaced(entries, amount) == [entries EXCEPT ![1] = amount]

\* {$inc: {scores.$.score: amount}}, and += in memory
Increased(entries, amount) == [entries EXCEPT ![1] = @ + amount]

\* InMemoryStorage::storeUserDeal, under its lock
StoreDeal(p) ==
    /\ storageType = "IN_MEMORY"
    /\ S!Registered(call[p].id)
    /\ SetEntries(p, IF Entries(p) = <<>> THEN <<call[p].amount>>
                                         ELSE Increased(Entries(p), call[p].amount))

\* The second request of MongodbStorage::storeUserDeal, when it is the last one
IncrementScore(p) ==
    /\ request[p] = "inc"
    /\ Modifies(p)
    /\ SetEntries(p, Increased(Entries(p), call[p].amount))

\* The third request: $addToSet on {time, score}
AddScore(p) ==
    /\ request[p] = "add"
    /\ SetEntries(p, IF call[p].amount \in ToSet(Entries(p)) THEN Entries(p)
                     ELSE Append(Entries(p), call[p].amount))

DealTakesEffect(p) == IsDeal(p) /\ (StoreDeal(p) \/ IncrementScore(p) \/ AddScore(p))

OtherTakesEffect(p) ==
    /\ call[p] # NoCall /\ ~IsDeal(p)
    /\ UNCHANGED scores
    /\ S!Effect(call[p])

\* A deal that changes nothing, although it is not one of 0: $addToSet has found the
\* entry of another one.
Lost(p) == IsDeal(p) /\ call[p].amount # 0 /\ scores' = scores

TakesEffect(p) ==
    /\ DealTakesEffect(p) \/ OtherTakesEffect(p)
    /\ applied' = IF Lost(p) THEN applied ELSE [applied EXCEPT ![item[p]] = @ + 1]

Answer(p, a) ==
    /\ S!Answer(p, a)
    /\ request' = [request EXCEPT ![p] = "first"]

\* The storage executes the call, or the last request of it ...
StorageSucceeds(p) ==
    /\ TakesEffect(p)
    /\ Answer(p, "SUCCESS")
    /\ UNCHANGED <<brokerVars, logicVars, crashes, failures, overtaken>>

\* ... refuses it ...
StorageRefuses(p) ==
    /\ call[p] # NoCall
    /\ request[p] = "first"
    /\ S!Futile(call[p])
    /\ Answer(p, "ERROR")
    /\ UNCHANGED <<brokerVars, logicVars, dataVars, historyVars>>

\* ... or fails, before its effect or after it (MongodbStorage).
StorageFails(p) ==
    /\ storageType = "MONGODB"
    /\ call[p] # NoCall
    /\ failures < MaxFailures
    /\ failures' = failures + 1
    /\ TakesEffect(p) \/ (~S!Futile(call[p]) /\ UNCHANGED <<dataVars, applied>>)
    /\ Answer(p, "ERROR")
    /\ UNCHANGED <<brokerVars, logicVars, crashes, overtaken>>

-----------------------------------------------------------------------------
(* The end of a message                                                    *)

\* onUserRegistered etc.: any error of the storage is FAILED.
CallbackReturns(p) ==
    /\ reply[p] # "none"
    /\ parsed' = [parsed EXCEPT ![p] = IF reply[p] = "SUCCESS" THEN "SUCCESS" ELSE "FAILED"]
    /\ call' = [call EXCEPT ![p] = NoCall]
    /\ reply' = [reply EXCEPT ![p] = "none"]
    /\ UNCHANGED <<brokerVars, queue, item, dataVars, request, historyVars>>

\* ack() or reject(), without requeue
VerdictOf(result) == IF result = "SUCCESS" THEN "acked" ELSE "rejected"

Settle(p) ==
    /\ parsed[p] # "none"
    /\ verdict' = [verdict EXCEPT ![item[p]] = VerdictOf(parsed[p])]
    /\ unsettled' = unsettled \ {item[p]}
    /\ item' = [item EXCEPT ![p] = 0]
    /\ parsed' = [parsed EXCEPT ![p] = "none"]
    /\ UNCHANGED <<script, storageType, published, queue, storageVars, historyVars>>

Process(p) ==
    \/ Take(p)
    \/ ParseWellFormed(p)
    \/ ParseMalformed(p)
    \/ FindUser(p)
    \/ NothingToIncrement(p)
    \/ StorageSucceeds(p)
    \/ StorageRefuses(p)
    \/ StorageFails(p)
    \/ CallbackReturns(p)
    \/ Settle(p)

-----------------------------------------------------------------------------
(* The program crashes and is started again.                               *)

\* Faulty variant of Kept: the broker forgets what it has delivered.
NothingIsDeliveredAgain == unsettled

\* The deliveries that stay with the broker's dead channel: none
Kept == {}

CrashAndRestart ==
    /\ crashes < MaxCrashes
    /\ crashes' = crashes + 1
    /\ unsettled' = Kept
    /\ queue' = <<>>
    /\ item' = [p \in Clients |-> 0]
    /\ parsed' = [p \in Clients |-> "none"]
    /\ call' = [p \in Clients |-> NoCall]
    /\ request' = [p \in Clients |-> "first"]
    /\ reply' = [p \in Clients |-> "none"]
    /\ IF storageType = "MONGODB"
         THEN UNCHANGED <<dataVars, applied>>
         ELSE /\ names' = [u \in Users |-> NoName]
              /\ scores' = [u \in Users |-> [t \in Times |-> <<>>]]
              /\ connected' = {}
              /\ applied' = [m \in Messages |-> 0]
    /\ UNCHANGED <<script, storageType, published, verdict, failures, overtaken>>

-----------------------------------------------------------------------------

Next ==
    \/ Publish
    \/ Deliver
    \/ \E p \in Clients : Process(p)
    \/ CrashAndRestart

Spec == Init /\ [][Next]_vars

\* The broker delivers, the processors run and the storage answers.
FairSpec ==
    /\ Spec
    /\ WF_vars(Deliver)
    /\ \A p \in Clients : WF_vars(Process(p))

-----------------------------------------------------------------------------
(* Properties                                                              *)

DealsOf(u, t) ==
    {m \in Messages : script[m].command \in {"user_deal", "user_deal_won"}
                      /\ script[m].id = u /\ script[m].time = t}

\* The deal k may have come between the requests of the deal m: both add to one score in
\* MongoDB, there are two processors, and k was not settled before m was taken.
Races(k, m) ==
    /\ storageType = "MONGODB"
    /\ Cardinality(Clients) > 1
    /\ k # m /\ applied[k] > 0
    /\ {k, m} \subseteq DealsOf(script[m].id, script[m].time)
    /\ k > m \/ k \in overtaken[m]

Raced(m) == \E k \in Messages : Races(k, m)

\* A message is acked only after its effect is stored, and MongoDB keeps it: no crash
\* between the effect, the answer and the ack loses what was acked.  The one exception is
\* a deal stored in MongoDB: $addToSet may take it for a deal of the same user and time
\* that another processor stores at that moment (MongodbStorage, AcceptedDealsAreStored).
\* So with one processor, or for anything but such a deal, what is acked is stored.
AckedIsStored ==
    \A m \in Messages :
        verdict[m] = "acked" /\ (storageType = "MONGODB" \/ crashes = 0)
            => applied[m] > 0 \/ Raced(m)

\* A message has its effect at most once more than the program has crashed, and once or
\* not at all if it does not crash: however many processors there are, no delivery is
\* processed twice.  A rejected one has none unless the storage failed or the program
\* crashed.
EffectsAreCounted ==
    \A m \in Messages :
        /\ applied[m] <= crashes + 1
        /\ verdict[m] = "rejected" /\ applied[m] > 0 => failures + crashes > 0
        /\ ~IsWellFormed(script[m]) => applied[m] = 0

\* What each message has added to the score of u at t
Shares(u, t) ==
    [m \in Messages |-> IF m \in DealsOf(u, t) THEN applied[m] * script[m].amount ELSE 0]

\* The entries of a user and time add up to the deals that had an effect, each as often as
\* it had it, under the time it was made, whichever of the requests stored it: nothing
\* else changes a score, and nothing stored is lost again.  (A deal that AckedIsStored
\* excuses had no effect and is not part of the score.)
EarnedIsAccountedFor ==
    \A u \in Users, t \in Times : Stored(u, t) = Sum(Shares(u, t), Len(script))

\* The messages published before m for its user that make one of the calls ops
Earlier(m, ops) ==
    {k \in 1..(m - 1) : /\ script[k].id = script[m].id
                        /\ IsWellFormed(script[k])
                        /\ Callback(script[k].command) \in ops}

\* The storage can do what m asks for when it has done what was published before.
CanBeDone(m) ==
    LET op     == Callback(script[m].command)
        naming == Earlier(m, {"storeUser", "renameUser"})
        moving == Earlier(m, {"storeConnectedUser", "removeConnectedUser"})
        online == moving # {} /\ Callback(script[Max(moving)].command) = "storeConnectedUser"
    IN  /\ op = "storeUser" => naming = {}
        /\ op \in {"renameUser", "storeUserDeal"} => naming # {}
        /\ op = "renameUser" => script[Max(naming)].name # script[m].name
        /\ op = "storeConnectedUser" => ~online
        /\ op = "removeConnectedUser" => online

\* A well-formed message is refused only for a reason: a crash, a failure of the storage,
\* a message of its user, published no later than itself, that was overtaken by another
\* one of that user, or one that could not be done in the order of publication.  And a
\* message overtakes only what the other processors have: with one processor nothing.
RefusalsAreExplained ==
    \A m \in Messages :
        /\ verdict[m] = "rejected" /\ IsWellFormed(script[m])
              => \/ crashes + failures > 0
                 \/ \E j \in 1..m : /\ script[j].id = script[m].id
                                    /\ \/ IsWellFormed(script[j]) /\ ~CanBeDone(j)
                                       \/ \E k \in Messages :
                                            script[k].id = script[m].id /\ j \in overtaken[k]
        /\ Cardinality(overtaken[m]) < Cardinality(Clients)

\* Every message that is published gets its ack or reject, after a crash too: the moments
\* at which nothing published is without one come again and again.
PublishedIsSettled == []<>(\A m \in 1..published : verdict[m] # "none")

=============================================================================
