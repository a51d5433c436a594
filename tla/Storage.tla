------------------------------ MODULE Storage ------------------------------
(***************************************************************************)
(* What db::Storage promises to the processor threads, whatever is behind  *)
(* it: every call takes effect at one moment between its invocation and    *)
(* its return, SUCCESS means that it took effect, and an error means that  *)
(* it did not, unless the storage is an unreliable one, whose answer can   *)
(* be lost after the effect.                                               *)
(***************************************************************************)
EXTENDS StorageCalls

CONSTANT Unreliable  \* whether calls can fail for no reason of the caller's

VARIABLES
    names,      \* user id -> name, NoName if not registered
    earned,     \* user id -> time -> the sum of the user's deals of that time
    connected,  \* the ids of the connected users
    call,       \* client -> the call it is in, or NoCall
    reply       \* client -> "none", or the answer of the call it is in

dataVars == <<names, earned, connected>>
vars == <<dataVars, call, reply>>

Init ==
    /\ names = [u \in Users |-> NoName]
    /\ earned = [u \in Users |-> [t \in Times |-> 0]]
    /\ connected = {}
    /\ call = [c \in Clients |-> NoCall]
    /\ reply = [c \in Clients |-> "none"]

Registered(u) == names[u] # NoName

\* What the call does to the stored data when it succeeds.
Effect(r) ==
    \/ /\ r.op = "storeUser"
       /\ ~Registered(r.id)
       /\ names' = [names EXCEPT ![r.id] = r.name]
       /\ UNCHANGED <<earned, connected>>
    \/ /\ r.op = "renameUser"
       /\ Registered(r.id)
       /\ names' = [names EXCEPT ![r.id] = r.name]
       /\ UNCHANGED <<earned, connected>>
    \/ /\ r.op = "storeUserDeal"
       /\ Registered(r.id)
       /\ earned' = [earned EXCEPT ![r.id][r.time] = @ + r.amount]
       /\ UNCHANGED <<names, connected>>
    \/ /\ r.op = "storeConnectedUser"
       /\ connected' = connected \cup {r.id}
       /\ UNCHANGED <<names, earned>>
    \/ /\ r.op = "removeConnectedUser"
       /\ r.id \in connected
       /\ connected' = connected \ {r.id}
       /\ UNCHANGED <<names, earned>>

\* The call asks for what cannot be done, or for what is already so.
Futile(r) ==
    \/ r.op = "storeUser" /\ Registered(r.id)
    \/ r.op = "renameUser" /\ (~Registered(r.id) \/ names[r.id] = r.name)
    \/ r.op = "storeUserDeal" /\ ~Registered(r.id)
    \/ r.op = "storeConnectedUser" /\ r.id \in connected
    \/ r.op = "removeConnectedUser" /\ r.id \notin connected

Answer(c, a) ==
    /\ call[c] # NoCall
    /\ reply[c] = "none"
    /\ reply' = [reply EXCEPT ![c] = a]
    /\ UNCHANGED call

Invoke(c) ==
    /\ call[c] = NoCall
    /\ \E r \in Requests : call' = [call EXCEPT ![c] = r]
    /\ UNCHANGED <<dataVars, reply>>

Succeed(c) == Answer(c, "SUCCESS") /\ Effect(call[c])

Refuse(c) ==
    /\ Answer(c, "ERROR")
    /\ Futile(call[c]) \/ Unreliable
    /\ UNCHANGED dataVars

\* The effect took place, the client is told of an error.
LoseAnswer(c) == Unreliable /\ Answer(c, "ERROR") /\ Effect(call[c])

Return(c) ==
    /\ reply[c] # "none"
    /\ call' = [call EXCEPT ![c] = NoCall]
    /\ reply' = [reply EXCEPT ![c] = "none"]
    /\ UNCHANGED dataVars

Next == \E c \in Clients :
    Invoke(c) \/ Succeed(c) \/ Refuse(c) \/ LoseAnswer(c) \/ Return(c)

Spec == Init /\ [][Next]_vars

=============================================================================
