---------------------------- MODULE StorageCalls ----------------------------
(***************************************************************************)
(* The calls of db::Storage that change what is stored: who makes them,    *)
(* with which arguments and with which results.  Ids, names and times are  *)
(* members of small sets.                                                  *)
(***************************************************************************)
EXTENDS Integers

CONSTANTS
    Clients,   \* the processor threads, which call the storage
    Users,     \* user ids
    Names,     \* user names
    Times,     \* times of deals
    Amounts,   \* amounts of deals
    Requests,  \* the calls the clients make in one model
    NoName,    \* the name of an id that is not registered
    NoCall     \* the call of a client that makes none

Operations == {"storeUser", "renameUser", "storeUserDeal",
               "storeConnectedUser", "removeConnectedUser"}

\* One shape for all calls: each operation reads the fields it has arguments for.
AllRequests == [op : Operations, id : Users, name : Names, time : Times, amount : Amounts]

ASSUME RequestsAssumption ==
    /\ Requests \subseteq AllRequests
    /\ Amounts \subseteq Int
    /\ NoName \notin Names
    /\ NoCall \notin Requests

\* The results of these calls in common::Result.
StorageErrors == {"USER_ALREADY_REG", "USER_NOT_FOUND", "USER_CONN_ERROR", "DB_ERROR"}
StorageResults == {"SUCCESS"} \cup StorageErrors

=============================================================================
