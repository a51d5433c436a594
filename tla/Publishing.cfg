CONSTANTS
    Leaderboards = 2
    MaxTransactions = 3
    UsersCount = 2
    DealsPerUser = 2
    TransactionSize = 3
    MaxFailures = 1
SPECIFICATION FairSpec
INVARIANTS
    CommitsAreWhole
    UsersAreWhole
PROPERTIES
    SuccessMeansDelivered
    EveryRoundEnds
CHECK_DEADLOCK FALSE
