CONSTANTS
    Backends = {"inmemory", "mongo"}
    Ids = {1, 2, 3, 4}
    Scores = {0, 1, 2}
    Count = 2
    Before = 1
    After = 2
SPECIFICATION Spec
INVARIANTS
    WindowsAreExact
    RankingIsComplete
    InsertionsAreDefined
    TopIsTop
CHECK_DEADLOCK FALSE
