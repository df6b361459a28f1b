SPECIFICATION OwnersSpec
CONSTANTS
    NbThreads = 2
    PoolUsers = {p1, p2}
    Others = {k1, k2}
    Tasks <- MCTasks
    NoTask = NoTask
INVARIANTS
    EachTaskOnce
    SomeThreadMovesOn
PROPERTIES
    TaskIsExecuted
    DestructorReturns
    DeletedOwnerStops
CHECK_DEADLOCK FALSE
