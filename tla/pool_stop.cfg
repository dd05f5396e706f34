CONSTANTS
    w1 = w1
    w2 = w2
    c1 = c1
    c2 = c2
    t1 = t1
    t2 = t2
    t3 = t3
    t4 = t4
    none = none
    NoTask = none
    Task <- AllTasks
    Spawns <- OneSpawner
    Workers = {w1, w2}
    Clients = {c1, c2}
    Submits <- TwoClients
    Stoppers = {c1}
    WorkLimits = 1
SPECIFICATION Spec
INVARIANTS
    EveryTaskOnce
    NobodySleepsInVain
    StopDrains
PROPERTIES
    StopReturns
    FuturesReady
CHECK_DEADLOCK FALSE
