CONSTANTS
    w1 = w1
    w2 = w2
    c1 = c1
    c2 = c2
    t1 = t1
    t2 = t2
    t3 = t3
    t4 = t4
    none = none
    NoTask = none
    Task <- AllTasks
    Spawns <- OneSpawner
    Workers = {w1}
    Clients = {c1}
    Submits <- OneClient
    Stoppers = {c1}
    WorkLimits = 1
SPECIFICATION Spec
PROPERTIES
    StopReturns
CHECK_DEADLOCK FALSE
