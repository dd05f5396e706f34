CONSTANTS
    g1 = g1
    g2 = g2
    g3 = g3
    p1 = p1
    p2 = p2
    p3 = p3
    Getters = {g1, g2, g3}
    Putters = {p1, p2, p3}
    NonBlocking = {p3}
    Closers = {p1}
    SizeLimit = 3
    PutCount <- PutCounts
    Accepts <- Filters
SPECIFICATION Spec
INVARIANTS
    NoLostWakeup
    FifoPerFilter
    SizesHold
    NothingFoundInFuture
PROPERTIES
    EverybodyReturns
    ImplementsChannel
CHECK_DEADLOCK FALSE
