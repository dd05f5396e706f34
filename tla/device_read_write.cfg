CONSTANTS
    r1 = r1
    r2 = r2
    r3 = r3
    w1 = w1
    w2 = w2
    nobody = nobody
    NoThread = nobody
    Readers = {r1, r2, r3}
    Writers = {w1}
    NonBlock = {r3}
    BufferSize = 2
    ReadSizes = {1, 2}
    WriteSizes = {0, 1, 2, 3}
    Faults = {r1, w1}
    MaxWrites = 2
SPECIFICATION Spec
INVARIANTS
    SleeperNotForgotten
    ReadsAreRight
    LastWriteReadable
PROPERTIES
    WaitEnds
CHECK_DEADLOCK FALSE
