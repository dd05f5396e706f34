CONSTANTS
    c1 = c1
    c2 = c2
    c3 = c3
    acceptor = acceptor
    null = null
    garbage = garbage
    Client = {c1, c2}
    Acceptor = acceptor
    NoConn = null
    Garbage = garbage
    Script <- TextAndTest
    Chunks = 2
    Handles = 3
    Backlog = 1
    Unset = {}
    Nameless = {}
SPECIFICATION SafeSpec
INVARIANTS
    PassedIsComplete
CHECK_DEADLOCK FALSE
