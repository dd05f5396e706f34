CONSTANTS
    c1 = c1
    c2 = c2
    c3 = c3
    acceptor = acceptor
    null = null
    garbage = garbage
    Client = {c1, c2, c3}
    Acceptor = acceptor
    NoConn = null
    Garbage = garbage
    Script <- BrokenTest
    Chunks = 2
    Handles = 3
    Backlog = 1
    Unset = {1, 3}
    Nameless = {c3}
SPECIFICATION Spec
INVARIANTS
    DescriptorsAgree
    EventsAreFresh
    OnlyTestsAndHangUpsKill
PROPERTIES
    EverybodyIsServed
CHECK_DEADLOCK FALSE
