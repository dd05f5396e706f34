CONSTANTS
    Clients = {c1, c2}
    Handles = {h1, h2, h3}
    Capacity = 2
    MaxBytes = 3
    MaxWant = 2
    MaxQueue = 2
SPECIFICATION Spec
INVARIANTS
    ByteStream
    PacketsHaveOwners
    OneReadEach
    AcceptorIsArmed
PROPERTIES
    HangUpIsNoticed
CHECK_DEADLOCK FALSE
