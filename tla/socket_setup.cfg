CONSTANTS
    Servers = {s1, s2}
    Callers = {c1}
    Backlog = 2
    MaxSockets = 4
SPECIFICATION Spec
INVARIANTS
    SetupLeaksNothing
    OnlyAServerCutsOff
    OnlyItsDoubleTurnsAway
SYMMETRY Symmetry
CHECK_DEADLOCK FALSE
