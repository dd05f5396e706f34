CONSTANTS
    M = 4
    N = 4
    K = 4
    TS = 2
    Resident = 1
    Platforms = 1
    Cuts = {3}
    MaxStarts = 2
SPECIFICATION HostSpec
INVARIANTS
    CellsRight
    ReportTrue
PROPERTIES
    ProgramEnds
CHECK_DEADLOCK FALSE
