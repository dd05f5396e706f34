CONSTANTS
    Connectors = 3
    Crtcs = 2
    Cards <- MCCards
    Levels = 5
    Mods = {3}
    Rounds = 3
SPECIFICATION Spec
INVARIANTS
    CrtcsShared
    NothingLeaks
    ScreensRestored
PROPERTIES
    ColourMovesSmoothly
CHECK_DEADLOCK FALSE
