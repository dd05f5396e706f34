CONSTANTS
    junk = junk
    Junk = junk
    Plan <- MixedPlan
    Room = 3
    Crowded = TRUE
SPECIFICATION TransferSpec
INVARIANTS
    AnswersAsSent
    EndIsTheEnd
PROPERTIES
    BothFinish
CHECK_DEADLOCK FALSE
