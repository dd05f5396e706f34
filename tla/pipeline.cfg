CONSTANTS
    tw1 = tw1
    tw2 = tw2
    dw1 = dw1
    dw2 = dw2
    main = main
    noframe = noframe
    NoFrame = noframe
    Main = main
    TrackWorkers = {tw1, tw2}
    DetectWorkers = {dw1}
    TaskCnt = 4
    Period = 2
    WorkLimits = 2
SPECIFICATION PipelineSpec
INVARIANTS
    TrackInSequence
    NothingLostAtEnd
PROPERTIES
    Test4Returns
CHECK_DEADLOCK FALSE
