CONSTANTS
    Task = {t1, t2, t3}
    Boot = t1
    NoTask = NoTask
    Segments = 3
    StackBlocks = 3
    ExitCalls = TRUE
SPECIFICATION MCSpec
INVARIANTS NoProtocolPanic OnlyGapStrands OnlyWindowLosesWakeup LiveSegmentFindsTask
PROPERTIES SleeperReturns NoOvertaking
CHECK_DEADLOCK FALSE
