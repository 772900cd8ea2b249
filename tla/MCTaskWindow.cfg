CONSTANTS
    Task = {t1, t2}
    Boot = t1
    NoTask = NoTask
    Segments = 2
    StackBlocks = 2
    ExitCalls = FALSE
SPECIFICATION Spec
INVARIANT NoSleepWithoutEvent
CHECK_DEADLOCK FALSE
