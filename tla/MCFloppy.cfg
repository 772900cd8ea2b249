CONSTANTS
    Task = {t1, t2}
    SEC = 2
    HD = 2
    CYL = 2
    Wanted = {1, 6}
    MaxRefusals = 1
SPECIFICATION Spec
INVARIANTS TypeOK RightUnlessFailed StrandedOnlyByRefusal
PROPERTY AloneReturns
CHECK_DEADLOCK FALSE
