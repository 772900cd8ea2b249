CONSTANTS
    Task = {t1, t2}
    Boot = t1
    Line = {0, 6, 8, 9}
    MaxDepth = 4
SPECIFICATION Spec
INVARIANTS ReturnsRight LinesRight NeverHung
CHECK_DEADLOCK FALSE
