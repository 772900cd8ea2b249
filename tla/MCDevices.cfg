CONSTANTS
    BufSize = 3
    Key = {k1, k2}
    ShiftKey = {shift_l}
    Sizes = {1, 2}
    Task = {t1, t2, t3}
    Null = Null
    Delays = {1, 4}
    Tick = 2
    WordSize = 8
    Cap = 8
SYMMETRY Symmetry
SPECIFICATION DevicesSpec
INVARIANTS KeysArrive NothingForgotten OverdueOnlyIfMiscounted
PROPERTY EarlyOnlyIfMiscounted
CHECK_DEADLOCK FALSE
