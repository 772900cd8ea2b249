CONSTANTS
    Task = {t1, t2, t3}
    Null = Null
    Delays = {1, 4}
    Tick = 2
    WordSize = 8
SPECIFICATION FairClockSpec
INVARIANT QueueIntact
PROPERTY SleeperWoken
CHECK_DEADLOCK FALSE
