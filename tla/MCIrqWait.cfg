CONSTANTS
    Task = {a, b, c}
    NoTask = NoTask
    Blocks = 4
SPECIFICATION FairSpec
INVARIANTS NoWaiterLost OnlyRaceBreaksList
PROPERTY WaiterWoken
CHECK_DEADLOCK FALSE
