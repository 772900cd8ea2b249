CONSTANTS
    Task = {t1, t2}
    Boot = t1
    Null = Null
    present = present
    missing = missing
    Devices = {}
    Names = {present, missing}
    Files <- MCFiles
    FatNodes = {f1, f2}
    Modes <- MCModes
    TableStep = 1
    MaxHandles = 2
    MaxTrees = 1
SPECIFICATION Spec
SYMMETRY Symmetry
INVARIANTS TypeOK CountsMatch WriterAlone
PROPERTY HandlesKept
CHECK_DEADLOCK FALSE
