CONSTANTS
    LimbBits = 4
    Nibble = 2
    SectorSize = 8
    SectorShift = 3
    Reserved = 1
    Fats = 2
    SectorsPerFat = 2
    RootEntries = 4
    EntrySize = 2
    EndMarks = 1
    Volumes <- MCVolumes
    Files <- MCFiles
    Resets = 2
    SectorsPerTrack = 3
    HeadCount = 2
    Caller = {t1, t2}
    Names <- MCNames
    kernel = kernel
    init = init
    other = other
    Positions = {6, 9}
    Counts = {2, 9}
SPECIFICATION MachineSpec
INVARIANTS MachineTypeOK KernelWhole ReadExact ScanRight
PROPERTY BootEnds
CHECK_DEADLOCK FALSE
