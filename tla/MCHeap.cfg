CONSTANTS
    Zones = 3
    Size <- MCSize
    Initial <- MCInitial
    Expand <- MCExpand
    Pool = 10
    ByteBits = 2
    First = 1
    OverBlock = 17
    Header = 2
SPECIFICATION HeapsSpec
INVARIANTS HeapsTypeOK NoOverlap MarksRight OutOfMemHonest UserHeapRight
CHECK_DEADLOCK FALSE
