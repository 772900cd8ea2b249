CONSTANTS
    LimbBits = 2
    Task = {t1, t2}
    Handle = {h1, h2}
    Null = Null
    Buffer = {b1, b2, b3, b4}
    Exponent = 1
    Blocks = 3
    CachedBlocks = 2
    Sizes = {1, 3}
SPECIFICATION Spec
SYMMETRY Symmetry
INVARIANTS TypeOK CacheCoherent BuffersAccounted
PROPERTY ReadsTheDisk
CHECK_DEADLOCK FALSE
