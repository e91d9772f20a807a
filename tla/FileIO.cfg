CONSTANTS
    Files = {f, g}
    BLOCK_SIZE = 2
    Direct = 2
    Indirect = 2
    Blocks = 12
    MaxCount = 3
    MaxOpen = 1
    MaxReborn = 1
SPECIFICATION Spec
SYMMETRY Symmetry
CHECK_DEADLOCK FALSE
INVARIANTS
    ReadReturnsWritten
    BlocksAccounted
    PosInFile
    PanicOnlyAtLimit
