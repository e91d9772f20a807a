CONSTANTS
    Names = {a, b}
    Inodes = 5
    Blocks = 9
    Direct = 2
    PerBlock = 3
    MaxDepth = 2
    MaxCrash = 0
    MaxOpen = 2
SYMMETRY Symmetry
VIEW View
SPECIFICATION Spec
CHECK_DEADLOCK FALSE
INVARIANT InodesKept
