CONSTANTS
    Names = {a, b}
    Inodes = 3
    Blocks = 7
    Direct = 2
    PerBlock = 3
    MaxDepth = 2
    MaxCrash = 1
    MaxOpen = 2
SYMMETRY Symmetry
VIEW View
SPECIFICATION Spec
CHECK_DEADLOCK FALSE
INVARIANTS
    DiskSound
    NothingLost
    CountsExact
    GetcwdRight
PROPERTY ImplementsTree
