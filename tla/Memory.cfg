CONSTANTS
    Kernel = Kernel
    Procs = {init, p1}
    InitProc = init
    KFrames = 17
    UFrames = 8
    KPages = 14
    HeapPages = 3
    BitmapPages = 2
    BlocksPerArena = 2
    LargeSizes = {2}
    MaxMallocs = 3
    MaxForks = 2
    None = None
SPECIFICATION Spec
INVARIANTS FramesOwnedOnce FramesReturned MappedIffReserved HeapPartition
CHECK_DEADLOCK FALSE
