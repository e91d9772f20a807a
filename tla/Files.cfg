CONSTANTS
    Procs = {sh, p1, p2}
    Shell = sh
    FileSet = {f, g}
    Names = {a, b}
    Slots = 3
    Fds = 2
    Objects = 4
    MaxCalls = 4
SYMMETRY Symmetry
SPECIFICATION Spec
CHECK_DEADLOCK FALSE
INVARIANTS
    DescriptorsRight
    SlotsAlive
    OneWriter
    SlotsHeld
