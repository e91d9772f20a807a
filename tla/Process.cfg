CONSTANTS
    init = init
    main = main
    idl = idl
    p1 = p1
    p2 = p2
    p3 = p3
    Threads <- MCThreads
    Idle = idl
    Main = main
    InitProc = init
    BootReady <- MCBootReady
    Priority <- MCPriority
    MaxPid = 5
SPECIFICATION FairSpec
INVARIANTS PidsUnique ParentAlive ListsAgree
PROPERTY WaitReturns
