CONSTANTS
    main = main
    init = init
    w1 = w1
    idl = idl
    Threads <- MCThreads
    Idle = idl
    Main = main
    BootReady <- MCBootReady
    Priority <- MCPriority
SPECIFICATION SchedFairSpec
INVARIANTS IdleAvailable ReadyIffRunnable
PROPERTY QueuedThreadRuns
