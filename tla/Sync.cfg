CONSTANTS
    main = main
    p1 = p1
    p2 = p2
    idl = idl
    Threads <- MCThreads
    Idle = idl
    Main = main
    BootReady <- MCBootReady
    Priority <- MCPriority
    Locks = {l1, l2}
    KernelThreads = {main, p1}
    None = None
    MaxDepth = 2
SPECIFICATION Spec
INVARIANTS MutualExclusion LockAccounts TagLinkedOnce NoLostWakeup
PROPERTY ImplementsLock
