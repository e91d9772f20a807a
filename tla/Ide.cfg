CONSTANTS
    main = main
    p1 = p1
    idl = idl
    Threads <- MCThreads
    Idle = idl
    Main = main
    BootReady <- MCBootReady
    Priority <- MCPriority
    Clients = {main, p1}
    MaxChunks = 2
    MaxFaults = 2
    None = None
SPECIFICATION FairSpec
INVARIANTS DriveServesCaller NoStaleCompletion
PROPERTY ChannelReleased
