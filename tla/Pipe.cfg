CONSTANTS
    r1 = r1
    w1 = w1
    w2 = w2
    idl = idl
    Threads <- MCThreads
    Idle = idl
    Main = r1
    BootReady <- MCBootReady
    Priority <- MCPriority
    Consumers = {r1}
    Producers = {w1, w2}
    Bytes = {a, b}
    buffer_size = 3
    None = None
    MaxCount = 4
SPECIFICATION FairSpec
INVARIANT ReadNeverBlocks
PROPERTIES ImplementsFifo SleeperWoken
