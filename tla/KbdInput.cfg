CONSTANTS
    c1 = c1
    c2 = c2
    idl = idl
    Threads <- MCThreads
    Idle = idl
    Main = c1
    BootReady <- MCBootReady
    Priority <- MCPriority
    Consumers = {c1}
    Producers = {}
    Bytes = {"l", "L", "ctrl+l", "ctrl+u"}
    Keys = {"l", "shift_l", "ctrl_r", "alt_r", "caps_lock"}
    keymap <- MCkeymap
    buffer_size = 3
    None = None
    MaxRead = 2
SPECIFICATION KbdFairSpec
INVARIANT ControlKeysReleased
PROPERTIES ImplementsFifo ReaderServed
