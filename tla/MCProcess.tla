----------------------------- MODULE MCProcess -----------------------------
EXTENDS Process

CONSTANTS init, main, idl, p1, p2, p3

MCThreads == {init, main, idl, p1, p2, p3}
MCBootReady == <<init, idl>>
MCPriority == [t \in Threads |-> 0]
=============================================================================
