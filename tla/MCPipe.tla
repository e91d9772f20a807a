------------------------------- MODULE MCPipe -------------------------------
EXTENDS Pipe

CONSTANTS r1, w1, w2, idl

MCThreads == {r1, w1, w2, idl}
MCBootReady == <<idl, w1, w2>>
MCPriority == [t \in Threads |-> 0]
=============================================================================
