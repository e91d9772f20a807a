------------------------------- MODULE MCIde -------------------------------
EXTENDS Ide

CONSTANTS main, p1, idl

MCThreads == {main, p1, idl}
MCBootReady == <<p1, idl>>
MCPriority == [t \in Threads |-> 0]
=============================================================================
