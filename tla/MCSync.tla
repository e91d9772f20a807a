------------------------------- MODULE MCSync -------------------------------
EXTENDS Sync

CONSTANTS main, p1, p2, idl

MCThreads == {main, p1, p2, idl}
MCBootReady == <<p1, idl, p2>>
MCPriority == [t \in Threads |-> IF t = main THEN 1 ELSE 0]
=============================================================================
