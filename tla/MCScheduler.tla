---------------------------- MODULE MCScheduler ----------------------------
EXTENDS Scheduler

CONSTANTS main, init, w1, idl

MCThreads == {main, init, w1, idl}
MCBootReady == <<init, idl>>
MCPriority == [t \in MCThreads |-> IF t = idl THEN 0 ELSE 1]
=============================================================================
