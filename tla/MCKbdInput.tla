----------------------------- MODULE MCKbdInput -----------------------------
EXTENDS KbdInput

CONSTANTS c1, c2, idl

MCThreads == {c1, c2, idl}
MCBootReady == <<idl, c2>>
MCPriority == [t \in Threads |-> 0]
MCkeymap == [k \in {"l"} |-> [shift \in BOOLEAN |-> IF shift THEN "L" ELSE "l"]]
=============================================================================
