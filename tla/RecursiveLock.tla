--------------------------- MODULE RecursiveLock ---------------------------
(***************************************************************************)
(* What a kernel lock promises its callers: at any time a lock has at most *)
(* one owner, who may acquire it again and owns it until as many releases. *)
(***************************************************************************)
EXTENDS Naturals

CONSTANTS Threads, Locks, None

VARIABLES owner,  \* the thread in the lock's critical section, or None
          count   \* how often it has acquired the lock

vars == <<owner, count>>

Init ==
    /\ owner = [l \in Locks |-> None]
    /\ count = [l \in Locks |-> 0]

Acquire(t, l) ==
    /\ owner[l] \in {None, t}
    /\ owner' = [owner EXCEPT ![l] = t]
    /\ count' = [count EXCEPT ![l] = @ + 1]

Release(t, l) ==
    /\ owner[l] = t
    /\ owner' = [owner EXCEPT ![l] = IF count[l] = 1 THEN None ELSE t]
    /\ count' = [count EXCEPT ![l] = @ - 1]

Next == \E t \in Threads, l \in Locks : Acquire(t, l) \/ Release(t, l)

Spec == Init /\ [][Next]_vars
=============================================================================
