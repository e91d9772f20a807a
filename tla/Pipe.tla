-------------------------------- MODULE Pipe --------------------------------
(***************************************************************************)
(* Pipes (src/shell/pipe.c): pipe_write and pipe_read move as many         *)
(* characters through a pipe's ioqueue as they find room for, or find.     *)
(***************************************************************************)
EXTENDS IoQueue, FiniteSetsExt

CONSTANT MaxCount  \* bound on the count of one read or write

vars == <<threadVars, queueVars>>

Init == ThreadInit /\ ioqueue_init

\* write to a pipe: the smaller of count and the room left is written, where
\* the room is taken to be buffer_size minus the length.
pipe_write(t) ==
    /\ t \in Producers
    /\ \E count \in 1..MaxCount :
          Enter(t, Min({buffer_size - ioq_length, count}))

\* Mutant: count characters are read whatever the length.
pipe_read_count(t) ==
    /\ t \in Consumers
    /\ \E count \in 1..MaxCount : Enter(t, count)

\* read from a pipe: the smaller of count and the length.  An empty pipe is
\* an error return and changes nothing.
pipe_read(t) ==
    /\ t \in Consumers
    /\ \E count \in 1..MaxCount : Enter(t, Min({ioq_length, count}))

Next ==
    \/ \E t \in Threads : pipe_write(t) \/ pipe_read(t) \/ QueueCode(t)
    \/ Timer
    \/ IdleLoop

Spec == Init /\ [][Next]_vars

(***************************************************************************)
(* The CPU executes queue code, which nothing interrupts; the timer ticks; *)
(* and every reader keeps reading (read programs loop until the end).      *)
(***************************************************************************)
FairSpec ==
    /\ Spec
    /\ SF_vars(Timer)
    /\ WF_vars(IdleLoop)
    /\ \A t \in Threads : WF_vars(QueueCode(t))
    /\ \A t \in Consumers : SF_vars(pipe_read(t))

-----------------------------------------------------------------------------
Blocked(t) == pc[t] \in {"lock", "lockwait", "slept"}

\* pipe_read never blocks, as its comment says: the characters it has counted
\* are still there when it takes them.
ReadNeverBlocks == \A t \in Consumers : ~Blocked(t)

\* A writer that does block is woken: while readers keep reading, no writer
\* sleeps for ever, although a writer that waited for the lock goes to sleep
\* without looking at the queue again.  (It need not be the next to write: a
\* writer that was woken can take the lock again before one that waits.)
SleeperWoken == producer # None ~> producer = None

=============================================================================
