------------------------------ MODULE IoQueue ------------------------------
(***************************************************************************)
(* The ring buffer of src/device/ioqueue.c and the sleeping and waking of  *)
(* the threads that use it.  KbdInput and Pipe are its two users.          *)
(*                                                                         *)
(* ioq_getchar and ioq_putchar run with interrupts off: a thread inside    *)
(* them loses the CPU only where it blocks.  The labels are those points   *)
(* and the steps between them:                                             *)
(*   user      outside (interrupts on)                                     *)
(*   test      the while condition, and the transfer when it is false      *)
(*   lock      lock_acquire, then ioq_wait                                 *)
(*   lockwait  blocked in lock_acquire's sema_down                         *)
(*   slept     blocked in ioq_wait, with the queue's lock held             *)
(* With interrupts off the lock is the pair of its holder and its waiters: *)
(* Sync shows that the semaphore is free exactly when there is no holder.  *)
(***************************************************************************)
EXTENDS Thread

CONSTANTS Consumers,    \* threads that call ioq_getchar
          Producers,    \* threads that call ioq_putchar
          Bytes,        \* the characters
          buffer_size,  \* 64 in ioqueue.h
          None          \* NULL

ASSUME QueueAssumption ==
    /\ Consumers \cup Producers \subseteq Threads \ {Idle}
    /\ Consumers \cap Producers = {}
    /\ buffer_size \in Nat /\ buffer_size > 1
    /\ None \notin Threads
    /\ Bytes # {}

VARIABLES head, tail,           \* write and read index
          buffer,
          producer, consumer,   \* the sleeping thread of each kind, or None
          holder, waiters,      \* the queue's lock
          pc,
          left,                 \* characters the thread's call has still to move
          out                   \* the character handed out last

ringVars == <<head, tail, buffer, out>>
waitVars == <<producer, consumer, holder, waiters>>
callVars == <<pc, left>>
queueVars == <<ringVars, waitVars, callVars>>

QueueTypeOK ==
    /\ head \in 0..buffer_size - 1
    /\ tail \in 0..buffer_size - 1
    /\ buffer \in [0..buffer_size - 1 -> Bytes]
    /\ producer \in Producers \cup {None}
    /\ consumer \in Consumers \cup {None}
    /\ holder \in Threads \cup {None}
    /\ waiters \in Seq(Threads)
    /\ pc \in [Threads -> {"user", "test", "lock", "lockwait", "slept"}]
    /\ left \in [Threads -> Nat]
    /\ out \in Bytes

\* ioqueue_init.  What the buffer holds before the first character is never
\* looked at.
ioqueue_init ==
    /\ head = 0
    /\ tail = 0
    /\ out = CHOOSE b \in Bytes : TRUE
    /\ buffer = [i \in 0..buffer_size - 1 |-> out]
    /\ producer = None
    /\ consumer = None
    /\ holder = None
    /\ waiters = <<>>
    /\ pc = [t \in Threads |-> "user"]
    /\ left = [t \in Threads |-> 0]

-----------------------------------------------------------------------------

next_pos(pos) == (pos + 1) % buffer_size

ioq_full == next_pos(head) = tail

ioq_empty == head = tail

ioq_length ==
    IF head >= tail THEN head - tail ELSE buffer_size - (tail - head)

At(t, labels) == cur = t /\ pc[t] \in labels

\* One character of the call is moved; the call returns with the last one.
Moved(t) ==
    /\ left' = [left EXCEPT ![t] = @ - 1]
    /\ pc' = [pc EXCEPT ![t] = IF left[t] = 1 THEN "user" ELSE "test"]

\* Mutant: the field will be cleared, and the sleeper is not woken.
ioq_wakeup_none(sleeper) == UNCHANGED <<ready, status>>

\* ioq_wakeup on the producer or consumer field, if it is set.
ioq_wakeup(sleeper) ==
    IF sleeper # None THEN thread_unlock(sleeper) ELSE UNCHANGED <<ready, status>>

\* Store a character and wake the sleeping consumer.
PutByte(b) ==
    /\ buffer' = [buffer EXCEPT ![head] = b]
    /\ head' = next_pos(head)
    /\ ioq_wakeup(consumer)
    /\ consumer' = None
    /\ UNCHANGED <<cur, ticks, tail, out, producer, holder, waiters>>

\* Mutant: nobody is told of the free slot.
ioq_getchar_silent(t) ==
    /\ At(t, {"test"}) /\ t \in Consumers
    /\ ~ioq_empty
    /\ out' = buffer[tail]
    /\ tail' = next_pos(tail)
    /\ Moved(t)
    /\ UNCHANGED <<threadVars, head, buffer, waitVars>>

\* ioq_getchar past its loop: take a character, wake the sleeping producer.
ioq_getchar(t) ==
    /\ At(t, {"test"}) /\ t \in Consumers
    /\ ~ioq_empty
    /\ out' = buffer[tail]
    /\ tail' = next_pos(tail)
    /\ ioq_wakeup(producer)
    /\ producer' = None
    /\ Moved(t)
    /\ UNCHANGED <<cur, ticks, halted, head, buffer, consumer, holder, waiters>>

\* Mutant: a full queue is not noticed.
ioq_putchar_overrun(t) ==
    /\ At(t, {"test"}) /\ t \in Producers
    /\ \E b \in Bytes : PutByte(b)
    /\ Moved(t)
    /\ UNCHANGED halted

\* ioq_putchar past its loop.
ioq_putchar(t) ==
    /\ At(t, {"test"}) /\ t \in Producers
    /\ ~ioq_full
    /\ \E b \in Bytes : PutByte(b)
    /\ Moved(t)
    /\ UNCHANGED halted

\* The while condition of either function holds.
MustWait(t) ==
    /\ At(t, {"test"})
    /\ IF t \in Consumers THEN ioq_empty ELSE ioq_full
    /\ pc' = [pc EXCEPT ![t] = "lock"]
    /\ UNCHANGED <<threadVars, ringVars, waitVars, left>>

\* lock_acquire gets the lock and ioq_wait registers the thread and blocks.
\* Whether there is anything to wait for is not looked at again.
ioq_wait(t) ==
    /\ At(t, {"lock", "lockwait"})
    /\ holder = None
    /\ holder' = t
    /\ IF t \in Consumers THEN consumer' = t /\ UNCHANGED producer
                          ELSE producer' = t /\ UNCHANGED consumer
    /\ thread_block("BLOCKED")
    /\ pc' = [pc EXCEPT ![t] = "slept"]
    /\ UNCHANGED <<halted, ringVars, waiters, left>>

\* lock_acquire finds the lock taken.
LockWait(t) ==
    /\ At(t, {"lock", "lockwait"})
    /\ holder # None
    /\ waiters' = Append(waiters, t)
    /\ thread_block("BLOCKED")
    /\ pc' = [pc EXCEPT ![t] = "lockwait"]
    /\ UNCHANGED <<halted, ringVars, producer, consumer, holder, left>>

\* Back from ioq_wait: lock_release, which wakes the first thread waiting for
\* the lock, and back to the while condition.
LockRelease(t) ==
    /\ At(t, {"slept"})
    /\ holder' = None
    /\ IF waiters # <<>>
       THEN thread_unlock(Head(waiters)) /\ waiters' = Tail(waiters)
       ELSE UNCHANGED <<ready, status, waiters>>
    /\ pc' = [pc EXCEPT ![t] = "test"]
    /\ UNCHANGED <<cur, ticks, halted, ringVars, producer, consumer, left>>

QueueCode(t) ==
    \/ ioq_getchar(t) \/ ioq_putchar(t) \/ MustWait(t)
    \/ ioq_wait(t) \/ LockWait(t) \/ LockRelease(t)

\* A thread calls into the queue code to move n characters; a call for none
\* returns at once.
Enter(t, n) ==
    /\ At(t, {"user"})
    /\ n > 0
    /\ left' = [left EXCEPT ![t] = n]
    /\ pc' = [pc EXCEPT ![t] = "test"]
    /\ UNCHANGED <<threadVars, ringVars, waitVars>>

\* Interrupts are on outside system calls only.
IntrOn == pc[cur] = "user"

Timer == IntrOn /\ intr_timer_handler /\ UNCHANGED queueVars

IdleLoop == idle /\ UNCHANGED queueVars

-----------------------------------------------------------------------------
\* The characters in the ring, oldest first.
Content == [i \in 1..ioq_length |-> buffer[(tail + i - 1) % buffer_size]]

F == INSTANCE Fifo WITH Capacity <- buffer_size - 1, q <- Content

\* The ring buffer implements a bounded FIFO queue: no character is lost,
\* repeated, reordered or overwritten, whoever is woken or interrupted when.
ImplementsFifo == F!Spec

=============================================================================
