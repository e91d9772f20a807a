-------------------------------- MODULE Sync --------------------------------
(***************************************************************************)
(* Semaphores and recursive locks (src/thread/sync.c) on the scheduler.    *)
(*                                                                         *)
(* A lock is a binary semaphore, a holder and a repeat count.  sema_down   *)
(* and sema_up run with interrupts disabled; lock_acquire and lock_release *)
(* do not disable them, so a kernel thread can be preempted between any    *)
(* two of their statements, while a system call (entered through an        *)
(* interrupt gate) keeps interrupts off and loses the CPU only by          *)
(* blocking.  Both kinds of caller are modelled.                           *)
(*                                                                         *)
(* The control state of a thread is the next statement it executes:        *)
(*   out   outside the lock code            acq   lock_acquire's holder test *)
(*   down  call of sema_down                wait  back from thread_block   *)
(*   own   holder = me                      cnt   holder_repeat_nm = 1     *)
(*   inc   holder_repeat_nm++               cs    in the critical section  *)
(*   evt   blocked there for an interrupt   rel   lock_release             *)
(*   nul   holder = NULL                    up    call of sema_up          *)
(***************************************************************************)
EXTENDS Thread

CONSTANTS Locks,          \* the locks of the kernel
          KernelThreads,  \* threads that run kernel code with interrupts on
          None,           \* NULL
          MaxDepth        \* bound on nested lock_acquire calls of one thread

ASSUME SyncAssumption ==
    /\ KernelThreads \subseteq Threads
    /\ None \notin Threads \cup Locks
    /\ MaxDepth \in Nat \ {0}

VARIABLES value,    \* lock.semaphore.value
          waiters,  \* lock.semaphore.waiters
          holder,   \* lock.holder
          repeat,   \* lock.holder_repeat_nm
          pc,       \* where each thread is
          lk,       \* the lock it is using
          depth     \* its lock_acquire calls not yet matched by a release

syncVars == <<value, waiters, holder, repeat>>
callVars == <<pc, lk, depth>>
vars == <<threadVars, syncVars, callVars>>

PC == {"out", "acq", "down", "wait", "own", "cnt", "inc", "cs", "evt",
       "rel", "nul", "up"}

\* Type invariant: the semaphore is binary.
TypeOK ==
    /\ ThreadTypeOK
    /\ value \in [Locks -> {0, 1}]
    /\ waiters \in [Locks -> Seq(Threads)]
    /\ holder \in [Locks -> Threads \cup {None}]
    /\ repeat \in [Locks -> Nat]
    /\ pc \in [Threads -> PC]
    /\ lk \in [Threads -> Locks \cup {None}]
    /\ depth \in [Threads -> Nat]

\* lock_init on every lock.
Init ==
    /\ ThreadInit
    /\ value = [l \in Locks |-> 1]
    /\ waiters = [l \in Locks |-> <<>>]
    /\ holder = [l \in Locks |-> None]
    /\ repeat = [l \in Locks |-> 0]
    /\ pc = [t \in Threads |-> "out"]
    /\ lk = [t \in Threads |-> None]
    /\ depth = [t \in Threads |-> 0]

-----------------------------------------------------------------------------
\* EFLAGS.IF while t runs: on outside the kernel's lock code, on for a kernel
\* thread inside it, off once sema_down has blocked (its intr_disable) and
\* while a thread that blocked for an event has not run on.
IntrOn(t) ==
    \/ pc[t] = "out"
    \/ t \in KernelThreads /\ pc[t] \notin {"wait", "evt"}

At(t, label) == cur = t /\ pc[t] = label

Goto(t, label) == pc' = [pc EXCEPT ![t] = label]

\* lock_release returns to its caller: an enclosing critical section, if any.
Return(t) ==
    /\ Goto(t, IF depth[t] > 0 THEN "cs" ELSE "out")
    /\ lk' = IF depth[t] > 0 THEN lk ELSE [lk EXCEPT ![t] = None]

\* A thread calls lock_acquire(l): the first time, or again in its critical
\* section (sys_malloc holds the pool lock and calls malloc_page's callers).
CallAcquire(t, l) ==
    /\ cur = t /\ t # Idle
    /\ \/ pc[t] = "out"
       \/ pc[t] = "cs" /\ lk[t] = l /\ depth[t] < MaxDepth
    /\ lk' = [lk EXCEPT ![t] = l]
    /\ Goto(t, "acq")
    /\ UNCHANGED <<threadVars, syncVars, depth>>

\* Mutant: the test is for a holder, not for the caller as the holder.
lock_acquire_anyholder(t) ==
    /\ At(t, "acq")
    /\ Goto(t, IF holder[lk[t]] = None THEN "down" ELSE "inc")
    /\ UNCHANGED <<threadVars, syncVars, lk, depth>>

\* if (pLock->holder != get_running_thread_pcb())
lock_acquire(t) ==
    /\ At(t, "acq")
    /\ Goto(t, IF holder[lk[t]] # t THEN "down" ELSE "inc")
    /\ UNCHANGED <<threadVars, syncVars, lk, depth>>

\* sema_down finds the semaphore taken: into waiters, and block.  Back from
\* thread_block the loop tests value again.  (A thread still in waiters would
\* spin here for ever with interrupts off: no action, and TLC's deadlock.)
sema_down_block(t) ==
    /\ cur = t /\ pc[t] \in {"down", "wait"}
    /\ value[lk[t]] = 0
    /\ t \notin Range(waiters[lk[t]])
    /\ waiters' = [waiters EXCEPT ![lk[t]] = Append(@, t)]
    /\ thread_block("BLOCKED")
    /\ Goto(t, "wait")
    /\ UNCHANGED <<halted, value, holder, repeat, lk, depth>>

\* sema_down takes the semaphore.
sema_down_take(t) ==
    /\ cur = t /\ pc[t] \in {"down", "wait"}
    /\ value[lk[t]] > 0
    /\ value' = [value EXCEPT ![lk[t]] = @ - 1]
    /\ Goto(t, "own")
    /\ UNCHANGED <<threadVars, waiters, holder, repeat, lk, depth>>

\* pLock->holder = get_running_thread_pcb()
set_holder(t) ==
    /\ At(t, "own")
    /\ holder' = [holder EXCEPT ![lk[t]] = t]
    /\ Goto(t, "cnt")
    /\ UNCHANGED <<threadVars, value, waiters, repeat, lk, depth>>

\* pLock->holder_repeat_nm = 1, and lock_acquire returns.
set_repeat(t) ==
    /\ At(t, "cnt")
    /\ repeat' = [repeat EXCEPT ![lk[t]] = 1]
    /\ depth' = [depth EXCEPT ![t] = @ + 1]
    /\ Goto(t, "cs")
    /\ UNCHANGED <<threadVars, value, waiters, holder, lk>>

\* pLock->holder_repeat_nm++, and lock_acquire returns.
inc_repeat(t) ==
    /\ At(t, "inc")
    /\ repeat' = [repeat EXCEPT ![lk[t]] = @ + 1]
    /\ depth' = [depth EXCEPT ![t] = @ + 1]
    /\ Goto(t, "cs")
    /\ UNCHANGED <<threadVars, value, waiters, holder, lk>>

\* The holder blocks for something other than the lock: ide_read and
\* ide_write wait for the disk with the channel's lock held.
WaitEvent(t) ==
    /\ At(t, "cs")
    /\ thread_block("BLOCKED")
    /\ Goto(t, "evt")
    /\ UNCHANGED <<halted, syncVars, lk, depth>>

\* The interrupt that ends the wait.
Event(t) ==
    /\ IntrOn(cur)
    /\ pc[t] = "evt" /\ status[t] = "BLOCKED"
    /\ thread_unlock(t)
    /\ Interrupted
    /\ UNCHANGED <<cur, ticks, syncVars, callVars>>

EventReturn(t) ==
    /\ At(t, "evt")
    /\ Goto(t, "cs")
    /\ UNCHANGED <<threadVars, syncVars, lk, depth>>

\* The critical section, or its innermost nested part, ends.
CallRelease(t) ==
    /\ At(t, "cs")
    /\ depth' = [depth EXCEPT ![t] = @ - 1]
    /\ Goto(t, "rel")
    /\ UNCHANGED <<threadVars, syncVars, lk>>

\* lock_release up to holder_repeat_nm = 0: an inner release only counts.
lock_release(t) ==
    /\ At(t, "rel")
    /\ IF repeat[lk[t]] > 1
       THEN /\ repeat' = [repeat EXCEPT ![lk[t]] = @ - 1]
            /\ Return(t)
       ELSE /\ repeat' = [repeat EXCEPT ![lk[t]] = 0]
            /\ Goto(t, "nul")
            /\ UNCHANGED lk
    /\ UNCHANGED <<threadVars, value, waiters, holder, depth>>

\* pLock->holder = NULL
clear_holder(t) ==
    /\ At(t, "nul")
    /\ holder' = [holder EXCEPT ![lk[t]] = None]
    /\ Goto(t, "up")
    /\ UNCHANGED <<threadVars, value, waiters, repeat, lk, depth>>

\* The value sema_up leaves, when it wakes a waiter or none.  Mutant: the
\* semaphore is given to the woken thread without being counted.
ValueUp_handoff(l) == IF waiters[l] # <<>> THEN value[l] ELSE value[l] + 1
ValueUp(l) == value[l] + 1

\* Mutant: sema_up wakes the first waiter and leaves it in the list.
WakeWaiter_stays(l) ==
    IF waiters[l] # <<>>
    THEN thread_unlock(Head(waiters[l])) /\ UNCHANGED waiters
    ELSE UNCHANGED <<ready, status, waiters>>

\* Mutant: sema_up wakes nobody.
WakeWaiter_none(l) == UNCHANGED <<ready, status, waiters>>

\* sema_up pops the first waiter, if any, and wakes it.
WakeWaiter(l) ==
    IF waiters[l] # <<>>
    THEN /\ thread_unlock(Head(waiters[l]))
         /\ waiters' = [waiters EXCEPT ![l] = Tail(@)]
    ELSE UNCHANGED <<ready, status, waiters>>

\* sema_up: wake a waiter, then give the semaphore back.  The waiter is only
\* queued: whoever runs sema_down first gets the semaphore.
sema_up(t) ==
    /\ At(t, "up")
    /\ WakeWaiter(lk[t])
    /\ value' = [value EXCEPT ![lk[t]] = ValueUp(lk[t])]
    /\ Return(t)
    /\ UNCHANGED <<cur, ticks, halted, holder, repeat, depth>>

\* The timer interrupts the running thread when interrupts are on.
Timer ==
    /\ IntrOn(cur)
    /\ intr_timer_handler
    /\ UNCHANGED <<syncVars, callVars>>

IdleLoop == idle /\ UNCHANGED <<syncVars, callVars>>

\* One statement of the lock code.
LockCode(t) ==
    \/ lock_acquire(t) \/ sema_down_block(t) \/ sema_down_take(t)
    \/ set_holder(t) \/ set_repeat(t) \/ inc_repeat(t)
    \/ lock_release(t) \/ clear_holder(t) \/ sema_up(t)

Next ==
    \/ \E t \in Threads : \/ \E l \in Locks : CallAcquire(t, l)
                          \/ LockCode(t)
                          \/ WaitEvent(t) \/ Event(t) \/ EventReturn(t)
                          \/ CallRelease(t)
    \/ Timer
    \/ IdleLoop

Spec == Init /\ [][Next]_vars

-----------------------------------------------------------------------------
\* t is between the return of a lock_acquire(l) and the matching release.
InSection(t, l) == lk[t] = l /\ depth[t] > 0

\* t has taken the semaphore of l and not given it back.
HasToken(t, l) ==
    /\ lk[t] = l
    /\ \/ pc[t] \in {"own", "cnt", "inc", "cs", "evt", "rel", "nul", "up"}
       \/ pc[t] = "acq" /\ depth[t] > 0

\* Mutual exclusion: two threads are never both between the return of
\* sema_down and the sema_up of the same lock, however they are preempted
\* inside lock_acquire and lock_release.
MutualExclusion ==
    \A l \in Locks : \A t, u \in Threads :
        HasToken(t, l) /\ HasToken(u, l) => t = u

\* The semaphore is free exactly when nobody has taken it: sema_up's assert
\* (value == 0) holds, and no token is lost or made up.
ValueCounts ==
    \A l \in Locks : value[l] = 0 <=> \E t \in Threads : HasToken(t, l)

\* The holder field names the thread that has the lock, from the statement
\* that sets it to the one that clears it, and the repeat count is its number
\* of acquisitions; so the holder test of lock_acquire and the assert and the
\* count test of lock_release decide correctly.
HolderCounts ==
    \A t \in Threads : \A l \in Locks :
        /\ holder[l] = t <=>
              /\ lk[t] = l
              /\ \/ pc[t] \in {"cnt", "inc", "cs", "evt", "rel", "nul"}
                 \/ pc[t] = "acq" /\ depth[t] > 0
        /\ InSection(t, l) /\ pc[t] # "rel" => repeat[l] = depth[t]
        /\ lk[t] = l /\ pc[t] = "rel" => repeat[l] = depth[t] + 1

\* The three fields of a lock agree with the calls the threads have made, at
\* every statement of lock_acquire and lock_release.
LockAccounts == ValueCounts /\ HolderCounts

\* Where a thread is in the lock code agrees with the calls it has made: no
\* lock_release returns into a critical section the thread has left.
CallState ==
    \A t \in Threads :
        /\ pc[t] = "out" <=> lk[t] = None
        /\ pc[t] \in {"out", "down", "wait", "own", "cnt", "nul", "up"} =>
              depth[t] = 0
        /\ pc[t] \in {"inc", "cs", "evt"} => depth[t] > 0

\* The general_tag of a PCB, shared by the ready list and every waiters list,
\* is linked in at most one place, and the running thread's in none.  Who is in
\* a waiters list sleeps there for that lock: the asserts of thread_unlock hold
\* when sema_up wakes it.
TagLinkedOnce ==
    /\ IsInjective(ready)
    /\ cur \notin Range(ready)
    /\ \A l \in Locks :
        /\ IsInjective(waiters[l])
        /\ cur \notin Range(waiters[l])
        /\ Range(ready) \cap Range(waiters[l]) = {}
        /\ \A m \in Locks \ {l} : Range(waiters[l]) \cap Range(waiters[m]) = {}
        /\ \A t \in Range(waiters[l]) :
              status[t] = "BLOCKED" /\ pc[t] = "wait" /\ lk[t] = l

\* No wake-up is lost: while a free lock still has waiters, a thread already
\* woken for it is on its way to try again.
NoLostWakeup ==
    \A l \in Locks :
        (value[l] = 1 /\ waiters[l] # <<>>) =>
            \E t \in Threads : /\ pc[t] = "wait" /\ lk[t] = l
                               /\ t = cur \/ t \in Range(ready)

\* The owner and nesting depth of each lock, as its callers see them.
Owner == [l \in Locks |->
            IF \E t \in Threads : InSection(t, l)
            THEN CHOOSE t \in Threads : InSection(t, l) ELSE None]
Count == [l \in Locks |-> IF Owner[l] = None THEN 0 ELSE depth[Owner[l]]]

L == INSTANCE RecursiveLock WITH owner <- Owner, count <- Count

\* The locks of sync.c implement recursive locks: a call of lock_acquire
\* returns only when no other thread is inside, and an inner lock_release
\* lets nobody in.
ImplementsLock == L!Spec

=============================================================================
