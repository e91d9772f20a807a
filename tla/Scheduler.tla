----------------------------- MODULE Scheduler -----------------------------
(***************************************************************************)
(* The scheduler under every sequence of calls its clients make: threads   *)
(* block themselves (semaphores, wait, exit), wake others, yield, start    *)
(* and exit threads, and the timer interrupts any of them.                 *)
(***************************************************************************)
EXTENDS Thread

SchedInit == ThreadInit

\* The running thread blocks: sema_down and ioq_wait (BLOCKED), sys_wait
\* (WAITING) and sys_exit (HANGING).
Block(state) ==
    /\ cur # Idle
    /\ thread_block(state)
    /\ UNCHANGED halted

\* sema_up, ioq_wakeup and sys_exit wake a thread.  They reach it through a
\* waiters list, an ioqueue's producer or consumer field, or its WAITING
\* status; idle_thread is in none of these.
Wake(t) ==
    /\ cur # Idle
    /\ t # Idle
    /\ status[t] \in {"BLOCKED", "WAITING"}
    /\ thread_unlock(t)
    /\ UNCHANGED <<cur, ticks, halted>>

\* The same from an interrupt handler: the disk's sema_up, the keyboard's
\* ioq_putchar.  It interrupts any thread, the idle thread too.
WakeFromInterrupt(t) ==
    /\ t # Idle
    /\ status[t] = "BLOCKED"
    /\ thread_unlock(t)
    /\ Interrupted
    /\ UNCHANGED <<cur, ticks>>

Yield ==
    /\ cur # Idle
    /\ thread_yield
    /\ UNCHANGED halted

Start(t) ==
    /\ cur # Idle
    /\ status[t] = "DIED" /\ t # Main
    /\ thread_start(t)
    /\ UNCHANGED halted

\* main() ends with thread_exit(self, TRUE).
ExitSelf ==
    /\ cur # Idle
    /\ thread_exit(cur, TRUE)
    /\ UNCHANGED halted

\* sys_wait reaps a HANGING child with thread_exit(child, FALSE).
Reap(t) ==
    /\ cur # Idle
    /\ status[t] = "HANGING"
    /\ thread_exit(t, FALSE)
    /\ UNCHANGED halted

SchedTimer == intr_timer_handler

SchedNext ==
    \/ \E state \in {"BLOCKED", "WAITING", "HANGING"} : Block(state)
    \/ \E t \in Threads : \/ Wake(t)
                          \/ WakeFromInterrupt(t)
                          \/ Start(t)
                          \/ Reap(t)
    \/ Yield
    \/ ExitSelf
    \/ SchedTimer
    \/ idle

SchedSpec == SchedInit /\ [][SchedNext]_threadVars

(***************************************************************************)
(* The only fairness is the clock's: timer interrupts keep arriving.       *)
(***************************************************************************)
SchedFairSpec == SchedSpec /\ WF_threadVars(SchedTimer)

-----------------------------------------------------------------------------
\* No thread is lost and none runs that should not: the threads in the ready
\* list are exactly those, the running one aside, whose status says they may
\* run.  thread_unlock leaves a queued thread with status RUNNING.
ReadyIffRunnable ==
    /\ status[cur] = "RUNNING"
    /\ \A t \in Threads \ {cur} :
          t \in Range(ready) <=> status[t] \in {"READY", "RUNNING"}

\* When schedule() finds the ready list empty it may wake the idle thread:
\* the assert of thread_unlock holds unless idle is the running thread, in
\* which case idle itself has just become BLOCKED or is requeued.
IdleAvailable ==
    (ready = <<>> /\ cur # Idle) => status[Idle] = "BLOCKED"

\* No starvation on the ready list: although woken threads are pushed to its
\* front, a queued thread is eventually switched to, because only an expired
\* time slice is refilled and the expired thread goes to the tail.
QueuedThreadRuns == \A t \in Threads : t \in Range(ready) ~> cur = t

=============================================================================
