------------------------------- MODULE Thread -------------------------------
(***************************************************************************)
(* Threads and the scheduler (src/thread/thread.c, src/device/timer.c).    *)
(*                                                                         *)
(* One CPU runs the thread cur; the ready list is thread_ready_list, a     *)
(* list of the general_tag nodes of the PCBs.  Every function of thread.c  *)
(* runs with interrupts disabled from its first to its last change of      *)
(* shared state, so each one is one step.  schedule() is called by them    *)
(* and by the timer; it is an operator on the status map and the ready     *)
(* list its caller has prepared.                                           *)
(***************************************************************************)
EXTENDS Naturals, Sequences, SequencesExt

CONSTANTS Threads,      \* the PCBs, the idle thread's included
          Idle,         \* idle_thread
          Main,         \* main_thread_struct, running when interrupts go on
          BootReady,    \* thread_ready_list when interrupts go on
          Priority      \* task_struct.priority, the length of a time slice

ASSUME BootAssumption ==
    /\ Idle \in Threads
    /\ Main \in Threads \ {Idle}
    /\ BootReady \in Seq(Threads \ {Main})
    /\ IsInjective(BootReady)
    /\ Idle \in Range(BootReady)

ASSUME PriorityAssumption == Priority \in [Threads -> Nat]

VARIABLES cur,     \* the thread on the CPU (get_running_thread_pcb)
          ready,   \* thread_ready_list
          status,  \* task_struct.status; "DIED" also stands for no PCB
          ticks,   \* task_struct.ticks, what is left of the time slice
          halted   \* the idle thread's next instruction is its hlt

threadVars == <<cur, ready, status, ticks, halted>>

TaskStatus == {"RUNNING", "READY", "BLOCKED", "WAITING", "HANGING", "DIED"}

ThreadTypeOK ==
    /\ cur \in Threads
    /\ ready \in Seq(Threads)
    /\ status \in [Threads -> TaskStatus]
    /\ ticks \in [Threads -> Nat]
    /\ halted \in BOOLEAN

(***************************************************************************)
(* init_main_thread and the thread_start / process_execute calls it makes. *)
(***************************************************************************)
ThreadInit ==
    /\ cur = Main
    /\ ready = BootReady
    /\ status = [t \in Threads |->
                    IF t = Main THEN "RUNNING"
                    ELSE IF t \in Range(BootReady) THEN "READY" ELSE "DIED"]
    /\ ticks = Priority
    /\ halted = FALSE

-----------------------------------------------------------------------------
\* list_push: the general_tag of t goes to the front of the list rd.
list_push(rd, t) == Cons(t, rd)

\* thread_unlock's status write: RUNNING, although t is only queued.
Unlocked(st, t) == [st EXCEPT ![t] = "RUNNING"]

\* Mutant: schedule() refills the time slice of every caller.
TimeSliceAlways(st) == [ticks EXCEPT ![cur] = Priority[cur]]

\* schedule() refills the time slice of a caller that could have run on.
TimeSlice(st) ==
    IF st[cur] = "RUNNING" THEN [ticks EXCEPT ![cur] = Priority[cur]] ELSE ticks

\* schedule(): a running caller is requeued at the tail with a fresh time
\* slice, an empty ready list gets the idle thread (thread_unlock), and the
\* head of the list is switched to.
schedule(st, rd) ==
    LET preempted == st[cur] = "RUNNING"
        rd1 == IF preempted THEN Append(rd, cur) ELSE rd
        st1 == IF preempted THEN [st EXCEPT ![cur] = "READY"] ELSE st
        rd2 == IF rd1 = <<>> THEN list_push(rd1, Idle) ELSE rd1
        next_thread == Head(rd2)
    IN  /\ ticks' = TimeSlice(st)
        /\ ready' = Tail(rd2)
        /\ status' = [st1 EXCEPT ![next_thread] = "RUNNING"]
        /\ cur' = next_thread

\* thread_block(state) by the running thread.
thread_block(state) ==
    schedule([status EXCEPT ![cur] = state], ready)

\* Mutant: thread_unlock writes the status and forgets the ready list.
thread_unlock_unlinked(t) ==
    /\ status' = Unlocked(status, t)
    /\ UNCHANGED ready

\* thread_unlock(t): to the front of the ready list.
thread_unlock(t) ==
    /\ ready' = list_push(ready, t)
    /\ status' = Unlocked(status, t)

\* thread_yield(): to the tail; the time slice is not refilled.
thread_yield ==
    schedule([status EXCEPT ![cur] = "READY"], Append(ready, cur))

\* thread_start(), and fork's add_list: a new PCB at the tail of the list.
thread_start(t) ==
    /\ ready' = Append(ready, t)
    /\ status' = [status EXCEPT ![t] = "READY"]
    /\ ticks' = [ticks EXCEPT ![t] = Priority[t]]
    /\ UNCHANGED cur

\* thread_exit(t, need_schedule): the PCB leaves the lists and is freed; a
\* thread that exits itself never runs again.
thread_exit(t, need_schedule) ==
    LET st == [status EXCEPT ![t] = "DIED"]
        rd == RemoveFirst(ready, t)   \* list_elem_find, list_remove
    IN  IF need_schedule
        THEN schedule(st, rd)
        ELSE /\ ready' = rd
             /\ status' = st
             /\ UNCHANGED <<cur, ticks>>

\* An interrupt that finds the idle thread in hlt sends it back to its loop.
Interrupted == halted' = (halted /\ cur # Idle)

\* intr_timer_handler: count the slice down, reschedule at its end.
intr_timer_handler ==
    /\ Interrupted
    /\ IF ticks[cur] = 0
       THEN schedule(status, ready)
       ELSE /\ ticks' = [ticks EXCEPT ![cur] = @ - 1]
            /\ UNCHANGED <<cur, ready, status>>

\* Mutant: the idle thread goes to sleep as READY instead of BLOCKED.
idle_ready ==
    /\ cur = Idle
    /\ ~halted
    /\ thread_block("READY")
    /\ halted' = TRUE

\* idle(): thread_block, then sti;hlt when it is switched to again.
idle ==
    /\ cur = Idle
    /\ ~halted
    /\ thread_block("BLOCKED")
    /\ halted' = TRUE

=============================================================================
