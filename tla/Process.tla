------------------------------ MODULE Process ------------------------------
(***************************************************************************)
(* The life of user processes: sys_fork (src/userprog/fork.c), sys_exit    *)
(* and sys_wait (src/userprog/wait_exit.c), the pid pool and the list of   *)
(* all threads (src/thread/thread.c), and the init process               *)
(* (src/kernel/main.c).                                                    *)
(*                                                                         *)
(* These are system calls: interrupts are off, so a call is one step up to *)
(* the point where it blocks.  Processes are related by pids only: a child *)
(* knows its parent_pid, and parents and children are looked up in         *)
(* thread_all_list.                                                        *)
(***************************************************************************)
EXTENDS Thread, FiniteSetsExt

CONSTANTS InitProc,  \* the first process, pid 1
          MaxPid     \* bound on pids: the bits a scan of the pool can answer with

ASSUME ProcessAssumption ==
    /\ InitProc \in Threads \ {Idle, Main}
    /\ BootReady = <<InitProc, Idle>>
    /\ MaxPid \in 3..255

VARIABLES pid, parent_pid,  \* fields of task_struct; 0 is no pid, -1 no parent
          all,              \* thread_all_list
          pid_pool,         \* pids whose bit is set in the pool's bitmap
          pc                \* "start" and "user": outside, "wait": in sys_wait

procVars == <<pid, parent_pid, all, pid_pool, pc>>
vars == <<threadVars, procVars>>

\* Type invariant.
TypeOK ==
    /\ ThreadTypeOK
    /\ pid \in [Threads -> 0..MaxPid]
    /\ parent_pid \in [Threads -> {-1} \cup 1..MaxPid]
    /\ all \in Seq(Threads)
    /\ pid_pool \subseteq 1..MaxPid
    /\ pc \in [Threads -> {"start", "user", "wait"}]

\* init_main_thread: init, main and idle get the pids 1, 2 and 3.
Init ==
    /\ ThreadInit
    /\ pid = [t \in Threads |-> CASE t = InitProc -> 1 [] t = Main -> 2
                                  [] t = Idle -> 3 [] OTHER -> 0]
    /\ parent_pid = [t \in Threads |-> -1]
    /\ all = <<InitProc, Main, Idle>>
    /\ pid_pool = 1..3
    /\ pc = [t \in Threads |-> IF t = InitProc THEN "start" ELSE "user"]

-----------------------------------------------------------------------------
\* list_traversal of thread_all_list: the first thread that passes the test.
Found(Test(_)) == \E i \in 1..Len(all) : Test(all[i])
First(Test(_)) ==
    all[Min({i \in 1..Len(all) : Test(all[i])})]

FreePids == 1..MaxPid \ pid_pool

\* Mutant: the index of the bit is returned without pid_start.
allocate_pid_index == Min(FreePids) - 1

\* allocate_pid takes the first free bit.  The pool has 1024, but bitMap_scan
\* answers with a uint8_t (bitmap.c:32): beyond that it would give out pids that
\* are taken (see Bitmap).
allocate_pid == Min(FreePids)

Exists(t) == t \in Range(all)

\* A process that runs its own code: init forks once, then only waits.
Running(t) == cur = t /\ pc[t] # "wait" /\ t \notin {Idle, Main}

\* Mutant: the child is not appended to thread_all_list.
sys_fork_unlisted(t, c) ==
    /\ Running(t)
    /\ t = InitProc => pc[t] = "start"
    /\ ~Exists(c) /\ c # Main
    /\ FreePids # {}
    /\ pid' = [pid EXCEPT ![c] = allocate_pid]
    /\ parent_pid' = [parent_pid EXCEPT ![c] = pid[t]]
    /\ pid_pool' = pid_pool \cup {allocate_pid}
    /\ thread_start(c)
    /\ pc' = [pc EXCEPT ![t] = "user", ![c] = "user"]
    /\ UNCHANGED <<halted, all>>

\* sys_fork: a PCB and a pid for the child, which goes to both lists.
sys_fork(t, c) ==
    /\ Running(t)
    /\ t = InitProc => pc[t] = "start"
    /\ ~Exists(c) /\ c # Main
    /\ FreePids # {}
    /\ pid' = [pid EXCEPT ![c] = allocate_pid]
    /\ parent_pid' = [parent_pid EXCEPT ![c] = pid[t]]
    /\ all' = Append(all, c)
    /\ pid_pool' = pid_pool \cup {allocate_pid}
    /\ thread_start(c)
    /\ pc' = [pc EXCEPT ![t] = "user", ![c] = "user"]
    /\ UNCHANGED halted

\* copy_process finds no memory for the child's page directory: sys_fork
\* returns -1, and the pid it has allocated stays allocated.
sys_fork_fails(t) ==
    /\ Running(t) /\ t # InitProc
    /\ FreePids # {}
    /\ pid_pool' = pid_pool \cup {allocate_pid}
    /\ UNCHANGED <<threadVars, pid, parent_pid, all, pc>>

\* init_adopt_a_child on every thread: the children of t go to init.
\* Mutant: they stay where they are.
Adopted_none(t) == parent_pid
Adopted(t) ==
    [u \in Threads |-> IF Exists(u) /\ parent_pid[u] = pid[t]
                       THEN 1 ELSE parent_pid[u]]

\* pid2thread(parent_pid) finds a parent of t, and it is inside sys_wait.
\* Mutant: it is not woken.
WaitingParent_none(t) == {}
WaitingParent(t) ==
    LET IsParent(u) == pid[u] = parent_pid[t]
    IN  IF Found(IsParent) /\ status[First(IsParent)] = "WAITING"
        THEN {First(IsParent)} ELSE {}

\* sys_exit: the children go to init, a parent inside sys_wait is woken, and
\* the process hangs until its parent reaps it.
sys_exit(t) ==
    /\ Running(t) /\ t # InitProc
    /\ parent_pid' = Adopted(t)
    /\ IF WaitingParent(t) = {}
       THEN thread_block("HANGING")
       ELSE \E parent \in WaitingParent(t) :
              schedule([Unlocked(status, parent) EXCEPT ![t] = "HANGING"],
                       list_push(ready, parent))
    /\ UNCHANGED <<halted, pid, all, pid_pool, pc>>

\* A process calls sys_wait.
CallWait(t) ==
    /\ Running(t) /\ pc[t] = "user"
    /\ pc' = [pc EXCEPT ![t] = "wait"]
    /\ UNCHANGED <<threadVars, pid, parent_pid, all, pid_pool>>

\* find_hanging_child
HangingChild(t, u) == parent_pid[u] = pid[t] /\ status[u] = "HANGING"

\* sys_wait reaps the first hanging child: thread_exit frees its PCB and pid.
sys_wait_reap(t) ==
    LET Test(u) == HangingChild(t, u)
        child == First(Test)
    IN  /\ cur = t /\ pc[t] = "wait"
        /\ Found(Test)
        /\ thread_exit(child, FALSE)
        /\ all' = RemoveFirst(all, child)
        /\ pid_pool' = pid_pool \ {pid[child]}
        /\ pid' = [pid EXCEPT ![child] = 0]
        /\ parent_pid' = [parent_pid EXCEPT ![child] = -1]
        /\ pc' = [pc EXCEPT ![t] = "user"]
        /\ UNCHANGED halted

\* sys_wait finds no hanging child: it fails when find_child finds nobody,
\* and blocks otherwise.  find_child looks for a thread whose pid, not whose
\* parent_pid, is the caller's.
sys_wait_block(t) ==
    LET Hanging(u) == HangingChild(t, u)
        find_child(u) == pid[u] = pid[t]
    IN  /\ cur = t /\ pc[t] = "wait"
        /\ ~Found(Hanging)
        /\ IF Found(find_child)
           THEN thread_block("WAITING") /\ UNCHANGED pc
           ELSE /\ pc' = [pc EXCEPT ![t] = "user"]
                /\ UNCHANGED <<cur, ready, status, ticks>>
        /\ UNCHANGED <<halted, pid, parent_pid, all, pid_pool>>

\* main() ends with thread_exit(self, TRUE), which frees its pid.
main_exit ==
    /\ cur = Main
    /\ thread_exit(Main, TRUE)
    /\ all' = RemoveFirst(all, Main)
    /\ pid_pool' = pid_pool \ {pid[Main]}
    /\ pid' = [pid EXCEPT ![Main] = 0]
    /\ UNCHANGED <<halted, parent_pid, pc>>

Timer ==
    /\ pc[cur] # "wait"
    /\ intr_timer_handler
    /\ UNCHANGED procVars

IdleLoop == idle /\ UNCHANGED procVars

Next ==
    \/ \E t, c \in Threads : sys_fork(t, c)
    \/ \E t \in Threads : \/ sys_fork_fails(t) \/ sys_exit(t) \/ CallWait(t)
                          \/ sys_wait_reap(t) \/ sys_wait_block(t)
    \/ main_exit
    \/ Timer
    \/ IdleLoop

Spec == Init /\ [][Next]_vars

(***************************************************************************)
(* System call code runs to its end or to where it blocks; the timer       *)
(* ticks; init does nothing but fork once and wait for ever.  No other     *)
(* process need ever do anything.                                          *)
(***************************************************************************)
FairSpec ==
    /\ Spec
    /\ SF_vars(Timer)
    /\ WF_vars(IdleLoop)
    /\ \A t \in Threads : WF_vars(sys_wait_reap(t) \/ sys_wait_block(t))
    /\ SF_vars(CallWait(InitProc))

-----------------------------------------------------------------------------
\* Processes are told apart by their pid alone: no two threads have the same
\* one, and the pid of a thread is not free for the next fork.
PidsUnique ==
    /\ \A t \in Range(all) : pid[t] \in pid_pool
    /\ \A t, u \in Range(all) : pid[t] = pid[u] => t = u

\* Every forked process has a parent that is alive and not itself waiting to
\* be reaped: when a process exits its children go to init, and no parent_pid
\* is left that a later fork could hand to a stranger.
ParentAlive ==
    \A t \in Range(all) \ {InitProc, Main, Idle} :
        \E p \in Range(all) : /\ pid[p] = parent_pid[t]
                              /\ status[p] # "HANGING"

\* thread_all_list and the scheduler agree on who exists; exited threads are
\* never queued and nobody is lost.
ListsAgree ==
    /\ IsInjective(all) /\ IsInjective(ready)
    /\ cur \notin Range(ready)
    /\ \A t \in Threads :
        /\ Exists(t) <=> status[t] # "DIED"
        /\ t \in Range(ready) \cup {cur} <=> status[t] \in {"READY", "RUNNING"}

\* sys_wait comes back: once a child of a process inside it hangs, the
\* process returns.
WaitReturns ==
    \A t \in Threads \ {InitProc} :
        pc[t] = "wait" /\ (\E u \in Threads : HangingChild(t, u))
            ~> pc[t] = "user"

=============================================================================
