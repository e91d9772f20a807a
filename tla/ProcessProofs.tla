---------------------------- MODULE ProcessProofs ----------------------------
(***************************************************************************)
(* Proofs about fork, wait and exit, for any threads and any number of     *)
(* pids: who exists is who is listed, pids tell them apart, and every      *)
(* forked process has a parent that can reap it.                           *)
(***************************************************************************)
EXTENDS Process, SchedulerProofs, WellFoundedInduction

\* The threads made at boot.
Boot == {InitProc, Main, Idle}

(***************************************************************************)
(* The inductive invariant.  That a parent is alive is kept because a      *)
(* process that can exit or be reaped is nobody's parent at that moment;   *)
(* this needs that pids are unique, that main, which gives its pid back    *)
(* without looking for children, forks nobody, and that init never exits.  *)
(***************************************************************************)
Family ==
    \A t \in Range(all) \ Boot :
        \E p \in Range(all) \ {Main, Idle} :
            pid[p] = parent_pid[t] /\ status[p] # "HANGING"

ProcInv ==
    /\ TypeOK
    /\ QueueInv
    /\ Linked(all)
    /\ \A t \in Threads : Exists(t) <=> status[t] # "DIED"
    /\ PidsUnique
    /\ Family
    /\ \A t \in Boot : status[t] # "HANGING"
    /\ status[Idle] # "DIED"
    /\ InitProc \in Range(all) /\ pid[InitProc] = 1

-----------------------------------------------------------------------------
\* Min is the least element of a set of numbers that has any.
LEMMA MinExists ==
    ASSUME NEW S \in SUBSET Nat, S # {}
    PROVE  Min(S) \in S /\ \A n \in S : Min(S) <= n
<1> DEFINE Less == {ss \in Nat \X Nat : ss[1] < ss[2]}
<1>1. IsWellFoundedOn(Less, Nat)
  BY NatLessThanWellFounded, Zenon DEF OpToRel
<1>2. PICK m \in S : \A n \in S : ~(<<n, m>> \in Less)
  <2> HIDE DEF Less
  <2> QED
    BY <1>1, WFMin
<1>3. ASSUME NEW n \in S PROVE m <= n
  <2>1. ~(<<n, m>> \in Less)
    BY <1>2
  <2>2. <<n, m>> \in Nat \X Nat /\ <<n, m>>[1] = n /\ <<n, m>>[2] = m
    OBVIOUS
  <2>3. ~(n < m)
    BY <2>1, <2>2, Zenon
  <2> QED
    BY <2>3
<1> QED
  BY <1>3 DEF Min

\* allocate_pid answers a free pid.
LEMMA PidAllocated ==
    ASSUME TypeOK, FreePids # {}
    PROVE  allocate_pid \in 1..MaxPid \ pid_pool
<1>1. FreePids \in SUBSET Nat
  BY ProcessAssumption DEF FreePids
<1>2. Min(FreePids) \in FreePids
  BY <1>1, MinExists
<1> QED
  BY <1>2 DEF allocate_pid, FreePids

\* The parts of the types that the steps below use.
LEMMA ProcTypes ==
    ASSUME ProcInv
    PROVE  /\ ThreadTypeOK /\ cur \in Threads /\ cur \in Range(all) /\ status[cur] = "RUNNING"
           /\ Idle \in Threads /\ Main \in Threads /\ InitProc \in Threads
           /\ InitProc # Main /\ InitProc # Idle /\ Main # Idle
           /\ Idle \in Range(all)
           /\ Range(all) \subseteq Threads
           /\ status \in [Threads -> TaskStatus]
           /\ pid \in [Threads -> 0..MaxPid]
           /\ parent_pid \in [Threads -> {-1} \cup 1..MaxPid]
           /\ pid_pool \subseteq 1..MaxPid
           /\ pc \in [Threads -> {"start", "user", "wait"}]
           /\ \A t \in Range(all) : pid[t] \in 1..MaxPid
<1>1. Range(all) \subseteq Threads
  BY RangeIndex DEF ProcInv, Linked
<1> QED
  BY <1>1, BootAssumption, ProcessAssumption
     DEF ProcInv, TypeOK, ThreadTypeOK, QueueInv, Exists, PidsUnique

\* The first thread of thread_all_list that passes a test, if any does.
LEMMA FirstChild ==
    ASSUME ProcInv, NEW t \in Threads, NEW S,
           S = {i \in 1..Len(all) : HangingChild(t, all[i])}, S # {}
    PROVE  all[Min(S)] \in Range(all) /\ HangingChild(t, all[Min(S)])
<1>1. S \in SUBSET Nat
  BY LenProperties DEF ProcInv, Linked
<1>2. Min(S) \in S
  BY <1>1, MinExists
<1> QED
  BY <1>2, RangeIndex DEF ProcInv, Linked

\* The same for the parent that sys_exit looks for.
LEMMA FirstParent ==
    ASSUME ProcInv, NEW t \in Threads, NEW p \in WaitingParent(t)
    PROVE  p \in Range(all) /\ status[p] = "WAITING"
<1> DEFINE S == {i \in 1..Len(all) : pid[all[i]] = parent_pid[t]}
<1>1. S \in SUBSET Nat
  BY LenProperties DEF ProcInv, Linked
<1>2. S # {} /\ p = all[Min(S)] /\ status[p] = "WAITING"
  BY DEF WaitingParent, Found, First
<1>3. Min(S) \in S
  BY <1>1, <1>2, MinExists
<1> QED
  BY <1>2, <1>3, RangeIndex DEF ProcInv, Linked

\* A step that only lets other threads run, or blocks a thread for a while.
LEMMA QuietStep ==
    ASSUME ProcInv, UNCHANGED <<pid, parent_pid, all>>, ThreadTypeOK', QueueInv',
           pid_pool \subseteq pid_pool', pid_pool' \subseteq 1..MaxPid,
           pc' \in [Threads -> {"start", "user", "wait"}],
           \A t \in Threads : /\ status'[t] = "DIED" <=> status[t] = "DIED"
                              /\ status'[t] = "HANGING" => status[t] = "HANGING"
    PROVE  ProcInv'
<1> USE ProcTypes
<1>1. TypeOK' /\ Linked(all')
  BY DEF ProcInv, TypeOK, Linked
<1>2. \A t \in Threads : Exists(t)' <=> status'[t] # "DIED"
  BY DEF ProcInv, Exists
<1>3. PidsUnique'
  BY DEF ProcInv, PidsUnique
<1>4. Family'
  BY DEF ProcInv, Family
<1> QED
  BY <1>1, <1>2, <1>3, <1>4 DEF ProcInv, Boot

\* sys_fork: the child gets a pid nobody has and a parent that is alive.
LEMMA ForkStep ==
    ASSUME ProcInv, NEW t \in Threads, NEW c \in Threads, sys_fork(t, c)
    PROVE  ProcInv'
<1> USE ProcTypes
<1>1. /\ t = cur /\ t \notin {Main, Idle} /\ c \notin Range(all) /\ c # Main
      /\ t # c /\ c \notin Boot /\ status[c] = "DIED"
  BY DEF sys_fork, Running, Exists, ProcInv, Boot
<1>2. allocate_pid \in 1..MaxPid \ pid_pool
  BY PidAllocated DEF sys_fork, ProcInv
<1>3. /\ pid' = [pid EXCEPT ![c] = allocate_pid]
      /\ parent_pid' = [parent_pid EXCEPT ![c] = pid[t]]
      /\ pid_pool' = pid_pool \cup {allocate_pid}
      /\ pc' = [pc EXCEPT ![t] = "user", ![c] = "user"]
      /\ halted' = halted
  BY DEF sys_fork
<1>4. Linked(all') /\ Range(all') = Range(all) \cup {c}
  BY <1>1, AppendLinked DEF sys_fork, ProcInv
<1>5. QueueInv' /\ status' = [status EXCEPT ![c] = "READY"]
  BY <1>1, StartQueue DEF sys_fork, ProcInv, Runnable
<1>6. ThreadTypeOK'
  BY <1>3, <1>5, PriorityAssumption
     DEF sys_fork, thread_start, ThreadTypeOK, QueueInv, Linked, TaskStatus
<1>7. TypeOK'
  <2>1. pid[t] \in 1..MaxPid
    BY <1>1
  <2>2. /\ pid' \in [Threads -> 0..MaxPid]
        /\ parent_pid' \in [Threads -> {-1} \cup 1..MaxPid]
        /\ pid_pool' \subseteq 1..MaxPid
        /\ pc' \in [Threads -> {"start", "user", "wait"}]
    BY <1>2, <1>3, <2>1
  <2> QED
    BY <1>4, <1>6, <2>2 DEF TypeOK, Linked
<1>8. \A u \in Threads : Exists(u)' <=> status'[u] # "DIED"
  BY <1>4, <1>5 DEF ProcInv, Exists
<1>9. PidsUnique'
  BY <1>1, <1>2, <1>3, <1>4 DEF ProcInv, PidsUnique
<1>10. Family'
  <2> SUFFICES ASSUME NEW u \in Range(all') \ Boot
               PROVE  \E p \in Range(all') \ {Main, Idle} :
                         pid'[p] = parent_pid'[u] /\ status'[p] # "HANGING"
    BY DEF Family
  <2>1. CASE u = c
    BY <1>1, <1>3, <1>4, <1>5, <2>1
  <2>2. CASE u # c
    <3>1. PICK p \in Range(all) \ {Main, Idle} :
             pid[p] = parent_pid[u] /\ status[p] # "HANGING"
      BY <1>4, <2>2 DEF ProcInv, Family
    <3>2. p # c /\ p \in Threads /\ u \in Threads
      BY <1>1, <1>4
    <3> QED
      BY <1>3, <1>4, <1>5, <2>2, <3>1, <3>2
  <2> QED
    BY <2>1, <2>2
<1> QED
  BY <1>1, <1>3, <1>4, <1>5, <1>7, <1>8, <1>9, <1>10 DEF ProcInv, Boot

\* sys_exit: the children of the process go to init before it hangs.
LEMMA ExitStep ==
    ASSUME ProcInv, NEW t \in Threads, sys_exit(t)
    PROVE  ProcInv'
<1> USE ProcTypes
<1>1. /\ t = cur /\ t \notin Boot /\ t \in Range(all)
      /\ parent_pid' = Adopted(t) /\ UNCHANGED <<halted, pid, all, pid_pool, pc>>
  BY DEF sys_exit, Running, Boot
<1>2. /\ QueueInv'
      /\ cur' \in Threads /\ ready' \in Seq(Threads)
      /\ status' \in [Threads -> TaskStatus] /\ ticks' \in [Threads -> Nat]
      /\ status'[t] = "HANGING"
      /\ \A u \in Threads \ {t} : /\ status'[u] = "DIED" <=> status[u] = "DIED"
                                  /\ status'[u] = "HANGING" => status[u] = "HANGING"
  <2>1. CASE WaitingParent(t) = {}
    <3>1. thread_block("HANGING") /\ "HANGING" \in TaskStatus \ Runnable
      BY <2>1 DEF sys_exit, TaskStatus, Runnable
    <3>2. /\ QueueInv'
          /\ \A u \in Threads \ {cur} : status[u] \in Runnable => status'[u] \in Runnable
          /\ \A u \in Threads \ {cur, Idle} :
                status[u] \notin Runnable => status'[u] = status[u]
          /\ status'[cur] = "HANGING"
          /\ status'[Idle] \in Runnable \cup {status[Idle]}
      BY <1>1, <3>1, BlockQueue DEF ProcInv, Boot
    <3>3. /\ cur' \in Threads /\ ready' \in Seq(Threads)
          /\ status' \in [Threads -> TaskStatus] /\ ticks' \in [Threads -> Nat]
      BY <3>1, BlockType
    <3> QED
      BY <1>1, <3>2, <3>3 DEF Runnable, ProcInv, Boot
  <2>2. CASE WaitingParent(t) # {}
    <3>1. PICK p \in WaitingParent(t) :
             schedule([Unlocked(status, p) EXCEPT ![t] = "HANGING"], list_push(ready, p))
      BY <2>2 DEF sys_exit
    <3>2. p \in Threads /\ status[p] = "WAITING" /\ p # t
      BY <1>1, FirstParent
    <3> DEFINE st == [Unlocked(status, p) EXCEPT ![t] = "HANGING"]
    <3>3. /\ st \in [Threads -> TaskStatus]
          /\ st = [u \in Threads |-> IF u = t THEN "HANGING"
                                     ELSE IF u = p THEN "RUNNING" ELSE status[u]]
      BY <3>2 DEF Unlocked, TaskStatus
    <3>4. p \notin Range(ready) /\ Linked(ready) /\ t \notin Range(ready)
      BY <1>1, <3>2 DEF ProcInv, QueueInv, Runnable
    <3>5. /\ Linked(list_push(ready, p))
          /\ Range(list_push(ready, p)) = Range(ready) \cup {p}
      BY <3>2, <3>4, PushLinked
    <3>6. /\ \A u \in Threads \ {cur} : u \in Range(list_push(ready, p)) <=> st[u] \in Runnable
          /\ cur \in Range(list_push(ready, p)) <=> st[cur] = "READY"
      BY <1>1, <3>2, <3>3, <3>4, <3>5 DEF ProcInv, QueueInv, Runnable
    <3> HIDE DEF st
    <3>7. /\ QueueInv'
          /\ \A u \in Threads : st[u] \in Runnable => status'[u] \in Runnable
          /\ \A u \in Threads \ {Idle} : st[u] \notin Runnable => status'[u] = st[u]
          /\ status'[Idle] \in Runnable \cup {st[Idle]}
      BY <3>1, <3>3, <3>5, <3>6, ScheduleQueue DEF st
    <3>8. /\ cur' \in Threads /\ ready' \in Seq(Threads)
          /\ status' \in [Threads -> TaskStatus] /\ ticks' \in [Threads -> Nat]
      BY <3>1, <3>3, <3>5, ScheduleType DEF st, Linked
    <3>9. st[t] = "HANGING" /\ st[p] = "RUNNING"
          /\ \A u \in Threads \ {t, p} : st[u] = status[u]
      BY <3>2, <3>3
    <3> QED
      BY <1>1, <3>2, <3>7, <3>8, <3>9, ZenonT(60) DEF Runnable, ProcInv, Boot
  <2> QED
    BY <2>1, <2>2
<1>3. /\ \A u \in Threads : parent_pid'[u] = IF u \in Range(all) /\ parent_pid[u] = pid[t]
                                               THEN 1 ELSE parent_pid[u]
      /\ parent_pid' \in [Threads -> {-1} \cup 1..MaxPid]
  BY <1>1, ProcessAssumption DEF Adopted, Exists
<1>4. TypeOK'
  BY <1>1, <1>2, <1>3 DEF ProcInv, TypeOK, ThreadTypeOK
<1>5. Linked(all') /\ PidsUnique'
  BY <1>1 DEF ProcInv, Linked, PidsUnique
<1>6. \A u \in Threads : Exists(u)' <=> status'[u] # "DIED"
  BY <1>1, <1>2 DEF ProcInv, Exists
<1>7. Family'
  <2> SUFFICES ASSUME NEW u \in Range(all) \ Boot
               PROVE  \E p \in Range(all) \ {Main, Idle} :
                         pid[p] = parent_pid'[u] /\ status'[p] # "HANGING"
    BY <1>1 DEF Family
  <2>1. CASE parent_pid[u] = pid[t]
    BY <1>1, <1>2, <1>3, <2>1 DEF ProcInv, Boot
  <2>2. CASE parent_pid[u] # pid[t]
    <3>1. PICK p \in Range(all) \ {Main, Idle} :
             pid[p] = parent_pid[u] /\ status[p] # "HANGING"
      BY DEF ProcInv, Family
    <3> QED
      BY <1>2, <1>3, <2>2, <3>1
  <2> QED
    BY <2>1, <2>2
<1> QED
  BY <1>1, <1>2, <1>4, <1>5, <1>6, <1>7 DEF ProcInv, Boot

\* sys_wait reaps a child: nobody's parent, so its pid may be used again.
LEMMA ReapStep ==
    ASSUME ProcInv, NEW t \in Threads, sys_wait_reap(t)
    PROVE  ProcInv'
<1> USE ProcTypes
<1> DEFINE S == {i \in 1..Len(all) : HangingChild(t, all[i])}
           c == all[Min(S)]
<1>1. S # {}
  BY DEF sys_wait_reap, Found
<1>2. c \in Range(all) /\ HangingChild(t, c)
  BY <1>1, FirstChild
<1>3. /\ thread_exit(c, FALSE)
      /\ all' = RemoveFirst(all, c)
      /\ pid_pool' = pid_pool \ {pid[c]}
      /\ pid' = [pid EXCEPT ![c] = 0]
      /\ parent_pid' = [parent_pid EXCEPT ![c] = -1]
      /\ pc' = [pc EXCEPT ![t] = "user"]
      /\ UNCHANGED halted
  BY DEF sys_wait_reap, First
<1> HIDE DEF c
<1>4. status[c] = "HANGING" /\ c \notin Boot /\ c # cur /\ c \in Threads /\ c \notin Range(ready)
  BY <1>2 DEF HangingChild, ProcInv, QueueInv, Runnable
<1>5. /\ Linked(ready') /\ Range(ready') = Range(ready)
      /\ status' = [status EXCEPT ![c] = "DIED"] /\ UNCHANGED <<cur, ticks>>
  <2>1. /\ Linked(RemoveFirst(ready, c))
        /\ Range(RemoveFirst(ready, c)) = Range(ready) \ {c}
    BY <1>4, RemoveLinked DEF ProcInv, QueueInv
  <2> QED
    BY <1>3, <1>4, <2>1, ZenonT(60) DEF thread_exit
<1>6. QueueInv'
  BY <1>4, <1>5 DEF ProcInv, QueueInv, Runnable
<1>7. Linked(all') /\ Range(all') = Range(all) \ {c}
  BY <1>3, <1>4, RemoveLinked DEF ProcInv
<1>8. TypeOK'
  <2>1. pid' \in [Threads -> 0..MaxPid] /\ pid_pool' \subseteq 1..MaxPid
    <3>1. 0 \in 0..MaxPid
      BY ProcessAssumption
    <3> QED
      BY <1>3, <1>4, <3>1
  <2>3. parent_pid' \in [Threads -> {-1} \cup 1..MaxPid]
    BY <1>3, <1>4
  <2>4. pc' \in [Threads -> {"start", "user", "wait"}]
    BY <1>3
  <2>2. ThreadTypeOK'
    BY <1>3, <1>5 DEF ThreadTypeOK, Linked, TaskStatus
  <2> QED
    BY <1>7, <2>1, <2>2, <2>3, <2>4 DEF TypeOK, Linked
<1>9. \A u \in Threads : Exists(u)' <=> status'[u] # "DIED"
  BY <1>4, <1>5, <1>7 DEF ProcInv, Exists
<1>10. PidsUnique'
  BY <1>2, <1>3, <1>4, <1>7 DEF ProcInv, PidsUnique
<1>11. Family'
  <2> SUFFICES ASSUME NEW u \in Range(all') \ Boot
               PROVE  \E p \in Range(all') \ {Main, Idle} :
                         pid'[p] = parent_pid'[u] /\ status'[p] # "HANGING"
    BY DEF Family
  <2>1. PICK p \in Range(all) \ {Main, Idle} :
           pid[p] = parent_pid[u] /\ status[p] # "HANGING"
    BY <1>7 DEF ProcInv, Family
  <2>2. p # c /\ p \in Threads /\ u \in Threads /\ u # c
    BY <1>4, <1>7, <2>1
  <2> QED
    BY <1>3, <1>5, <1>7, <2>1, <2>2
<1> QED
  BY <1>3, <1>4, <1>5, <1>6, <1>7, <1>8, <1>9, <1>10, <1>11 DEF ProcInv, Boot

\* main ends: it has no children, and its pid may be used again.
LEMMA MainStep ==
    ASSUME ProcInv, main_exit
    PROVE  ProcInv'
<1> USE ProcTypes
<1>1. /\ cur = Main /\ thread_exit(Main, TRUE)
      /\ all' = RemoveFirst(all, Main)
      /\ pid_pool' = pid_pool \ {pid[Main]}
      /\ pid' = [pid EXCEPT ![Main] = 0]
      /\ UNCHANGED <<halted, parent_pid, pc>>
  BY DEF main_exit
<1> DEFINE st == [status EXCEPT ![Main] = "DIED"]
           rd == RemoveFirst(ready, Main)
<1>2. Linked(rd) /\ Range(rd) = Range(ready) /\ Main \notin Range(rd)
  <2>1. Linked(ready) /\ Main \notin Range(ready)
    BY <1>1 DEF ProcInv, QueueInv
  <2>2. Linked(rd) /\ Range(rd) = Range(ready) \ {Main}
    BY <2>1, RemoveLinked
  <2> QED
    BY <2>1, <2>2
<1>3. /\ schedule(st, rd) /\ st \in [Threads -> TaskStatus] /\ st[Main] = "DIED"
      /\ \A u \in Threads \ {Main} : st[u] = status[u]
  BY <1>1 DEF thread_exit, TaskStatus
<1> HIDE DEF st, rd
<1>4. /\ \A u \in Threads \ {cur} : u \in Range(rd) <=> st[u] \in Runnable
      /\ cur \in Range(rd) <=> st[cur] = "READY"
  BY <1>1, <1>2, <1>3 DEF ProcInv, QueueInv
<1>5. /\ QueueInv'
      /\ \A u \in Threads : st[u] \in Runnable => status'[u] \in Runnable
      /\ \A u \in Threads \ {Idle} : st[u] \notin Runnable => status'[u] = st[u]
      /\ status'[Idle] \in Runnable \cup {st[Idle]}
  BY <1>2, <1>3, <1>4, ScheduleQueue
<1>6. /\ cur' \in Threads /\ ready' \in Seq(Threads)
      /\ status' \in [Threads -> TaskStatus] /\ ticks' \in [Threads -> Nat]
  BY <1>2, <1>3, ScheduleType DEF Linked
<1>7. Linked(all') /\ Range(all') = Range(all) \ {Main}
  BY <1>1, RemoveLinked DEF ProcInv
<1>8. TypeOK'
  <2>1. pid' \in [Threads -> 0..MaxPid] /\ pid_pool' \subseteq 1..MaxPid
    BY <1>1, ProcessAssumption
  <2> QED
    BY <1>1, <1>6, <1>7, <2>1 DEF ProcInv, TypeOK, ThreadTypeOK, Linked
<1>9. /\ status'[Main] = "DIED"
      /\ \A u \in Threads \ {Main} : /\ status'[u] = "DIED" <=> status[u] = "DIED"
                                     /\ status'[u] = "HANGING" => status[u] = "HANGING"
  <2>1. status'[Main] = "DIED"
    BY <1>3, <1>5 DEF Runnable
  <2>2. ASSUME NEW u \in Threads \ {Main}
        PROVE  /\ status'[u] = "DIED" <=> status[u] = "DIED"
               /\ status'[u] = "HANGING" => status[u] = "HANGING"
    BY <1>3, <1>5 DEF Runnable, ProcInv, Boot
  <2> QED
    BY <2>1, <2>2
<1>10. \A u \in Threads : Exists(u)' <=> status'[u] # "DIED"
  BY <1>7, <1>9 DEF ProcInv, Exists
<1>11. PidsUnique'
  BY <1>1, <1>7 DEF ProcInv, PidsUnique
<1>12. Family'
  <2> SUFFICES ASSUME NEW u \in Range(all') \ Boot
               PROVE  \E p \in Range(all') \ {Main, Idle} :
                         pid'[p] = parent_pid'[u] /\ status'[p] # "HANGING"
    BY DEF Family
  <2>1. PICK p \in Range(all) \ {Main, Idle} :
           pid[p] = parent_pid[u] /\ status[p] # "HANGING"
    BY <1>7 DEF ProcInv, Family
  <2> QED
    BY <1>1, <1>7, <1>9, <2>1
<1> QED
  BY <1>1, <1>5, <1>7, <1>8, <1>9, <1>10, <1>11, <1>12 DEF ProcInv, Boot
\* The calls that leave the tables alone, the timer and the idle loop.
LEMMA OtherStep ==
    ASSUME ProcInv,
           \/ \E t \in Threads : sys_fork_fails(t) \/ CallWait(t) \/ sys_wait_block(t)
           \/ Timer \/ IdleLoop \/ UNCHANGED vars
    PROVE  ProcInv'
<1> USE ProcTypes
<1>1. ASSUME NEW t \in Threads, sys_fork_fails(t) PROVE ProcInv'
  <2>1. allocate_pid \in 1..MaxPid
    BY <1>1, PidAllocated DEF sys_fork_fails, ProcInv
  <2>2. pid_pool' = pid_pool \cup {allocate_pid} /\ UNCHANGED <<threadVars, pid, parent_pid, all, pc>>
    BY <1>1 DEF sys_fork_fails
  <2>3. ThreadTypeOK' /\ QueueInv' /\ status' = status
    BY <2>2 DEF threadVars, ThreadTypeOK, ProcInv, QueueInv, Linked
  <2> QED
    BY <2>1, <2>2, <2>3, QuietStep
<1>2. ASSUME NEW t \in Threads, CallWait(t) PROVE ProcInv'
  <2>1. ThreadTypeOK' /\ QueueInv' /\ status' = status
    BY <1>2 DEF CallWait, threadVars, ThreadTypeOK, ProcInv, QueueInv, Linked
  <2>2. /\ pc' \in [Threads -> {"start", "user", "wait"}]
        /\ UNCHANGED <<pid, parent_pid, all, pid_pool>>
    BY <1>2 DEF CallWait
  <2> QED
    BY <2>1, <2>2, QuietStep
<1>3. ASSUME NEW state \in {"WAITING", "BLOCKED"}, thread_block(state), halted' \in BOOLEAN,
             UNCHANGED procVars
      PROVE  ProcInv'
  <2>1. state \in TaskStatus \ Runnable
    BY DEF TaskStatus, Runnable
  <2>2. /\ QueueInv'
        /\ \A t \in Threads \ {cur} : status[t] \in Runnable => status'[t] \in Runnable
        /\ \A t \in Threads \ {cur, Idle} :
              status[t] \notin Runnable => status'[t] = status[t]
        /\ cur # Idle => status'[cur] = state
        /\ status'[Idle] \in Runnable \cup {IF cur = Idle THEN state ELSE status[Idle]}
    BY <1>3, <2>1, BlockQueue DEF ProcInv
  <2>3. ThreadTypeOK'
    BY <1>3, <2>1, BlockType DEF ThreadTypeOK
  <2>4. ASSUME NEW t \in Threads
        PROVE  /\ status'[t] = "DIED" <=> status[t] = "DIED"
               /\ status'[t] = "HANGING" => status[t] = "HANGING"
    <3>1. CASE t = Idle
      BY <2>2, <3>1 DEF Runnable, ProcInv
    <3>2. CASE t # Idle /\ t = cur
      BY <2>2, <3>2
    <3>3. CASE t # Idle /\ t # cur
      BY <2>2, <3>3 DEF Runnable
    <3> QED
      BY <3>1, <3>2, <3>3
  <2>5. UNCHANGED <<pid, parent_pid, all, pid_pool, pc>>
    BY <1>3 DEF procVars
  <2> QED
    BY <2>2, <2>3, <2>4, <2>5, QuietStep
<1>4. ASSUME NEW t \in Threads, sys_wait_block(t) PROVE ProcInv'
  <2>1. halted' = halted /\ UNCHANGED <<pid, parent_pid, all, pid_pool>>
    BY <1>4 DEF sys_wait_block
  <2>2. CASE thread_block("WAITING") /\ UNCHANGED pc
    BY <1>3, <2>1, <2>2 DEF ThreadTypeOK, procVars
  <2>3. CASE ~(thread_block("WAITING") /\ UNCHANGED pc)
    <3>1. UNCHANGED <<cur, ready, status, ticks>> /\ pc' = [pc EXCEPT ![t] = "user"]
      BY <1>4, <2>3, Zenon DEF sys_wait_block
    <3>2. ThreadTypeOK' /\ QueueInv'
      BY <2>1, <3>1 DEF ThreadTypeOK, ProcInv, QueueInv, Linked
    <3> QED
      BY <2>1, <3>1, <3>2, QuietStep
  <2> QED
    BY <2>2, <2>3
<1>5. CASE Timer
  <2>1. /\ QueueInv'
        /\ \A t \in Threads : status[t] \in Runnable => status'[t] \in Runnable
        /\ \A t \in Threads \ {Idle} : status[t] \notin Runnable => status'[t] = status[t]
        /\ status'[Idle] \in Runnable \cup {status[Idle]}
    BY <1>5, TimerQueue DEF Timer, ProcInv
  <2>2. ThreadTypeOK'
    BY <1>5, TimerType DEF Timer
  <2>3. ASSUME NEW t \in Threads
        PROVE  /\ status'[t] = "DIED" <=> status[t] = "DIED"
               /\ status'[t] = "HANGING" => status[t] = "HANGING"
    <3>1. CASE t = Idle
      BY <2>1, <3>1 DEF Runnable, ProcInv
    <3>2. CASE t # Idle
      BY <2>1, <3>2 DEF Runnable
    <3> QED
      BY <3>1, <3>2
  <2>4. UNCHANGED <<pid, parent_pid, all, pid_pool, pc>>
    BY <1>5 DEF Timer, procVars
  <2> QED
    BY <2>1, <2>2, <2>3, <2>4, QuietStep
<1>6. CASE IdleLoop
  BY <1>3, <1>6 DEF IdleLoop, idle
<1>7. CASE UNCHANGED vars
  <2>1. ThreadTypeOK' /\ QueueInv'
    BY <1>7 DEF vars, threadVars, ThreadTypeOK, ProcInv, QueueInv, Linked
  <2> QED
    BY <1>7, <2>1, QuietStep DEF vars, threadVars, procVars
<1> QED
  BY <1>1, <1>2, <1>4, <1>5, <1>6, <1>7

-----------------------------------------------------------------------------
\* The invariant, for every number of threads and pids.
THEOREM ProcInvariant == Spec => []ProcInv
<1>1. Init => ProcInv
  <2> SUFFICES ASSUME Init PROVE ProcInv
    OBVIOUS
  <2>1. /\ InitProc \in Threads /\ Main \in Threads /\ Idle \in Threads
        /\ InitProc # Main /\ InitProc # Idle /\ Main # Idle
        /\ MaxPid \in Nat /\ MaxPid >= 3
    BY ProcessAssumption, BootAssumption
  <2>2. ThreadTypeOK /\ Linked(ready) /\ cur \notin Range(ready)
    BY BootLinked DEF Init
  <2>3. ready = <<InitProc, Idle>> /\ Range(ready) = {InitProc, Idle} /\ cur = Main
    <3>1. ready = <<InitProc, Idle>> /\ cur = Main
      BY ProcessAssumption DEF Init, ThreadInit
    <3>2. <<InitProc, Idle>> \in Seq(Threads) /\ Len(<<InitProc, Idle>>) = 2
      BY <2>1
    <3>3. /\ <<InitProc, Idle>>[1] = InitProc /\ <<InitProc, Idle>>[2] = Idle
          /\ 1..Len(<<InitProc, Idle>>) = {1, 2}
      BY <3>2
    <3>4. \A e : e \in Range(<<InitProc, Idle>>) <=>
                   \E i \in 1..Len(<<InitProc, Idle>>) : <<InitProc, Idle>>[i] = e
      BY <3>2, RangeIndex
    <3> QED
      BY <3>1, <3>3, <3>4
  <2>4. all = <<InitProc, Main, Idle>> /\ all \in Seq(Threads) /\ Len(all) = 3
    BY <2>1 DEF Init
  <2>5. Range(all) = Boot /\ IsInjective(all)
    <3>1. /\ all[1] = InitProc /\ all[2] = Main /\ all[3] = Idle
          /\ 1..Len(all) = {1, 2, 3}
      BY <2>4
    <3>2. /\ \A e : e \in Range(all) <=> \E i \in 1..Len(all) : all[i] = e
          /\ IsInjective(all) <=> \A i, j \in 1..Len(all) : all[i] = all[j] => i = j
      <4>1. all \in Seq(Threads)
        BY <2>4
      <4> QED
        BY <4>1, RangeIndex
    <3>3. Range(all) = Boot
      BY <3>1, <3>2 DEF Boot
    <3>4. IsInjective(all)
      BY <2>1, <3>1, <3>2
    <3> QED
      BY <3>3, <3>4
  <2>6. status = [t \in Threads |-> IF t = Main THEN "RUNNING"
                                    ELSE IF t \in {InitProc, Idle} THEN "READY" ELSE "DIED"]
    BY <2>3 DEF Init, ThreadInit
  <2>7. /\ pid \in [Threads -> 0..MaxPid]
        /\ pid[InitProc] = 1 /\ pid[Main] = 2 /\ pid[Idle] = 3 /\ pid_pool = 1..3
    BY <2>1 DEF Init
  <2>8. TypeOK
    BY <2>1, <2>2, <2>4, <2>7 DEF Init, TypeOK
  <2>9. QueueInv
    BY <2>1, <2>2, <2>3, <2>6 DEF QueueInv, Runnable
  <2>10. \A t \in Threads : Exists(t) <=> status[t] # "DIED"
    BY <2>5, <2>6 DEF Exists, Boot
  <2>11. PidsUnique
    BY <2>5, <2>7 DEF PidsUnique, Boot
  <2>12. Family /\ (\A t \in Boot : status[t] # "HANGING") /\ status[Idle] # "DIED"
    BY <2>1, <2>5, <2>6 DEF Family, Boot
  <2> QED
    BY <2>4, <2>5, <2>7, <2>8, <2>9, <2>10, <2>11, <2>12 DEF ProcInv, Linked, Boot
<1>2. ProcInv /\ [Next]_vars => ProcInv'
  BY ForkStep, ExitStep, ReapStep, MainStep, OtherStep DEF Next
<1> QED
  BY <1>1, <1>2, PTL DEF Spec

\* No two threads ever have the same pid, and none has one that fork could
\* hand out.
THEOREM PidsDistinct == Spec => []PidsUnique
<1>1. ProcInv => PidsUnique
  BY DEF ProcInv
<1> QED
  BY <1>1, ProcInvariant, PTL

\* Nobody is orphaned: every forked process has a parent that is alive.
THEOREM NoOrphan == Spec => []ParentAlive
<1>1. ProcInv => ParentAlive
  BY DEF ProcInv, Family, ParentAlive, Boot
<1> QED
  BY <1>1, ProcInvariant, PTL

\* thread_all_list, the ready list and the statuses agree.
THEOREM ListsConsistent == Spec => []ListsAgree
<1>1. ProcInv => ListsAgree
  BY DEF ProcInv, QueueInv, ListsAgree, Linked, Runnable
<1> QED
  BY <1>1, ProcInvariant, PTL

\* The process tables are always well typed: no pid leaves the pool.
THEOREM ProcessTyped == Spec => []TypeOK
<1>1. ProcInv => TypeOK
  BY DEF ProcInv
<1> QED
  BY <1>1, ProcInvariant, PTL
=============================================================================
