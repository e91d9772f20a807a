----------------------------- MODULE SyncProofs -----------------------------
(***************************************************************************)
(* Proofs about the locks of Sync, for any number of threads and locks,    *)
(* any priorities, any set of preemptible kernel threads and any nesting:  *)
(* first what the fields of a lock say, then who is linked where, and that *)
(* the locks implement RecursiveLock.                                      *)
(***************************************************************************)
EXTENDS Sync, SchedulerProofs

-----------------------------------------------------------------------------
(***************************************************************************)
(* The inductive invariant.  Mutual exclusion alone is not inductive: that *)
(* sema_down finds a free semaphore only when nobody has the lock needs    *)
(* the count of tokens, and that a nested lock_acquire skips sema_down     *)
(* needs the holder field and the nesting depth.                           *)
(***************************************************************************)
LockInv == CallState /\ HolderCounts /\ MutualExclusion /\ ValueCounts

\* A thread inside a section has the token, and inside the lock code it has
\* a lock.
LEMMA SectionToken ==
    ASSUME TypeOK, CallState, NEW t \in Threads
    PROVE  /\ \A l \in Locks : InSection(t, l) => HasToken(t, l)
           /\ pc[t] # "out" => lk[t] \in Locks
BY DEF TypeOK, CallState, InSection, HasToken, PC

\* The holder test of lock_acquire: only the holder skips sema_down.
LEMMA AcquireTestStep ==
    ASSUME TypeOK, LockInv, NEW t \in Threads, lock_acquire(t)
    PROVE  TypeOK' /\ LockInv'
<1> USE DEF LockInv
<1>1. lk[t] \in Locks /\ \A u \in Threads, l \in Locks : InSection(u, l) => HasToken(u, l)
  BY SectionToken DEF PC, At, Goto, threadVars, syncVars, lock_acquire
<1>2. TypeOK'
  BY <1>1 DEF TypeOK, ThreadTypeOK, CallState, PC, At, Goto, threadVars, syncVars, lock_acquire
<1>3. CallState'
  BY <1>1, SyncAssumption DEF TypeOK, CallState, HolderCounts, PC, At, Goto, threadVars, syncVars, lock_acquire
<1>4. HolderCounts'
  BY <1>1, SyncAssumption
     DEF TypeOK, CallState, HolderCounts, MutualExclusion, HasToken, InSection, PC, At, Goto, threadVars, syncVars, lock_acquire
<1>5. \A u \in Threads, l \in Locks : HasToken(u, l)' <=> HasToken(u, l)
  BY <1>1 DEF TypeOK, CallState, HolderCounts, HasToken, PC, At, Goto, threadVars, syncVars, lock_acquire
<1>7. MutualExclusion'
  BY <1>5 DEF MutualExclusion, ValueCounts
<1>8. ValueCounts'
  BY <1>1, <1>5 DEF TypeOK, MutualExclusion, ValueCounts, PC, At, Goto, threadVars, syncVars, lock_acquire
<1> QED
  BY <1>2, <1>3, <1>4, <1>7, <1>8

\* sema_down takes a semaphore that nobody has.
LEMMA TakeStep ==
    ASSUME TypeOK, LockInv, NEW t \in Threads, sema_down_take(t)
    PROVE  TypeOK' /\ LockInv'
<1> USE DEF LockInv
<1>1. lk[t] \in Locks /\ \A u \in Threads, l \in Locks : InSection(u, l) => HasToken(u, l)
  BY SectionToken DEF PC, At, Goto, threadVars, syncVars, sema_down_take
<1>2. TypeOK'
  BY <1>1 DEF TypeOK, ThreadTypeOK, CallState, PC, At, Goto, threadVars, syncVars, sema_down_take
<1>3. CallState'
  BY <1>1, SyncAssumption DEF TypeOK, CallState, HolderCounts, PC, At, Goto, threadVars, syncVars, sema_down_take
<1>4. HolderCounts'
  BY <1>1, SyncAssumption
     DEF TypeOK, CallState, HolderCounts, MutualExclusion, HasToken, InSection, PC, At, Goto, threadVars, syncVars, sema_down_take
<1>5. \A u \in Threads, l \in Locks : HasToken(u, l)' <=> HasToken(u, l) \/ (u = t /\ l = lk[t])
  BY <1>1 DEF TypeOK, CallState, HolderCounts, HasToken, PC, At, Goto, threadVars, syncVars, sema_down_take
<1>6. value[lk[t]] = 1 /\ value'[lk[t]] = 0
  BY <1>1 DEF TypeOK, sema_down_take
<1>7. MutualExclusion'
  BY <1>6, <1>5 DEF MutualExclusion, ValueCounts
<1>8. ValueCounts'
  BY <1>6, <1>1, <1>5 DEF TypeOK, MutualExclusion, ValueCounts, PC, At, Goto, threadVars, syncVars, sema_down_take
<1> QED
  BY <1>2, <1>3, <1>4, <1>7, <1>8

\* The holder field is written by the one thread that has the token.
LEMMA SetHolderStep ==
    ASSUME TypeOK, LockInv, NEW t \in Threads, set_holder(t)
    PROVE  TypeOK' /\ LockInv'
<1> USE DEF LockInv
<1>1. lk[t] \in Locks /\ \A u \in Threads, l \in Locks : InSection(u, l) => HasToken(u, l)
  BY SectionToken DEF PC, At, Goto, threadVars, syncVars, set_holder
<1>2. TypeOK'
  BY <1>1 DEF TypeOK, ThreadTypeOK, CallState, PC, At, Goto, threadVars, syncVars, set_holder
<1>3. CallState'
  BY <1>1, SyncAssumption DEF TypeOK, CallState, HolderCounts, PC, At, Goto, threadVars, syncVars, set_holder
<1>4. HolderCounts'
  BY <1>1, SyncAssumption
     DEF TypeOK, CallState, HolderCounts, MutualExclusion, HasToken, InSection, PC, At, Goto, threadVars, syncVars, set_holder
<1>5. \A u \in Threads, l \in Locks : HasToken(u, l)' <=> HasToken(u, l)
  BY <1>1 DEF TypeOK, CallState, HolderCounts, HasToken, PC, At, Goto, threadVars, syncVars, set_holder
<1>7. MutualExclusion'
  BY <1>5 DEF MutualExclusion, ValueCounts
<1>8. ValueCounts'
  BY <1>1, <1>5 DEF TypeOK, MutualExclusion, ValueCounts, PC, At, Goto, threadVars, syncVars, set_holder
<1> QED
  BY <1>2, <1>3, <1>4, <1>7, <1>8

\* The outermost lock_acquire returns.
LEMMA SetRepeatStep ==
    ASSUME TypeOK, LockInv, NEW t \in Threads, set_repeat(t)
    PROVE  TypeOK' /\ LockInv'
<1> USE DEF LockInv
<1>1. lk[t] \in Locks /\ \A u \in Threads, l \in Locks : InSection(u, l) => HasToken(u, l)
  BY SectionToken DEF PC, At, Goto, threadVars, syncVars, set_repeat
<1>2. TypeOK'
  BY <1>1 DEF TypeOK, ThreadTypeOK, CallState, PC, At, Goto, threadVars, syncVars, set_repeat
<1>3. CallState'
  BY <1>1, SyncAssumption DEF TypeOK, CallState, HolderCounts, PC, At, Goto, threadVars, syncVars, set_repeat
<1>4. HolderCounts'
  BY <1>1, SyncAssumption
     DEF TypeOK, CallState, HolderCounts, MutualExclusion, HasToken, InSection, PC, At, Goto, threadVars, syncVars, set_repeat
<1>5. \A u \in Threads, l \in Locks : HasToken(u, l)' <=> HasToken(u, l)
  BY <1>1 DEF TypeOK, CallState, HolderCounts, HasToken, PC, At, Goto, threadVars, syncVars, set_repeat
<1>7. MutualExclusion'
  BY <1>5 DEF MutualExclusion, ValueCounts
<1>8. ValueCounts'
  BY <1>1, <1>5 DEF TypeOK, MutualExclusion, ValueCounts, PC, At, Goto, threadVars, syncVars, set_repeat
<1> QED
  BY <1>2, <1>3, <1>4, <1>7, <1>8

\* A nested lock_acquire returns.
LEMMA IncRepeatStep ==
    ASSUME TypeOK, LockInv, NEW t \in Threads, inc_repeat(t)
    PROVE  TypeOK' /\ LockInv'
<1> USE DEF LockInv
<1>1. lk[t] \in Locks /\ \A u \in Threads, l \in Locks : InSection(u, l) => HasToken(u, l)
  BY SectionToken DEF PC, At, Goto, threadVars, syncVars, inc_repeat
<1>2. TypeOK'
  BY <1>1 DEF TypeOK, ThreadTypeOK, CallState, PC, At, Goto, threadVars, syncVars, inc_repeat
<1>3. CallState'
  BY <1>1, SyncAssumption DEF TypeOK, CallState, HolderCounts, PC, At, Goto, threadVars, syncVars, inc_repeat
<1>4. HolderCounts'
  BY <1>1, SyncAssumption
     DEF TypeOK, CallState, HolderCounts, MutualExclusion, HasToken, InSection, PC, At, Goto, threadVars, syncVars, inc_repeat
<1>5. \A u \in Threads, l \in Locks : HasToken(u, l)' <=> HasToken(u, l)
  BY <1>1 DEF TypeOK, CallState, HolderCounts, HasToken, PC, At, Goto, threadVars, syncVars, inc_repeat
<1>7. MutualExclusion'
  BY <1>5 DEF MutualExclusion, ValueCounts
<1>8. ValueCounts'
  BY <1>1, <1>5 DEF TypeOK, MutualExclusion, ValueCounts, PC, At, Goto, threadVars, syncVars, inc_repeat
<1> QED
  BY <1>2, <1>3, <1>4, <1>7, <1>8

\* A lock_release is called.
LEMMA CallReleaseStep ==
    ASSUME TypeOK, LockInv, NEW t \in Threads, CallRelease(t)
    PROVE  TypeOK' /\ LockInv'
<1> USE DEF LockInv
<1>1. lk[t] \in Locks /\ \A u \in Threads, l \in Locks : InSection(u, l) => HasToken(u, l)
  BY SectionToken DEF PC, At, Goto, threadVars, syncVars, CallRelease
<1>2. TypeOK'
  BY <1>1 DEF TypeOK, ThreadTypeOK, CallState, PC, At, Goto, threadVars, syncVars, CallRelease
<1>3. CallState'
  BY <1>1, SyncAssumption DEF TypeOK, CallState, HolderCounts, PC, At, Goto, threadVars, syncVars, CallRelease
<1>4. HolderCounts'
  BY <1>1, SyncAssumption
     DEF TypeOK, CallState, HolderCounts, MutualExclusion, HasToken, InSection, PC, At, Goto, threadVars, syncVars, CallRelease
<1>5. \A u \in Threads, l \in Locks : HasToken(u, l)' <=> HasToken(u, l)
  BY <1>1 DEF TypeOK, CallState, HolderCounts, HasToken, PC, At, Goto, threadVars, syncVars, CallRelease
<1>7. MutualExclusion'
  BY <1>5 DEF MutualExclusion, ValueCounts
<1>8. ValueCounts'
  BY <1>1, <1>5 DEF TypeOK, MutualExclusion, ValueCounts, PC, At, Goto, threadVars, syncVars, CallRelease
<1> QED
  BY <1>2, <1>3, <1>4, <1>7, <1>8

\* lock_release counts an inner release and goes on with the last one.
LEMMA ReleaseStep ==
    ASSUME TypeOK, LockInv, NEW t \in Threads, lock_release(t)
    PROVE  TypeOK' /\ LockInv'
<1> USE DEF LockInv
<1>1. lk[t] \in Locks /\ \A u \in Threads, l \in Locks : InSection(u, l) => HasToken(u, l)
  BY SectionToken DEF PC, At, Goto, threadVars, syncVars, lock_release, Return
<1>2. TypeOK'
  <2>1. repeat' \in [Locks -> Nat]
    <3>1. repeat[lk[t]] \in Nat
      BY <1>1 DEF TypeOK
    <3>2. \E n \in Nat : repeat' = [repeat EXCEPT ![lk[t]] = n]
      BY <3>1 DEF lock_release
    <3> QED
      BY <3>2 DEF TypeOK
  <2>2. pc' \in [Threads -> PC] /\ lk' \in [Threads -> Locks \cup {None}]
    BY <1>1 DEF TypeOK, PC, Goto, lock_release, Return
  <2> QED
    BY <2>1, <2>2 DEF TypeOK, ThreadTypeOK, threadVars, lock_release
<1>3. CallState'
  BY <1>1, SyncAssumption DEF TypeOK, CallState, HolderCounts, PC, At, Goto, threadVars, syncVars, lock_release, Return
<1>4. HolderCounts'
  BY <1>1, SyncAssumption
     DEF TypeOK, CallState, HolderCounts, MutualExclusion, HasToken, InSection, PC, At, Goto, threadVars, syncVars, lock_release, Return
<1>5. \A u \in Threads, l \in Locks : HasToken(u, l)' <=> HasToken(u, l)
  BY <1>1 DEF TypeOK, CallState, HolderCounts, HasToken, PC, At, Goto, threadVars, syncVars, lock_release, Return
<1>7. MutualExclusion'
  BY <1>5 DEF MutualExclusion, ValueCounts
<1>8. ValueCounts'
  BY <1>1, <1>5 DEF TypeOK, MutualExclusion, ValueCounts, PC, At, Goto, threadVars, syncVars, lock_release, Return
<1> QED
  BY <1>2, <1>3, <1>4, <1>7, <1>8

\* The holder field is cleared before the token is given back.
LEMMA ClearHolderStep ==
    ASSUME TypeOK, LockInv, NEW t \in Threads, clear_holder(t)
    PROVE  TypeOK' /\ LockInv'
<1> USE DEF LockInv
<1>1. lk[t] \in Locks /\ \A u \in Threads, l \in Locks : InSection(u, l) => HasToken(u, l)
  BY SectionToken DEF PC, At, Goto, threadVars, syncVars, clear_holder
<1>2. TypeOK'
  BY <1>1 DEF TypeOK, ThreadTypeOK, CallState, PC, At, Goto, threadVars, syncVars, clear_holder
<1>3. CallState'
  BY <1>1, SyncAssumption DEF TypeOK, CallState, HolderCounts, PC, At, Goto, threadVars, syncVars, clear_holder
<1>4. HolderCounts'
  BY <1>1, SyncAssumption
     DEF TypeOK, CallState, HolderCounts, MutualExclusion, HasToken, InSection, PC, At, Goto, threadVars, syncVars, clear_holder
<1>5. \A u \in Threads, l \in Locks : HasToken(u, l)' <=> HasToken(u, l)
  BY <1>1 DEF TypeOK, CallState, HolderCounts, HasToken, PC, At, Goto, threadVars, syncVars, clear_holder
<1>7. MutualExclusion'
  BY <1>5 DEF MutualExclusion, ValueCounts
<1>8. ValueCounts'
  BY <1>1, <1>5 DEF TypeOK, MutualExclusion, ValueCounts, PC, At, Goto, threadVars, syncVars, clear_holder
<1> QED
  BY <1>2, <1>3, <1>4, <1>7, <1>8

\* The holder goes on after its wait.
LEMMA EventReturnStep ==
    ASSUME TypeOK, LockInv, NEW t \in Threads, EventReturn(t)
    PROVE  TypeOK' /\ LockInv'
<1> USE DEF LockInv
<1>1. lk[t] \in Locks /\ \A u \in Threads, l \in Locks : InSection(u, l) => HasToken(u, l)
  BY SectionToken DEF PC, At, Goto, threadVars, syncVars, EventReturn
<1>2. TypeOK'
  BY <1>1 DEF TypeOK, ThreadTypeOK, CallState, PC, At, Goto, threadVars, syncVars, EventReturn
<1>3. CallState'
  BY <1>1, SyncAssumption DEF TypeOK, CallState, HolderCounts, PC, At, Goto, threadVars, syncVars, EventReturn
<1>4. HolderCounts'
  BY <1>1, SyncAssumption
     DEF TypeOK, CallState, HolderCounts, MutualExclusion, HasToken, InSection, PC, At, Goto, threadVars, syncVars, EventReturn
<1>5. \A u \in Threads, l \in Locks : HasToken(u, l)' <=> HasToken(u, l)
  BY <1>1 DEF TypeOK, CallState, HolderCounts, HasToken, PC, At, Goto, threadVars, syncVars, EventReturn
<1>7. MutualExclusion'
  BY <1>5 DEF MutualExclusion, ValueCounts
<1>8. ValueCounts'
  BY <1>1, <1>5 DEF TypeOK, MutualExclusion, ValueCounts, PC, At, Goto, threadVars, syncVars, EventReturn
<1> QED
  BY <1>2, <1>3, <1>4, <1>7, <1>8

\* A thread enters the lock code, or enters it again from its section.
LEMMA CallAcquireStep ==
    ASSUME TypeOK, LockInv, NEW t \in Threads, NEW m \in Locks,
           CallAcquire(t, m)
    PROVE  TypeOK' /\ LockInv'
<1> USE DEF LockInv, threadVars, syncVars
<1>1. TypeOK'
  BY DEF TypeOK, ThreadTypeOK, PC, Goto, CallAcquire
<1>2. CallState'
  BY SyncAssumption DEF TypeOK, CallState, PC, Goto, CallAcquire
<1>3. HolderCounts'
  BY SyncAssumption
     DEF TypeOK, CallState, HolderCounts, InSection, PC, Goto, CallAcquire
<1>4. \A u \in Threads, l \in Locks : HasToken(u, l)' <=> HasToken(u, l)
  BY SyncAssumption DEF TypeOK, CallState, HasToken, PC, Goto, CallAcquire
<1>5. MutualExclusion'
  BY <1>4 DEF MutualExclusion
<1>6. ValueCounts'
  BY <1>4 DEF ValueCounts, CallAcquire
<1> QED
  BY <1>1, <1>2, <1>3, <1>5, <1>6

\* Only the scheduler's state and the waiters lists change: the lock's
\* accounting is not touched.
LEMMA SchedulerStep ==
    ASSUME LockInv, UNCHANGED <<value, holder, repeat, callVars>>
    PROVE  LockInv'
BY DEF LockInv, CallState, HolderCounts, MutualExclusion, ValueCounts,
       HasToken, InSection, callVars

\* sema_down puts its thread to sleep: it had no token and gets none.
LEMMA DownBlockStep ==
    ASSUME TypeOK, LockInv, NEW t \in Threads, sema_down_block(t)
    PROVE  TypeOK' /\ LockInv'
<1> USE DEF LockInv
<1>1. lk[t] \in Locks
  BY SectionToken DEF sema_down_block
<1>2. ThreadTypeOK'
  BY BlockType DEF sema_down_block, TypeOK, ThreadTypeOK, TaskStatus
<1>3. waiters' \in [Locks -> Seq(Threads)]
  BY <1>1 DEF sema_down_block, TypeOK
<1>4. TypeOK'
  BY <1>2, <1>3 DEF sema_down_block, TypeOK, PC, Goto
<1>5. CallState'
  BY DEF sema_down_block, TypeOK, CallState, PC, Goto
<1>6. HolderCounts'
  BY DEF sema_down_block, TypeOK, HolderCounts, CallState, InSection, PC, Goto
<1>7. \A u \in Threads, l \in Locks : HasToken(u, l)' <=> HasToken(u, l)
  BY DEF sema_down_block, TypeOK, HasToken, PC, Goto
<1>8. MutualExclusion' /\ ValueCounts'
  BY <1>7 DEF sema_down_block, MutualExclusion, ValueCounts
<1> QED
  BY <1>4, <1>5, <1>6, <1>8

\* The holder blocks for an event and keeps its token.
LEMMA WaitEventStep ==
    ASSUME TypeOK, LockInv, NEW t \in Threads, WaitEvent(t)
    PROVE  TypeOK' /\ LockInv'
<1> USE DEF LockInv
<1>1. ThreadTypeOK'
  BY BlockType DEF WaitEvent, TypeOK, ThreadTypeOK, TaskStatus
<1>2. TypeOK'
  BY <1>1 DEF WaitEvent, TypeOK, PC, Goto, syncVars
<1>3. CallState'
  BY DEF WaitEvent, At, TypeOK, CallState, PC, Goto
<1>4. HolderCounts'
  BY DEF WaitEvent, At, TypeOK, HolderCounts, CallState, InSection, PC, Goto, syncVars
<1>5. \A u \in Threads, l \in Locks : HasToken(u, l)' <=> HasToken(u, l)
  BY DEF WaitEvent, At, TypeOK, HasToken, PC, Goto
<1>6. MutualExclusion' /\ ValueCounts'
  BY <1>5 DEF WaitEvent, MutualExclusion, ValueCounts, syncVars
<1> QED
  BY <1>2, <1>3, <1>4, <1>6

\* sema_up gives the one token back and wakes a waiter.
LEMMA UpStep ==
    ASSUME TypeOK, LockInv, NEW t \in Threads, sema_up(t)
    PROVE  TypeOK' /\ LockInv'
<1> USE DEF LockInv
<1>1. lk[t] \in Locks /\ depth[t] = 0 /\ HasToken(t, lk[t])
  BY SectionToken DEF sema_up, At, CallState, HasToken
<1>2. value[lk[t]] = 0
  BY <1>1 DEF ValueCounts
<1>3. value' = [value EXCEPT ![lk[t]] = 1] /\ value' \in [Locks -> {0, 1}]
  BY <1>1, <1>2 DEF sema_up, ValueUp, WakeWaiter, TypeOK
<1>4. /\ ready' \in Seq(Threads)
      /\ status' \in [Threads -> TaskStatus]
      /\ waiters' \in [Locks -> Seq(Threads)]
  <2>1. CASE waiters[lk[t]] # <<>>
    <3>1. /\ Head(waiters[lk[t]]) \in Threads
          /\ Tail(waiters[lk[t]]) \in Seq(Threads)
      BY <1>1, <2>1 DEF TypeOK
    <3>2. /\ thread_unlock(Head(waiters[lk[t]]))
          /\ waiters' = [waiters EXCEPT ![lk[t]] = Tail(@)]
      BY <2>1 DEF sema_up, ValueUp, WakeWaiter
    <3> QED
      BY <1>1, <3>1, <3>2, UnlockType DEF TypeOK
  <2>2. CASE waiters[lk[t]] = <<>>
    BY <2>2 DEF sema_up, ValueUp, WakeWaiter, TypeOK, ThreadTypeOK
  <2> QED
    BY <2>1, <2>2
<1>5. pc' = [pc EXCEPT ![t] = "out"] /\ lk' = [lk EXCEPT ![t] = None]
  BY <1>1 DEF sema_up, Return, Goto
<1>6. TypeOK'
  BY <1>3, <1>4, <1>5 DEF sema_up, TypeOK, ThreadTypeOK, PC
<1>7. CallState'
  BY <1>1, <1>5 DEF sema_up, TypeOK, CallState
<1>8. HolderCounts'
  BY <1>1, <1>5, SyncAssumption
     DEF sema_up, At, TypeOK, HolderCounts, CallState, InSection
<1>9. \A u \in Threads, l \in Locks : HasToken(u, l)' <=> HasToken(u, l) /\ u # t
  BY <1>1, <1>5, SyncAssumption DEF sema_up, ValueUp, WakeWaiter, TypeOK, HasToken
<1>10. MutualExclusion'
  BY <1>9 DEF MutualExclusion
<1>11. ValueCounts'
  <2> SUFFICES ASSUME NEW l \in Locks
               PROVE  value'[l] = 0 <=> \E u \in Threads : HasToken(u, l)'
    BY DEF ValueCounts
  <2>1. CASE l = lk[t]
    <3>1. \A u \in Threads : ~HasToken(u, l)'
      BY <1>1, <1>9, <2>1 DEF MutualExclusion
    <3> QED
      BY <1>3, <2>1, <3>1 DEF TypeOK
  <2>2. CASE l # lk[t]
    <3>1. value'[l] = value[l] /\ ~HasToken(t, l)
      BY <1>3, <2>2 DEF TypeOK, HasToken
    <3> QED
      BY <1>9, <3>1 DEF ValueCounts
  <2> QED
    BY <2>1, <2>2
<1> QED
  BY <1>6, <1>7, <1>8, <1>10, <1>11

\* The timer, a device interrupt and the idle loop keep the types.
LEMMA InterruptStep ==
    ASSUME TypeOK, LockInv,
           Timer \/ IdleLoop \/ \E t \in Threads : Event(t)
    PROVE  TypeOK' /\ LockInv'
<1>1. UNCHANGED <<syncVars, callVars>>
  BY DEF Timer, IdleLoop, Event
<1>2. LockInv'
  BY <1>1, SchedulerStep DEF syncVars
<1>3. ThreadTypeOK'
  <2>1. CASE Timer
    BY <2>1, TimerType DEF Timer, TypeOK
  <2>2. CASE IdleLoop
    BY <2>2, BlockType DEF IdleLoop, idle, TypeOK, ThreadTypeOK, TaskStatus
  <2>3. ASSUME NEW t \in Threads, Event(t) PROVE ThreadTypeOK'
    <3>1. halted' \in BOOLEAN
      BY <2>3, Zenon DEF Event, Interrupted
    <3> QED
      BY <2>3, <3>1, UnlockType DEF Event, TypeOK, ThreadTypeOK
  <2> QED
    BY <2>1, <2>2, <2>3
<1> QED
  BY <1>1, <1>2, <1>3 DEF TypeOK, syncVars, callVars

\* The invariant holds of every behaviour: the locks of sync.c are typed,
\* exclusive, and keep count, for any threads, locks, priorities and nesting.
THEOREM LockInvariant == Spec => [](TypeOK /\ LockInv)
<1>1. Init => TypeOK /\ LockInv
  <2> SUFFICES ASSUME Init PROVE TypeOK /\ LockInv
    OBVIOUS
  <2>1. ThreadTypeOK
    <3>1. BootReady \in Seq(Threads)
      <4>1. BootReady \in Seq(Threads \ {Main}) /\ Threads \ {Main} \subseteq Threads
        BY BootAssumption
      <4> QED
        BY <4>1, SeqMonotonic
    <3> QED
      BY <3>1, BootAssumption, PriorityAssumption
         DEF Init, ThreadInit, ThreadTypeOK, TaskStatus
  <2>2. TypeOK
    BY <2>1 DEF Init, TypeOK, PC
  <2>3. LockInv
    BY SyncAssumption
       DEF Init, LockInv, CallState, HolderCounts, MutualExclusion, ValueCounts,
           HasToken, InSection
  <2> QED
    BY <2>2, <2>3
<1>2. TypeOK /\ LockInv /\ [Next]_vars => (TypeOK /\ LockInv)'
  <2> SUFFICES ASSUME TypeOK, LockInv, [Next]_vars PROVE TypeOK' /\ LockInv'
    OBVIOUS
  <2>1. ASSUME NEW t \in Threads, NEW l \in Locks, CallAcquire(t, l)
        PROVE  TypeOK' /\ LockInv'
    BY <2>1, CallAcquireStep
  <2>2. ASSUME NEW t \in Threads, LockCode(t) PROVE TypeOK' /\ LockInv'
    BY <2>2, AcquireTestStep, DownBlockStep, TakeStep, SetHolderStep,
       SetRepeatStep, IncRepeatStep, ReleaseStep, ClearHolderStep, UpStep
       DEF LockCode
  <2>3. ASSUME NEW t \in Threads,
               WaitEvent(t) \/ Event(t) \/ EventReturn(t) \/ CallRelease(t)
        PROVE  TypeOK' /\ LockInv'
    BY <2>3, WaitEventStep, InterruptStep, EventReturnStep, CallReleaseStep
  <2>4. CASE Timer \/ IdleLoop
    BY <2>4, InterruptStep
  <2>5. CASE UNCHANGED vars
    <3>1. LockInv'
      BY <2>5, SchedulerStep DEF vars, syncVars
    <3> QED
      BY <2>5, <3>1 DEF vars, threadVars, syncVars, callVars, TypeOK, ThreadTypeOK
  <2> QED
    BY <2>1, <2>2, <2>3, <2>4, <2>5 DEF Next
<1> QED
  BY <1>1, <1>2, PTL DEF Spec

\* The state of scheduler and locks is always well typed; the semaphore of a
\* lock stays binary.
THEOREM SyncTyped == Spec => []TypeOK
BY LockInvariant, PTL

\* Two threads never have the same lock.
THEOREM LockExclusion == Spec => []MutualExclusion
<1>1. LockInv => MutualExclusion
  BY DEF LockInv
<1> QED
  BY <1>1, LockInvariant, PTL

\* The token, the holder and the repeat count of a lock agree with the calls of
\* lock_acquire and lock_release the threads are in, at every statement of them.
THEOREM LockAccounted == Spec => []LockAccounts
<1>1. LockInv => LockAccounts
  BY DEF LockInv, LockAccounts
<1> QED
  BY <1>1, LockInvariant, PTL

-----------------------------------------------------------------------------
(***************************************************************************)
(* Who is linked where.  The lists stay disjoint because the status tells  *)
(* them apart: the threads of the ready list may run, those of a waiters   *)
(* list are blocked in sema_down on that lock, and idle, which schedule    *)
(* pushes when nobody is ready, never calls lock_acquire.                  *)
(***************************************************************************)
ListInv ==
    /\ Linked(ready)
    /\ cur \notin Range(ready)
    /\ status[cur] = "RUNNING"
    /\ \A t \in Range(ready) : status[t] \in {"READY", "RUNNING"}
    /\ pc[Idle] = "out"
    /\ \A l \in Locks :
        /\ Linked(waiters[l])
        /\ \A t \in Range(waiters[l]) :
              status[t] = "BLOCKED" /\ pc[t] = "wait" /\ lk[t] = l

SyncInv == TypeOK /\ LockInv /\ ListInv /\ NoLostWakeup

\* The parts of the types that the steps below use.
LEMMA SyncTypes ==
    ASSUME SyncInv
    PROVE  /\ ThreadTypeOK /\ cur \in Threads /\ Idle \in Threads
           /\ Range(ready) \subseteq Threads
           /\ \A l \in Locks : Range(waiters[l]) \subseteq Threads
           /\ status \in [Threads -> TaskStatus] /\ pc \in [Threads -> PC]
           /\ lk \in [Threads -> Locks \cup {None}]
           /\ waiters \in [Locks -> Seq(Threads)] /\ value \in [Locks -> {0, 1}]
BY BootAssumption, RangeIndex DEF SyncInv, ListInv, Linked, TypeOK, ThreadTypeOK

\* A call of schedule by a thread that blocks or is preempted: the lists stay
\* apart, and who was ready runs or still is.
LEMMA ScheduleLists ==
    ASSUME SyncInv, NEW state \in {"RUNNING", "BLOCKED"},
           schedule([status EXCEPT ![cur] = state], ready)
    PROVE  /\ Linked(ready') /\ cur' \notin Range(ready')
           /\ status'[cur'] = "RUNNING"
           /\ \A t \in Range(ready') : status'[t] \in {"READY", "RUNNING"}
           /\ \A t \in Threads : status[t] = "BLOCKED" /\ t # Idle =>
                                  status'[t] = "BLOCKED"
           /\ Range(ready) \subseteq Range(ready') \cup {cur'}
           /\ state = "RUNNING" => cur \in Range(ready') \cup {cur'}
           /\ state = "BLOCKED" /\ cur # Idle => status'[cur] = "BLOCKED"
<1> DEFINE st == [status EXCEPT ![cur] = state]
           Q == IF st[cur] = "RUNNING" THEN Range(ready) \cup {cur} ELSE Range(ready)
<1>1. /\ ThreadTypeOK /\ cur \in Threads /\ Idle \in Threads /\ Range(ready) \subseteq Threads
      /\ status \in [Threads -> TaskStatus]
      /\ st \in [Threads -> TaskStatus] /\ st[cur] = state
  BY SyncTypes DEF TaskStatus
<1>2. /\ Linked(ready) /\ cur \notin Range(ready) /\ status[cur] = "RUNNING"
      /\ \A t \in Range(ready) : status[t] \in {"READY", "RUNNING"}
  BY DEF SyncInv, ListInv
<1>3. /\ cur' \in (IF Q = {} THEN {Idle} ELSE Q)
      /\ Linked(ready')
      /\ Range(ready') = Q \ {cur'}
      /\ status' = [t \in Threads |->
                     IF t = cur' THEN "RUNNING"
                     ELSE IF t = cur /\ st[cur] = "RUNNING" THEN "READY" ELSE st[t]]
  BY <1>1, <1>2, ScheduleLinked
<1>4. Q = IF state = "RUNNING" THEN Range(ready) \cup {cur} ELSE Range(ready)
  BY <1>1
<1> HIDE DEF Q
<1>5. cur' \in Threads
  BY <1>1, <1>3, <1>4
<1> QED
  BY <1>1, <1>2, <1>3, <1>4, <1>5

\* A step of the lock code that does not touch the scheduler keeps the lists.
LEMMA StillLists ==
    ASSUME SyncInv, UNCHANGED <<threadVars, waiters>>,
           NEW t \in Threads, t # Idle, t = cur,
           \A u \in Threads \ {t} : pc'[u] = pc[u] /\ lk'[u] = lk[u]
    PROVE  ListInv'
<1>1. \A l \in Locks : t \notin Range(waiters[l])
  BY DEF SyncInv, ListInv
<1>2. pc'[Idle] = "out"
  BY SyncTypes DEF SyncInv, ListInv
<1>3. ASSUME NEW l \in Locks, NEW u \in Range(waiters[l])
      PROVE  status[u] = "BLOCKED" /\ pc'[u] = "wait" /\ lk'[u] = l
  BY <1>1, <1>3, SyncTypes, ZenonT(60) DEF SyncInv, ListInv
<1> QED
  BY <1>2, <1>3 DEF SyncInv, ListInv, threadVars, Linked

\* Such a step loses no wake-up unless it frees a lock, or its thread was
\* woken for a lock and goes on without taking it.
LEMMA StillWoken ==
    ASSUME SyncInv, UNCHANGED <<threadVars, waiters>>,
           NEW t \in Threads, t = cur,
           \A u \in Threads \ {t} : pc'[u] = pc[u] /\ lk'[u] = lk[u],
           \A l \in Locks : value'[l] = 1 => value[l] = 1,
           pc[t] # "wait" \/ value'[lk[t]] = 0
    PROVE  NoLostWakeup'
<1> SUFFICES ASSUME NEW l \in Locks, value'[l] = 1, waiters'[l] # <<>>
             PROVE  \E u \in Threads : pc'[u] = "wait" /\ lk'[u] = l
                             /\ (u = cur' \/ u \in Range(ready'))
  BY DEF NoLostWakeup
<1>1. PICK u \in Threads : pc[u] = "wait" /\ lk[u] = l /\ (u = cur \/ u \in Range(ready))
  BY DEF SyncInv, NoLostWakeup
<1>2. u # t
  BY <1>1
<1> QED
  BY <1>1, <1>2 DEF threadVars

\* The statements of lock_acquire and lock_release that change no list.
LEMMA PlainStep ==
    ASSUME SyncInv, NEW t \in Threads,
           \/ \E l \in Locks : CallAcquire(t, l)
           \/ lock_acquire(t) \/ sema_down_take(t) \/ set_holder(t) \/ set_repeat(t)
           \/ inc_repeat(t) \/ lock_release(t) \/ clear_holder(t)
           \/ EventReturn(t) \/ CallRelease(t)
    PROVE  ListInv' /\ NoLostWakeup'
<1> USE SyncTypes
<1>1. t = cur /\ t # Idle /\ UNCHANGED <<threadVars, waiters>>
  BY DEF CallAcquire, lock_acquire, sema_down_take, set_holder, set_repeat, inc_repeat,
         lock_release, clear_holder, EventReturn, CallRelease, At, syncVars, threadVars,
         SyncInv, ListInv
<1>2. \A u \in Threads \ {t} : pc'[u] = pc[u] /\ lk'[u] = lk[u]
  BY DEF CallAcquire, lock_acquire, sema_down_take, set_holder, set_repeat, inc_repeat,
         lock_release, clear_holder, EventReturn, CallRelease, Goto, Return
<1>3. CASE ~sema_down_take(t)
  <2>1. value' = value /\ pc[t] # "wait"
    BY <1>3 DEF CallAcquire, lock_acquire, set_holder, set_repeat, inc_repeat,
         lock_release, clear_holder, EventReturn, CallRelease, At, syncVars
  <2> QED
    BY <1>1, <1>2, <2>1, StillLists, StillWoken
<1>4. CASE sema_down_take(t)
  <2>1. lk[t] \in Locks
    BY <1>4, SectionToken DEF SyncInv, LockInv, sema_down_take
  <2>2. value[lk[t]] = 1
    BY <1>4, <2>1 DEF sema_down_take
  <2>3. value' = [value EXCEPT ![lk[t]] = 0]
    BY <1>4, <2>2 DEF sema_down_take
  <2> QED
    BY <1>1, <1>2, <2>1, <2>3, StillLists, StillWoken
<1> QED
  BY <1>3, <1>4

\* The running thread blocks, in sema_down or for an event.
LEMMA BlockLists ==
    ASSUME SyncInv, NEW t \in Threads, sema_down_block(t) \/ WaitEvent(t)
    PROVE  ListInv' /\ NoLostWakeup'
<1>1. /\ t = cur /\ t # Idle /\ lk' = lk /\ value' = value
      /\ schedule([status EXCEPT ![cur] = "BLOCKED"], ready)
  BY DEF sema_down_block, WaitEvent, At, thread_block, syncVars, SyncInv, ListInv
<1>2. /\ Linked(ready') /\ cur' \notin Range(ready')
      /\ status'[cur'] = "RUNNING"
      /\ \A u \in Range(ready') : status'[u] \in {"READY", "RUNNING"}
      /\ \A u \in Threads : status[u] = "BLOCKED" /\ u # Idle => status'[u] = "BLOCKED"
      /\ Range(ready) \subseteq Range(ready') \cup {cur'}
      /\ status'[t] = "BLOCKED"
  BY <1>1, ScheduleLists
<1>3. lk[t] \in Locks
  BY SectionToken DEF SyncInv, LockInv, sema_down_block, WaitEvent, At
<1>4. /\ \A u \in Threads \ {t} : pc'[u] = pc[u]
      /\ pc'[Idle] = "out"
  BY <1>1, SyncTypes DEF sema_down_block, WaitEvent, Goto, SyncInv, ListInv
<1>5. \A l \in Locks : t \notin Range(waiters[l]) /\ Idle \notin Range(waiters[l])
  BY <1>1 DEF SyncInv, ListInv
<1>6. ASSUME NEW l \in Locks
      PROVE  /\ Linked(waiters'[l])
             /\ \/ waiters'[l] = waiters[l]
                \/ /\ sema_down_block(t) /\ l = lk[t]
                   /\ Range(waiters'[l]) = Range(waiters[l]) \cup {t}
  <2>1. Linked(waiters[l])
    BY DEF SyncInv, ListInv
  <2>2. CASE sema_down_block(t) /\ l = lk[t]
    <3>1. waiters'[l] = Append(waiters[l], t)
      BY <2>2, SyncTypes DEF sema_down_block
    <3> QED
      BY <1>5, <2>1, <2>2, <3>1, AppendLinked
  <2>3. CASE ~(sema_down_block(t) /\ l = lk[t])
    BY <2>1, <2>3, SyncTypes DEF sema_down_block, WaitEvent, syncVars
  <2> QED
    BY <2>2, <2>3
<1>7. ASSUME NEW l \in Locks, NEW u \in Range(waiters'[l])
      PROVE  status'[u] = "BLOCKED" /\ pc'[u] = "wait" /\ lk'[u] = l
  <2>1. CASE u \in Range(waiters[l])
    <3>1. status[u] = "BLOCKED" /\ pc[u] = "wait" /\ lk[u] = l /\ u \in Threads
      BY <2>1, SyncTypes DEF SyncInv, ListInv
    <3> QED
      BY <1>1, <1>2, <1>4, <1>5, <2>1, <3>1
  <2>2. CASE u \notin Range(waiters[l])
    <3>1. u = t /\ sema_down_block(t) /\ l = lk[t]
      BY <1>6, <1>7, <2>2
    <3> QED
      BY <1>1, <1>2, <3>1, SyncTypes DEF sema_down_block, Goto
  <2> QED
    BY <2>1, <2>2
<1>8. ListInv'
  BY <1>2, <1>4, <1>6, <1>7 DEF ListInv
<1>9. NoLostWakeup'
  <2> SUFFICES ASSUME NEW l \in Locks, value'[l] = 1, waiters'[l] # <<>>
               PROVE  \E u \in Threads : pc'[u] = "wait" /\ lk'[u] = l
                             /\ (u = cur' \/ u \in Range(ready'))
    BY DEF NoLostWakeup
  <2>1. waiters'[l] = waiters[l]
    BY <1>1, <1>6 DEF sema_down_block
  <2>2. PICK u \in Threads : pc[u] = "wait" /\ lk[u] = l /\ (u = cur \/ u \in Range(ready))
    BY <1>1, <2>1 DEF SyncInv, NoLostWakeup
  <2>3. u # t
    BY <1>1, <2>2 DEF sema_down_block, WaitEvent, At
  <2> QED
    BY <1>1, <1>2, <1>4, <2>2, <2>3
<1> QED
  BY <1>8, <1>9

\* sema_up moves the first waiter to the ready list.
LEMMA UpLists ==
    ASSUME SyncInv, NEW t \in Threads, sema_up(t)
    PROVE  ListInv' /\ NoLostWakeup'
<1> DEFINE l == lk[t]
<1>1. /\ t = cur /\ t # Idle /\ cur' = cur /\ l \in Locks
      /\ \A u \in Threads \ {t} : pc'[u] = pc[u] /\ lk'[u] = lk[u]
      /\ \A m \in Locks \ {l} : value'[m] = value[m]
  BY SectionToken, SyncTypes
     DEF sema_up, At, Return, Goto, SyncInv, LockInv, ListInv
<1>2. \A m \in Locks : /\ Linked(waiters[m])
                        /\ t \notin Range(waiters[m])
                        /\ Range(waiters[m]) \subseteq Threads
                        /\ \A u \in Range(waiters[m]) :
                              status[u] = "BLOCKED" /\ pc[u] = "wait" /\ lk[u] = m
  BY <1>1, SyncTypes DEF SyncInv, ListInv
<1>3. pc'[Idle] = "out"
  BY <1>1, SyncTypes DEF SyncInv, ListInv
<1>4. CASE waiters[l] = <<>>
  <2>1. UNCHANGED <<threadVars, waiters>>
    BY <1>4 DEF sema_up, WakeWaiter, threadVars
  <2>2. ListInv'
    BY <1>1, <2>1, StillLists
  <2>3. NoLostWakeup'
    <3> SUFFICES ASSUME NEW m \in Locks, value'[m] = 1, waiters'[m] # <<>>
                 PROVE  \E u \in Threads : pc'[u] = "wait" /\ lk'[u] = m
                             /\ (u = cur' \/ u \in Range(ready'))
      BY DEF NoLostWakeup
    <3>1. m # l
      BY <1>4, <2>1
    <3>2. PICK u \in Threads : pc[u] = "wait" /\ lk[u] = m /\ (u = cur \/ u \in Range(ready))
      BY <1>1, <2>1, <3>1 DEF SyncInv, NoLostWakeup
    <3> QED
      BY <1>1, <2>1, <3>1, <3>2 DEF threadVars
  <2> QED
    BY <2>2, <2>3
<1>5. CASE waiters[l] # <<>>
  <2> DEFINE h == Head(waiters[l])
  <2>1. /\ thread_unlock(h)
        /\ waiters' = [waiters EXCEPT ![l] = Tail(waiters[l])]
    BY <1>5 DEF sema_up, WakeWaiter
  <2>2. /\ h \in Range(waiters[l]) /\ Linked(Tail(waiters[l]))
        /\ Range(Tail(waiters[l])) = Range(waiters[l]) \ {h}
    BY <1>1, <1>2, <1>5, PopLinked
  <2> HIDE DEF h
  <2>3. h \in Threads /\ status[h] = "BLOCKED" /\ pc[h] = "wait" /\ lk[h] = l /\ h # t
    BY <1>1, <1>2, <2>2
  <2>4. h \notin Range(ready)
    BY <2>3 DEF SyncInv, ListInv
  <2>5. /\ Linked(ready') /\ Range(ready') = Range(ready) \cup {h}
        /\ status' = [status EXCEPT ![h] = "RUNNING"]
    BY <2>1, <2>3, <2>4, UnlockLinked, SyncTypes DEF SyncInv, ListInv
  <2>6. ASSUME NEW m \in Locks
        PROVE  /\ Linked(waiters'[m])
               /\ Range(waiters'[m]) \subseteq Range(waiters[m]) \ {h}
    BY <1>1, <1>2, <2>1, <2>2, <2>3, SyncTypes
  <2>7. ASSUME NEW m \in Locks, NEW u \in Range(waiters'[m])
        PROVE  status'[u] = "BLOCKED" /\ pc'[u] = "wait" /\ lk'[u] = m
    <3>1. u \in Range(waiters[m]) /\ u # h /\ u # t /\ u \in Threads
      BY <1>2, <2>6, <2>7
    <3> QED
      BY <1>1, <1>2, <2>5, <3>1, SyncTypes
  <2>8. ListInv'
    <3>1. /\ cur' \notin Range(ready') /\ status'[cur'] = "RUNNING"
          /\ \A u \in Range(ready') : status'[u] \in {"READY", "RUNNING"}
      BY <1>1, <2>3, <2>5, SyncTypes DEF SyncInv, ListInv
    <3> QED
      BY <1>3, <2>5, <2>6, <2>7, <3>1 DEF ListInv
  <2>9. NoLostWakeup'
    <3> SUFFICES ASSUME NEW m \in Locks, value'[m] = 1, waiters'[m] # <<>>
                 PROVE  \E u \in Threads : pc'[u] = "wait" /\ lk'[u] = m
                             /\ (u = cur' \/ u \in Range(ready'))
      BY DEF NoLostWakeup
    <3>1. CASE m = l
      BY <1>1, <2>3, <2>5, <3>1
    <3>2. CASE m # l
      <4>1. waiters'[m] = waiters[m] /\ value[m] = 1
        BY <1>1, <2>1, <3>2, SyncTypes
      <4>2. PICK u \in Threads : pc[u] = "wait" /\ lk[u] = m /\ (u = cur \/ u \in Range(ready))
        BY <4>1 DEF SyncInv, NoLostWakeup
      <4> QED
        BY <1>1, <2>5, <3>2, <4>2
    <3> QED
      BY <3>1, <3>2
  <2> QED
    BY <2>8, <2>9
<1> QED
  BY <1>4, <1>5

\* The timer, the interrupt that ends a wait, and the idle loop.
LEMMA InterruptLists ==
    ASSUME SyncInv, Timer \/ IdleLoop \/ \E t \in Threads : Event(t)
    PROVE  ListInv' /\ NoLostWakeup'
<1>1. UNCHANGED <<syncVars, callVars>>
  BY DEF Timer, IdleLoop, Event
<1>2. ASSUME /\ Linked(ready') /\ cur' \notin Range(ready')
             /\ status'[cur'] = "RUNNING"
             /\ \A t \in Range(ready') : status'[t] \in {"READY", "RUNNING"}
             /\ \A l \in Locks : \A t \in Range(waiters[l]) : status'[t] = "BLOCKED"
             /\ Range(ready) \subseteq Range(ready') \cup {cur'}
             /\ cur # Idle => cur \in Range(ready') \cup {cur'}
      PROVE  ListInv' /\ NoLostWakeup'
  <2>1. ListInv'
    BY <1>1, <1>2 DEF SyncInv, ListInv, Linked, syncVars, callVars
  <2>2. ASSUME NEW l \in Locks, value'[l] = 1, waiters'[l] # <<>>
        PROVE  \E u \in Threads : pc'[u] = "wait" /\ lk'[u] = l
                             /\ (u = cur' \/ u \in Range(ready'))
    <3>1. PICK u \in Threads : pc[u] = "wait" /\ lk[u] = l /\ (u = cur \/ u \in Range(ready))
      BY <1>1, <2>2 DEF SyncInv, NoLostWakeup, syncVars
    <3>2. u # Idle
      BY <3>1 DEF SyncInv, ListInv
    <3> QED
      BY <1>1, <1>2, <3>1, <3>2 DEF callVars
  <2> QED
    BY <2>1, <2>2 DEF NoLostWakeup
<1>3. /\ \A l \in Locks : \A t \in Range(waiters[l]) :
              t \in Threads /\ t # Idle /\ status[t] = "BLOCKED" /\ pc[t] = "wait"
      /\ status[cur] = "RUNNING" /\ Linked(ready) /\ cur \notin Range(ready)
      /\ \A t \in Range(ready) : status[t] \in {"READY", "RUNNING"}
  BY SyncTypes DEF SyncInv, ListInv
<1>4. ASSUME NEW state \in {"RUNNING", "BLOCKED"},
             schedule([status EXCEPT ![cur] = state], ready),
             state = "BLOCKED" => cur = Idle
      PROVE  ListInv' /\ NoLostWakeup'
  <2>1. /\ Linked(ready') /\ cur' \notin Range(ready')
        /\ status'[cur'] = "RUNNING"
        /\ \A t \in Range(ready') : status'[t] \in {"READY", "RUNNING"}
        /\ \A t \in Threads : status[t] = "BLOCKED" /\ t # Idle => status'[t] = "BLOCKED"
        /\ Range(ready) \subseteq Range(ready') \cup {cur'}
        /\ state = "RUNNING" => cur \in Range(ready') \cup {cur'}
    BY <1>4, ScheduleLists
  <2> QED
    BY <1>2, <1>3, <1>4, <2>1
<1>5. CASE Timer
  <2>1. CASE ticks[cur] = 0
    <3>1. schedule(status, ready)
      BY <1>5, <2>1 DEF Timer, intr_timer_handler
    <3>2. status = [status EXCEPT ![cur] = "RUNNING"]
      BY <1>3, SyncTypes
    <3>3. schedule([status EXCEPT ![cur] = "RUNNING"], ready)
      BY <3>1, <3>2, Zenon
    <3> QED
      BY <1>4, <3>3
  <2>2. CASE ticks[cur] # 0
    <3>1. UNCHANGED <<cur, ready, status>>
      BY <1>5, <2>2 DEF Timer, intr_timer_handler
    <3> QED
      BY <1>2, <1>3, <3>1
  <2> QED
    BY <2>1, <2>2
<1>6. CASE IdleLoop
  BY <1>4, <1>6 DEF IdleLoop, idle, thread_block
<1>7. ASSUME NEW t \in Threads, Event(t) PROVE ListInv' /\ NoLostWakeup'
  <2>1. /\ thread_unlock(t) /\ status[t] = "BLOCKED" /\ pc[t] = "evt" /\ cur' = cur
        /\ t \notin Range(ready) /\ t # cur
    BY <1>3, <1>7 DEF Event
  <2>2. /\ Linked(ready') /\ Range(ready') = Range(ready) \cup {t}
        /\ status' = [status EXCEPT ![t] = "RUNNING"]
    BY <1>3, <2>1, UnlockLinked, SyncTypes
  <2>3. \A l \in Locks : \A u \in Range(waiters[l]) : status'[u] = "BLOCKED"
    BY <1>3, <2>1, <2>2, SyncTypes
  <2>4. /\ cur' \notin Range(ready') /\ status'[cur'] = "RUNNING"
        /\ \A u \in Range(ready') : status'[u] \in {"READY", "RUNNING"}
    BY <1>3, <2>1, <2>2, SyncTypes
  <2> QED
    BY <1>2, <2>1, <2>2, <2>3, <2>4
<1> QED
  BY <1>5, <1>6, <1>7
\* SyncInv holds of every behaviour.
THEOREM SyncInvariant == Spec => []SyncInv
<1>1. Init => ListInv /\ NoLostWakeup
  <2> SUFFICES ASSUME Init PROVE ListInv /\ NoLostWakeup
    OBVIOUS
  <2>1. Linked(ready) /\ cur \notin Range(ready)
    BY BootLinked DEF Init
  <2>2. \A t \in Range(ready) : t \in Threads /\ t # Main
    BY <2>1, RangeIndex DEF Linked, Init, ThreadInit
  <2>3. Linked(<<>>) /\ Range(<<>>) = {}
    BY DEF Linked, IsInjective, Range
  <2> QED
    BY <2>1, <2>2, <2>3, BootAssumption
       DEF Init, ThreadInit, ListInv, NoLostWakeup
<1>2. SyncInv /\ [Next]_vars => ListInv' /\ NoLostWakeup'
  <2> SUFFICES ASSUME SyncInv, [Next]_vars PROVE ListInv' /\ NoLostWakeup'
    OBVIOUS
  <2>1. CASE UNCHANGED vars
    BY <2>1 DEF vars, threadVars, syncVars, callVars, SyncInv, ListInv, NoLostWakeup, Linked
  <2>2. CASE Timer \/ IdleLoop \/ \E t \in Threads : Event(t)
    BY <2>2, InterruptLists
  <2>3. ASSUME NEW t \in Threads,
               (\E l \in Locks : CallAcquire(t, l)) \/ LockCode(t)
                  \/ WaitEvent(t) \/ EventReturn(t) \/ CallRelease(t)
        PROVE  ListInv' /\ NoLostWakeup'
    <3>1. CASE sema_down_block(t) \/ WaitEvent(t)
      BY <3>1, BlockLists
    <3>2. CASE sema_up(t)
      BY <3>2, UpLists
    <3>3. CASE ~(sema_down_block(t) \/ WaitEvent(t) \/ sema_up(t))
      BY <2>3, <3>3, PlainStep DEF LockCode
    <3> QED
      BY <3>1, <3>2, <3>3
  <2> QED
    BY <2>1, <2>2, <2>3 DEF Next
<1>3. SyncInv <=> (TypeOK /\ LockInv) /\ (ListInv /\ NoLostWakeup)
  BY DEF SyncInv
<1> QED
  BY <1>1, <1>2, <1>3, LockInvariant, PTL DEF Spec

\* A general_tag is linked in one list at most, and the thread in a waiters list
\* sleeps there: the asserts of thread_unlock hold in sema_up.
THEOREM TagsLinked == Spec => []TagLinkedOnce
<1>1. SyncInv => TagLinkedOnce
  <2> SUFFICES ASSUME SyncInv PROVE TagLinkedOnce
    OBVIOUS
  <2>1. IsInjective(ready) /\ cur \notin Range(ready)
    BY DEF SyncInv, ListInv, Linked
  <2>2. ASSUME NEW l \in Locks
        PROVE  /\ IsInjective(waiters[l])
               /\ cur \notin Range(waiters[l])
               /\ Range(ready) \cap Range(waiters[l]) = {}
               /\ \A t \in Range(waiters[l]) :
                     status[t] = "BLOCKED" /\ pc[t] = "wait" /\ lk[t] = l
    BY DEF SyncInv, ListInv, Linked
  <2>3. ASSUME NEW l \in Locks, NEW m \in Locks \ {l}
        PROVE  Range(waiters[l]) \cap Range(waiters[m]) = {}
    BY <2>2
  <2> QED
    BY <2>1, <2>2, <2>3, Zenon DEF TagLinkedOnce
<1> QED
  BY <1>1, SyncInvariant, PTL

\* A free lock with waiters has one of them on the way to try it again.
THEOREM WakeupKept == Spec => []NoLostWakeup
<1>1. SyncInv => NoLostWakeup
  BY DEF SyncInv
<1> QED
  BY <1>1, SyncInvariant, PTL

-----------------------------------------------------------------------------
(***************************************************************************)
(* The locks implement RecursiveLock.  By mutual exclusion at most one     *)
(* thread is in the section of a lock, so Owner is a function of the state *)
(* that only three statements change.                                      *)
(***************************************************************************)
OwnerFacts ==
    \A l \in Locks :
        /\ \A t \in Threads : InSection(t, l) => Owner[l] = t /\ Count[l] = depth[t]
        /\ (\A t \in Threads : ~InSection(t, l)) => Owner[l] = None /\ Count[l] = 0

\* Owner names the thread in the section.
LEMMA OwnerDetermined == TypeOK /\ LockInv => OwnerFacts
<1> SUFFICES ASSUME TypeOK, LockInv, NEW l \in Locks
             PROVE  /\ \A t \in Threads : InSection(t, l) => Owner[l] = t /\ Count[l] = depth[t]
                    /\ (\A t \in Threads : ~InSection(t, l)) => Owner[l] = None /\ Count[l] = 0
  BY DEF OwnerFacts
<1>1. ASSUME NEW t \in Threads, InSection(t, l) PROVE Owner[l] = t /\ Count[l] = depth[t]
  <2>1. \A u \in Threads : InSection(u, l) => u = t
    BY <1>1, SectionToken DEF LockInv, MutualExclusion
  <2>2. Owner[l] = CHOOSE u \in Threads : InSection(u, l)
    BY <1>1 DEF Owner
  <2>3. Owner[l] \in Threads /\ InSection(Owner[l], l)
    BY <1>1, <2>2
  <2> QED
    BY <2>1, <2>3, SyncAssumption DEF Count
<1>2. ASSUME \A t \in Threads : ~InSection(t, l) PROVE Owner[l] = None /\ Count[l] = 0
  <2>1. Owner[l] = None
    BY <1>2 DEF Owner
  <2> QED
    BY <2>1 DEF Count
<1> QED
  BY <1>1, <1>2

\* A step that changes who is in a section of no lock changes neither owner
\* nor count.
LEMMA SameOwner ==
    ASSUME OwnerFacts, OwnerFacts', depth' = depth,
           \A t \in Threads, l \in Locks : InSection(t, l)' <=> InSection(t, l)
    PROVE  UNCHANGED <<Owner, Count>>
<1>1. ASSUME NEW l \in Locks PROVE Owner'[l] = Owner[l] /\ Count'[l] = Count[l]
  BY <1>1 DEF OwnerFacts
<1>2. Owner' = [l \in Locks |-> Owner'[l]] /\ Owner = [l \in Locks |-> Owner[l]]
  BY DEF Owner
<1>3. Count' = [l \in Locks |-> Count'[l]] /\ Count = [l \in Locks |-> Count[l]]
  BY DEF Count
<1> QED
  BY <1>1, <1>2, <1>3
\* What set_repeat and inc_repeat do is an Acquire, what the end of a section
\* does a Release, and every other statement leaves the owners alone.
LEMMA RefineStep ==
    ASSUME TypeOK, LockInv, OwnerFacts, OwnerFacts', [Next]_vars
    PROVE  [L!Next]_L!vars
<1> DEFINE Same == depth' = depth /\ \A t \in Threads, l \in Locks :
                                        InSection(t, l)' <=> InSection(t, l)
<1>1. ASSUME NEW t \in Threads,
             \/ \E l \in Locks : CallAcquire(t, l)
             \/ lock_acquire(t) \/ sema_down_block(t) \/ sema_down_take(t)
             \/ set_holder(t) \/ lock_release(t) \/ clear_holder(t) \/ sema_up(t)
             \/ WaitEvent(t) \/ Event(t) \/ EventReturn(t)
      PROVE  Same
  <2>1. depth' = depth
    BY <1>1 DEF CallAcquire, lock_acquire, sema_down_block, sema_down_take, set_holder,
         lock_release, clear_holder, sema_up, WaitEvent, Event, EventReturn, callVars
  <2>2. \/ lk' = lk
        \/ /\ depth[t] > 0 => \E l \in Locks : lk[t] = l /\ lk' = [lk EXCEPT ![t] = l]
           /\ \E x : lk' = [lk EXCEPT ![t] = x]
    BY <1>1 DEF CallAcquire, lock_acquire, sema_down_block, sema_down_take, set_holder,
         lock_release, clear_holder, sema_up, WaitEvent, Event, EventReturn, callVars,
         Return, TypeOK, LockInv, CallState
  <2> QED
    BY <2>1, <2>2 DEF InSection, TypeOK
<1>2. ASSUME Timer \/ IdleLoop \/ UNCHANGED vars PROVE Same
  BY <1>2 DEF Timer, IdleLoop, vars, callVars, InSection
<1>3. ASSUME NEW t \in Threads, set_repeat(t) \/ inc_repeat(t)
      PROVE  L!Acquire(t, lk[t])
  <2> DEFINE l == lk[t]
  <2>1. /\ l \in Locks /\ HasToken(t, l) /\ lk' = lk
        /\ depth' = [depth EXCEPT ![t] = @ + 1]
        /\ depth \in [Threads -> Nat]
    BY <1>3, SectionToken DEF set_repeat, inc_repeat, At, HasToken, LockInv, TypeOK
  <2>2. \A u \in Threads : HasToken(u, l) => u = t
    BY <2>1 DEF LockInv, MutualExclusion
  <2>3. \A u \in Threads \ {t} : ~InSection(u, l)
    BY <2>1, <2>2, SectionToken DEF LockInv
  <2>4. IF depth[t] > 0 THEN Owner[l] = t /\ Count[l] = depth[t]
                         ELSE Owner[l] = None /\ Count[l] = 0 /\ depth[t] = 0
    BY <2>1, <2>3 DEF OwnerFacts, InSection
  <2>5. InSection(t, l)' /\ depth'[t] = depth[t] + 1
    BY <2>1 DEF InSection
  <2>6. Owner'[l] = t /\ Count'[l] = Count[l] + 1
    BY <2>1, <2>4, <2>5 DEF OwnerFacts
  <2>7. ASSUME NEW m \in Locks \ {l} PROVE Owner'[m] = Owner[m] /\ Count'[m] = Count[m]
    <3>1. \A u \in Threads : InSection(u, m)' <=> InSection(u, m)
      BY <2>1 DEF InSection
    <3>2. \A u \in Threads : InSection(u, m) => depth'[u] = depth[u]
      BY <2>1 DEF InSection
    <3> QED
      BY <3>1, <3>2 DEF OwnerFacts
  <2>8. /\ Owner' = [k \in Locks |-> Owner'[k]] /\ Owner = [k \in Locks |-> Owner[k]]
        /\ Count' = [k \in Locks |-> Count'[k]] /\ Count = [k \in Locks |-> Count[k]]
    BY DEF Owner, Count
  <2>9. /\ Owner' = [Owner EXCEPT ![l] = t]
        /\ Count' = [Count EXCEPT ![l] = @ + 1]
    BY <2>6, <2>7, <2>8
  <2> QED
    BY <2>4, <2>9 DEF L!Acquire
<1>4. ASSUME NEW t \in Threads, CallRelease(t)
      PROVE  L!Release(t, lk[t])
  <2> DEFINE l == lk[t]
  <2>1. /\ l \in Locks /\ InSection(t, l) /\ lk' = lk
        /\ depth' = [depth EXCEPT ![t] = @ - 1]
        /\ depth \in [Threads -> Nat] /\ depth[t] > 0
    BY <1>4, SectionToken DEF CallRelease, At, InSection, LockInv, CallState, TypeOK
  <2>2. \A u \in Threads : InSection(u, l) => u = t
    BY <2>1, SectionToken DEF LockInv, MutualExclusion
  <2>3. Owner[l] = t /\ Count[l] = depth[t]
    BY <2>1 DEF OwnerFacts
  <2>4. /\ depth'[t] = depth[t] - 1
        /\ \A u \in Threads \ {t} : ~InSection(u, l)'
        /\ InSection(t, l)' <=> depth[t] > 1
    BY <2>1, <2>2 DEF InSection
  <2>5. /\ Owner'[l] = IF depth[t] = 1 THEN None ELSE t
        /\ Count'[l] = depth[t] - 1
    BY <2>1, <2>4 DEF OwnerFacts
  <2>6. ASSUME NEW m \in Locks \ {l} PROVE Owner'[m] = Owner[m] /\ Count'[m] = Count[m]
    <3>1. \A u \in Threads : InSection(u, m)' <=> InSection(u, m)
      BY <2>1 DEF InSection
    <3>2. \A u \in Threads : InSection(u, m) => depth'[u] = depth[u]
      BY <2>1 DEF InSection
    <3> QED
      BY <3>1, <3>2 DEF OwnerFacts
  <2>7. /\ Owner' = [k \in Locks |-> Owner'[k]] /\ Owner = [k \in Locks |-> Owner[k]]
        /\ Count' = [k \in Locks |-> Count'[k]] /\ Count = [k \in Locks |-> Count[k]]
    BY DEF Owner, Count
  <2>8. /\ Owner' = [Owner EXCEPT ![l] = IF Count[l] = 1 THEN None ELSE t]
        /\ Count' = [Count EXCEPT ![l] = @ - 1]
    BY <2>3, <2>5, <2>6, <2>7
  <2> QED
    BY <2>3, <2>8 DEF L!Release
<1>5. CASE Same
  BY <1>5, SameOwner DEF L!vars
<1>6. CASE \E t \in Threads : set_repeat(t) \/ inc_repeat(t) \/ CallRelease(t)
  <2>1. \A t \in Threads : set_repeat(t) \/ inc_repeat(t) \/ CallRelease(t) => lk[t] \in Locks
    BY SectionToken DEF set_repeat, inc_repeat, CallRelease, At, LockInv
  <2> QED
    BY <1>3, <1>4, <1>6, <2>1 DEF L!Next
<1> QED
  BY <1>1, <1>2, <1>5, <1>6 DEF Next, LockCode

\* The locks of sync.c implement recursive locks: a call of lock_acquire
\* returns only when no other thread is inside, and only the last release of
\* the owner lets another in.
THEOREM LocksImplement == Spec => ImplementsLock
<1>1. Init => L!Init
  <2> SUFFICES ASSUME Init PROVE L!Init
    OBVIOUS
  <2>1. \A l \in Locks, t \in Threads : ~InSection(t, l)
    BY DEF Init, InSection
  <2>2. Owner = [l \in Locks |-> None]
    BY <2>1 DEF Owner
  <2>3. Count = [l \in Locks |-> 0]
    BY <2>2 DEF Count
  <2> QED
    BY <2>2, <2>3 DEF L!Init
<1>2. TypeOK /\ LockInv /\ OwnerFacts /\ OwnerFacts' /\ [Next]_vars => [L!Next]_L!vars
  BY RefineStep
<1> QED
  BY <1>1, <1>2, OwnerDetermined, LockInvariant, PTL DEF Spec, ImplementsLock, L!Spec
=============================================================================
