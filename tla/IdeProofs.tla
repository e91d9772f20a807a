----------------------------- MODULE IdeProofs -----------------------------
(***************************************************************************)
(* Proofs about the disk driver, for any clients, any number of commands   *)
(* of a call and any number of commands that fail.                         *)
(***************************************************************************)
EXTENDS Ide, SchedulerProofs

\* Where a thread may use the channel: with its lock, or as main at boot.
Section == {"issue", "down", "wait", "poll", "release"}

(***************************************************************************)
(* Who may use the channel.  A call that failed leaves the lock with a     *)
(* thread that is outside, so the holder says who may be inside and not    *)
(* who is; and identtify_disk takes no lock at all, so that at boot it is  *)
(* only the order of initialisation that keeps others out.                 *)
(***************************************************************************)
ChannelInv ==
    /\ \A t \in Threads : pc[t] # "user" => t \in Clients
    /\ \A t \in Threads : pc[t] \in Section =>
            IF op[t] = "identify" THEN t = Main ELSE holder = t
    /\ \A t \in Threads : pc[t] \in {"lock", "lockwait", "release"} => op[t] # "identify"
    /\ \A t \in Threads \ {Main} : /\ pc[t] # "user" => op[t] # "identify" /\ ~Booting
                                   /\ pc[t] # "boot"
    /\ pc[Main] = "boot" => op[Main] = "identify"
    /\ \A t \in Threads : pc[t] \notin {"user", "boot", "release"} => left[t] > 0
    /\ holder = None <=> repeat = 0
    /\ DriveServesCaller

(***************************************************************************)
(* How far the command of thread t is, as long as none has failed: at each *)
(* point the drive, its interrupt, the flag and disk_done are in one of    *)
(* very few combinations.  With nobody using the channel all are at rest.  *)
(***************************************************************************)
Handshake(d, i, e, n) == dev \in d /\ irq = i /\ expecting_intr = e /\ done = n

Phase(t) ==
    \/ /\ op[t] # "write" /\ pc[t] \in {"down", "wait"}
       /\ \/ Handshake({"reading"}, FALSE, TRUE, 0)
          \/ Handshake({"data"}, TRUE, TRUE, 0)
          \/ Handshake({"data"}, FALSE, FALSE, 1)
    \/ /\ op[t] # "write" /\ pc[t] = "poll"
       /\ Handshake({"data"}, FALSE, FALSE, 0)
    \/ /\ op[t] = "write" /\ pc[t] = "poll"
       /\ Handshake({"preparing", "wants"}, FALSE, TRUE, 0)
    \/ /\ op[t] = "write" /\ pc[t] \in {"down", "wait"}
       /\ \/ Handshake({"storing"}, FALSE, TRUE, 0)
          \/ Handshake({"idle"}, TRUE, TRUE, 0)
          \/ Handshake({"idle"}, FALSE, FALSE, 1)

PhaseInv ==
    faults = 0 =>
        /\ \A t \in Threads : Using(t) => Phase(t)
        /\ (\A t \in Threads : ~Using(t)) => Handshake({"idle"}, FALSE, FALSE, 0)

IdeInv == TypeOK /\ ChannelInv /\ PhaseInv

-----------------------------------------------------------------------------
\* The parts of the types that the steps below use.
LEMMA IdeTypes ==
    ASSUME IdeInv
    PROVE  /\ ThreadTypeOK /\ cur \in Threads /\ Main \in Threads /\ Main \in Clients
           /\ Clients \subseteq Threads /\ None \notin Threads
           /\ repeat \in Nat /\ done \in Nat
           /\ MaxChunks \in Nat \ {0} /\ MaxFaults \in Nat /\ faults \in 0..MaxFaults
           /\ irq \in BOOLEAN /\ expecting_intr \in BOOLEAN
           /\ pc \in [Threads -> {"boot", "user", "lock", "lockwait", "issue", "down",
                                  "wait", "poll", "release"}]
           /\ op \in [Threads -> {"read", "write", "identify"}]
           /\ left \in [Threads -> 0..MaxChunks]
BY BootAssumption, IdeAssumption DEF IdeInv, TypeOK, ThreadTypeOK

\* Two threads are never both inside.
LEMMA OneInside ==
    ASSUME IdeInv, NEW t \in Threads, NEW u \in Threads,
           pc[t] \in Section, pc[u] \in Section
    PROVE  t = u
BY IdeTypes DEF IdeInv, ChannelInv, Section, Booting

\* The scheduler's part of the state stays well typed.
LEMMA IdeThreads ==
    ASSUME IdeInv, [Next]_vars
    PROVE  ThreadTypeOK'
<1> USE IdeTypes
<1>1. ASSUME NEW t \in Threads, lock_wait(t) \/ sema_down_block(t) PROVE ThreadTypeOK'
  <2>1. thread_block("BLOCKED") /\ "BLOCKED" \in TaskStatus /\ halted' = halted
    BY <1>1 DEF lock_wait, sema_down_block, TaskStatus
  <2> QED
    BY <2>1, BlockType DEF ThreadTypeOK
<1>2. ASSUME NEW t \in Threads, lock_release(t) PROVE ThreadTypeOK'
  <2>1. CASE repeat = 1 /\ waiters # <<>>
    <3>1. Head(waiters) \in Threads
      BY <2>1, HeadTailProperties DEF IdeInv, TypeOK
    <3> QED
      BY <1>2, <2>1, <3>1, UnlockType DEF lock_release, ThreadTypeOK
  <2>2. CASE ~(repeat = 1 /\ waiters # <<>>)
    BY <1>2, <2>2 DEF lock_release, ThreadTypeOK
  <2> QED
    BY <2>1, <2>2
<1>3. CASE ide_hd_handler
  <2>1. halted' \in BOOLEAN /\ UNCHANGED <<cur, ticks>>
    BY <1>3, Zenon DEF ide_hd_handler, Interrupted
  <2>2. CASE expecting_intr /\ done_waiters # <<>>
    <3>1. Head(done_waiters) \in Threads
      BY <2>2, HeadTailProperties DEF IdeInv, TypeOK
    <3>2. thread_unlock(Head(done_waiters))
      BY <1>3, <2>2 DEF ide_hd_handler, DiskDoneUp
    <3> QED
      BY <2>1, <3>1, <3>2, UnlockType DEF ThreadTypeOK
  <2>3. CASE ~(expecting_intr /\ done_waiters # <<>>)
    <3>1. UNCHANGED <<ready, status>>
      BY <1>3, <2>3, Zenon DEF ide_hd_handler, DiskDoneUp
    <3> QED
      BY <2>1, <3>1 DEF ThreadTypeOK
  <2> QED
    BY <2>2, <2>3
<1>4. CASE Timer
  BY <1>4, TimerType DEF Timer
<1>5. CASE IdleLoop
  <2>1. thread_block("BLOCKED") /\ "BLOCKED" \in TaskStatus /\ halted' = TRUE
    BY <1>5 DEF IdleLoop, idle, TaskStatus
  <2> QED
    BY <2>1, BlockType DEF ThreadTypeOK
<1>6. ASSUME UNCHANGED threadVars PROVE ThreadTypeOK'
  BY <1>6 DEF threadVars, ThreadTypeOK
<1>7. ASSUME NEW t \in Threads,
             \/ ide_read(t) \/ ide_write(t) \/ identtify_disk(t) \/ lock_acquire(t) \/ cmd_out(t)
             \/ sema_down_take(t) \/ transfer(t) \/ transfer_fails(t) \/ busy_wait_times_out(t)
      PROVE  UNCHANGED threadVars
  BY <1>7 DEF ide_read, ide_write, Call, identtify_disk, lock_acquire, cmd_out,
              sema_down_take, transfer, transfer_fails, busy_wait_times_out, ReturnEarly
<1>8. ASSUME Drive \/ UNCHANGED vars PROVE UNCHANGED threadVars
  BY <1>8 DEF Drive, DriveReads, DriveWants, DriveStores, DriveFails, vars
<1> QED
  BY <1>1, <1>2, <1>3, <1>4, <1>5, <1>6, <1>7, <1>8 DEF Next, DriverCode

-----------------------------------------------------------------------------
\* A step of a thread outside the section, or into or out of a wait for the
\* channel, leaves the handshake with the drive alone.
LEMMA StillPhase ==
    ASSUME IdeInv, UNCHANGED <<dev, irq, faults, expecting_intr, done>>,
           NEW t \in Threads, ~Using(t) /\ ~Using(t)',
           \A u \in Threads \ {t} : pc'[u] = pc[u] /\ op'[u] = op[u]
    PROVE  PhaseInv'
<1>1. \A u \in Threads : Using(u)' <=> Using(u)
  BY DEF Using
<1>2. \A u \in Threads : Using(u) /\ Phase(u) => Phase(u)'
  BY DEF Using, Phase, Handshake
<1> QED
  BY <1>1, <1>2 DEF IdeInv, PhaseInv, Handshake

\* The call begins: identtify_disk at boot, ide_read or ide_write later.
LEMMA CallStep ==
    ASSUME IdeInv, NEW t \in Threads, identtify_disk(t) \/ ide_read(t) \/ ide_write(t)
    PROVE  ChannelInv' /\ PhaseInv'
<1> USE IdeTypes
<1>1. CASE identtify_disk(t)
  <2>1. /\ pc[t] = "boot" /\ t = Main /\ pc' = [pc EXCEPT ![t] = "issue"]
        /\ left' = [left EXCEPT ![t] = 1] /\ op' = op
        /\ UNCHANGED <<lockVars, doneVars, driveVars>>
    BY <1>1 DEF identtify_disk, At, Goto, IdeInv, ChannelInv
  <2>2. ChannelInv'
    BY <2>1 DEF IdeInv, ChannelInv, Section, DriveServesCaller, Using, Booting,
                lockVars, driveVars
  <2>3. PhaseInv'
    BY <2>1, StillPhase DEF Using, doneVars, driveVars
  <2> QED
    BY <2>2, <2>3
<1>2. CASE ide_read(t) \/ ide_write(t)
  <2>1. PICK n \in 1..MaxChunks : \E what \in {"read", "write"} : Call(t, what, n)
    BY <1>2 DEF ide_read, ide_write
  <2>2. /\ pc[t] = "user" /\ t \in Clients /\ ~Booting
        /\ pc' = [pc EXCEPT ![t] = "lock"]
        /\ left' = [left EXCEPT ![t] = n]
        /\ op'[t] # "identify" /\ \A u \in Threads \ {t} : op'[u] = op[u]
        /\ UNCHANGED <<lockVars, doneVars, driveVars>>
    BY <2>1 DEF Call, At, Goto
  <2>3. ChannelInv'
    BY <2>2 DEF IdeInv, ChannelInv, Section, DriveServesCaller, Using, Booting,
                lockVars, driveVars
  <2>4. PhaseInv'
    BY <2>2, StillPhase DEF Using, doneVars, driveVars
  <2> QED
    BY <2>3, <2>4
<1> QED
  BY <1>1, <1>2

\* The lock is taken, waited for or given back.
LEMMA LockStep ==
    ASSUME IdeInv, NEW t \in Threads, lock_acquire(t) \/ lock_wait(t) \/ lock_release(t)
    PROVE  ChannelInv' /\ PhaseInv'
<1> USE IdeTypes
<1>1. /\ op' = op /\ left' = left /\ UNCHANGED <<doneVars, driveVars>>
      /\ op[t] # "identify" /\ t \in Clients
  BY DEF lock_acquire, lock_wait, lock_release, At, IdeInv, ChannelInv
<1>2. CASE lock_acquire(t)
  <2>1. /\ pc[t] \in {"lock", "lockwait"} /\ holder \in {None, t} /\ holder' = t
        /\ repeat' = repeat + 1 /\ pc' = [pc EXCEPT ![t] = "issue"]
    BY <1>2 DEF lock_acquire, At, Goto
  <2>2. ~Booting /\ \A u \in Threads : pc[u] \notin Section
    BY <1>1, <2>1 DEF IdeInv, ChannelInv, Section, Booting
  <2>3. ChannelInv'
    BY <1>1, <2>1, <2>2 DEF IdeInv, ChannelInv, Section, DriveServesCaller, Using, Booting,
                driveVars
  <2>4. PhaseInv'
    BY <1>1, <2>1, StillPhase DEF Using, doneVars, driveVars
  <2> QED
    BY <2>3, <2>4
<1>3. CASE lock_wait(t)
  <2>1. /\ pc[t] \in {"lock", "lockwait"} /\ UNCHANGED <<holder, repeat>>
        /\ pc' = [pc EXCEPT ![t] = "lockwait"]
    BY <1>3 DEF lock_wait, At, Goto
  <2>2. ChannelInv'
    BY <1>1, <2>1 DEF IdeInv, ChannelInv, Section, DriveServesCaller, Using, Booting,
                driveVars
  <2>3. PhaseInv'
    BY <1>1, <2>1, StillPhase DEF Using, doneVars, driveVars
  <2> QED
    BY <2>2, <2>3
<1>4. CASE lock_release(t)
  <2>1. /\ pc[t] = "release" /\ repeat' = repeat - 1
        /\ holder' = IF repeat > 1 THEN holder ELSE None
        /\ pc' = [pc EXCEPT ![t] = "user"]
    BY <1>4 DEF lock_release, At, Goto
  <2>2. /\ holder = t /\ repeat > 0
        /\ \A u \in Threads \ {t} : pc[u] \notin Section
    BY <1>1, <2>1, OneInside DEF IdeInv, ChannelInv, Section
  <2>3. ChannelInv'
    BY <1>1, <2>1, <2>2 DEF IdeInv, ChannelInv, Section, DriveServesCaller, Using, Booting,
                driveVars
  <2>4. PhaseInv'
    BY <1>1, <2>1, StillPhase DEF Using, doneVars, driveVars
  <2> QED
    BY <2>3, <2>4
<1> QED
  BY <1>2, <1>3, <1>4

\* The steps of the thread inside the section: it alone is there.
LEMMA InsideStep ==
    ASSUME IdeInv, NEW t \in Threads,
           \/ cmd_out(t) \/ sema_down_take(t) \/ sema_down_block(t)
           \/ transfer(t) \/ transfer_fails(t) \/ busy_wait_times_out(t)
    PROVE  ChannelInv' /\ PhaseInv'
<1> USE IdeTypes
<1>1. /\ op' = op /\ UNCHANGED <<holder, repeat>>
      /\ pc[t] \in {"issue", "down", "wait", "poll"}
      /\ \E label \in Section \cup {"user"} :
            /\ pc' = [pc EXCEPT ![t] = label]
            /\ label = "release" => op[t] # "identify"
      /\ owner' = IF pc[t] = "issue" THEN t ELSE owner
      /\ \/ left' = left
         \/ left' = [left EXCEPT ![t] = 0] /\ pc'[t] = "user"
         \/ left' = [left EXCEPT ![t] = @ - 1] /\ (left[t] > 1 \/ pc'[t] \in {"user", "release"})
  BY DEF cmd_out, sema_down_take, sema_down_block, transfer, transfer_fails,
         busy_wait_times_out, At, Goto, ReturnEarly, Advance, driveVars, lockVars, Section
<1>2. \A u \in Threads \ {t} : pc[u] \notin Section /\ pc'[u] = pc[u]
  BY <1>1, OneInside DEF Section
<1>3. owner' = t \/ pc[t] = "issue"
  BY <1>1 DEF IdeInv, ChannelInv, DriveServesCaller, Using
<1>4. ChannelInv'
  BY <1>1, <1>2, <1>3 DEF IdeInv, ChannelInv, Section, DriveServesCaller, Using, Booting
<1>5. PhaseInv'
  <2> SUFFICES ASSUME faults' = 0
               PROVE  /\ Using(t)' => Phase(t)'
                      /\ ~Using(t)' => Handshake({"idle"}, FALSE, FALSE, 0)'
    BY <1>2 DEF PhaseInv, Using, Section
  <2>1. faults = 0 /\ ~busy_wait_times_out(t)
    BY DEF cmd_out, sema_down_take, sema_down_block, transfer, transfer_fails,
           busy_wait_times_out, driveVars
  <2>2. /\ Using(t) => Phase(t)
        /\ ~Using(t) => Handshake({"idle"}, FALSE, FALSE, 0)
    BY <1>2, <2>1 DEF IdeInv, PhaseInv, Using, Section
  <2>3. CASE cmd_out(t)
    BY <2>2, <2>3 DEF cmd_out, At, Goto, Using, Phase, Handshake
  <2>4. CASE sema_down_take(t)
    BY <2>2, <2>4 DEF sema_down_take, At, Goto, Advance, Using, Phase, Handshake, driveVars
  <2>5. CASE sema_down_block(t)
    BY <2>2, <2>5 DEF sema_down_block, At, Goto, Using, Phase, Handshake, driveVars
  <2>6. CASE transfer(t)
    BY <2>2, <2>6 DEF transfer, At, Goto, Advance, Using, Phase, Handshake, doneVars, DRQ
  <2>7. CASE transfer_fails(t)
    BY <2>2, <2>7 DEF transfer_fails, At, Using, Phase, Handshake, Busy, DRQ
  <2> QED
    BY <2>1, <2>3, <2>4, <2>5, <2>6, <2>7
<1> QED
  BY <1>4, <1>5

\* The drive, its interrupt, and everything that is not the driver's.
LEMMA DriveStep ==
    ASSUME IdeInv, ide_hd_handler \/ Drive \/ Timer \/ IdleLoop \/ UNCHANGED vars
    PROVE  ChannelInv' /\ PhaseInv'
<1> USE IdeTypes
<1>1. UNCHANGED <<holder, repeat, owner, pc, op, left>>
  BY DEF ide_hd_handler, Drive, DriveReads, DriveWants, DriveStores, DriveFails, Timer,
         IdleLoop, vars, ideVars, lockVars, driveVars, callVars
<1>2. ChannelInv'
  BY <1>1 DEF IdeInv, ChannelInv, DriveServesCaller, Using, Booting
<1>3. PhaseInv'
  <2> SUFFICES ASSUME faults' = 0
               PROVE  /\ \A t \in Threads : Using(t) => Phase(t)'
                      /\ (\A t \in Threads : ~Using(t)) => Handshake({"idle"}, FALSE, FALSE, 0)'
    BY <1>1 DEF PhaseInv, Using
  <2>1. faults = 0 /\ ~DriveFails
    BY DEF ide_hd_handler, Drive, DriveReads, DriveWants, DriveStores, DriveFails, Timer,
           IdleLoop, vars, ideVars, driveVars
  <2>2. /\ \A t \in Threads : Using(t) => Phase(t)
        /\ (\A t \in Threads : ~Using(t)) => Handshake({"idle"}, FALSE, FALSE, 0)
    BY <2>1 DEF IdeInv, PhaseInv
  <2>3. CASE ide_hd_handler
    <3>1. irq = TRUE /\ irq' = FALSE /\ dev' = dev
      BY <2>3, Zenon DEF ide_hd_handler, IdeInv, TypeOK
    <3>2. expecting_intr = TRUE => expecting_intr' = FALSE /\ done' = done + 1
      BY <2>3 DEF ide_hd_handler, DiskDoneUp
    <3>3. \A t \in Threads : Using(t) /\ Phase(t) => Phase(t)'
      BY <1>1, <3>1, <3>2 DEF Using, Phase, Handshake
    <3> QED
      BY <2>2, <3>1, <3>3 DEF Handshake
  <2>4. CASE Drive
    <3>1. \A t \in Threads : Using(t) /\ Phase(t) => Phase(t)'
      BY <1>1, <2>1, <2>4
         DEF Drive, DriveReads, DriveWants, DriveStores, doneVars, Using, Phase, Handshake
    <3>2. dev # "idle"
      BY <2>1, <2>4 DEF Drive, DriveReads, DriveWants, DriveStores
    <3> QED
      BY <2>2, <3>1, <3>2 DEF Handshake
  <2>5. CASE Timer \/ IdleLoop \/ UNCHANGED vars
    BY <2>2, <2>5 DEF Timer, IdleLoop, vars, ideVars, doneVars, driveVars, callVars,
                      Phase, Handshake
  <2> QED
    BY <2>3, <2>4, <2>5
<1> QED
  BY <1>2, <1>3

\* The fields of the driver and the drive stay well typed.
LEMMA IdeFields ==
    ASSUME IdeInv, [Next]_vars
    PROVE  TypeOK'
<1> USE IdeTypes
<1> DEFINE Lists == waiters' \in Seq(Clients) /\ done_waiters' \in Seq(Clients)
           Fields == /\ holder' \in Clients \cup {None} /\ repeat' \in Nat /\ done' \in Nat
                     /\ expecting_intr' \in BOOLEAN
                     /\ dev' \in Busy \cup DRQ \cup {"idle", "error"}
                     /\ owner' \in Clients \cup {None}
                     /\ irq' \in BOOLEAN /\ faults' \in 0..MaxFaults
           Calls == /\ pc' \in [Threads -> {"boot", "user", "lock", "lockwait", "issue",
                                            "down", "wait", "poll", "release"}]
                    /\ op' \in [Threads -> {"read", "write", "identify"}]
                    /\ left' \in [Threads -> 0..MaxChunks]
<1>0. ThreadTypeOK'
  BY IdeThreads
<1>1. SUFFICES Lists /\ Fields /\ Calls
  BY <1>0, <1>1 DEF TypeOK
<1>2. /\ waiters \in Seq(Clients) /\ done_waiters \in Seq(Clients)
      /\ holder \in Clients \cup {None} /\ owner \in Clients \cup {None}
      /\ dev \in Busy \cup DRQ \cup {"idle", "error"}
      /\ \A t \in Threads : pc[t] # "user" => t \in Clients
      /\ \A t \in Threads : pc[t] \notin {"user", "boot", "release"} => left[t] \in 1..MaxChunks
  BY DEF IdeInv, TypeOK, ChannelInv
<1>3. /\ waiters # <<>> => Tail(waiters) \in Seq(Clients)
      /\ done_waiters # <<>> => Tail(done_waiters) \in Seq(Clients)
  BY <1>2, HeadTailProperties
<1>4. ASSUME NEW t \in Threads, identtify_disk(t) \/ ide_read(t) \/ ide_write(t)
      PROVE  Lists /\ Fields /\ Calls
  <2>1. UNCHANGED <<lockVars, doneVars, driveVars>>
    BY <1>4 DEF identtify_disk, ide_read, ide_write, Call
  <2>2. Calls
    BY <1>4 DEF identtify_disk, ide_read, ide_write, Call, Goto
  <2> QED
    BY <1>2, <2>1, <2>2 DEF lockVars, doneVars, driveVars
<1>5. ASSUME NEW t \in Threads, lock_acquire(t) \/ lock_wait(t) \/ lock_release(t)
      PROVE  Lists /\ Fields /\ Calls
  <2>1. UNCHANGED <<doneVars, driveVars, op, left>> /\ t \in Clients
    BY <1>2, <1>5 DEF lock_acquire, lock_wait, lock_release, At
  <2>2. Calls
    BY <1>5, <2>1 DEF lock_acquire, lock_wait, lock_release, Goto
  <2>3. repeat' \in Nat /\ holder' \in Clients \cup {None}
    <3>1. lock_release(t) => repeat > 0
      BY <2>1 DEF lock_release, At, IdeInv, ChannelInv, Section
    <3>2. CASE lock_acquire(t)
      BY <2>1, <3>2 DEF lock_acquire
    <3>3. CASE lock_wait(t)
      BY <1>2, <3>3 DEF lock_wait
    <3>4. CASE lock_release(t)
      <4>1. repeat \in Nat \ {0} /\ repeat' = repeat - 1
        BY <3>1, <3>4 DEF lock_release
      <4>2. holder' \in {holder, None}
        BY <3>4 DEF lock_release
      <4> QED
        BY <1>2, <4>1, <4>2
    <3> QED
      BY <1>5, <3>2, <3>3, <3>4
  <2>4. waiters' \in Seq(Clients)
    <3>1. Append(waiters, t) \in Seq(Clients)
      BY <1>2, <2>1, AppendProperties
    <3>2. \/ waiters' = waiters \/ waiters' = Append(waiters, t)
          \/ waiters # <<>> /\ waiters' = Tail(waiters)
      BY <1>5, Zenon DEF lock_acquire, lock_wait, lock_release
    <3> QED
      BY <1>2, <1>3, <3>1, <3>2
  <2> QED
    BY <1>2, <2>1, <2>2, <2>3, <2>4 DEF doneVars, driveVars
<1>6. ASSUME NEW t \in Threads, cmd_out(t) \/ sema_down_take(t) \/ sema_down_block(t)
      PROVE  Lists /\ Fields /\ Calls
  <2>1. UNCHANGED <<lockVars, op, irq, faults>> /\ t \in Clients /\ left[t] \in 1..MaxChunks
    BY <1>2, <1>6 DEF cmd_out, sema_down_take, sema_down_block, At, driveVars
  <2>2. Calls
    <3>1. ASSUME NEW w \in {"down", "wait", "poll", "issue", "user", "release"}, Goto(t, w),
                 left' = left \/ left' = [left EXCEPT ![t] = @ - 1]
          PROVE  Calls
      <4>1. left[t] - 1 \in 0..MaxChunks
        BY <2>1, IdeAssumption
      <4> QED
        BY <2>1, <3>1, <4>1 DEF Goto, IdeInv, TypeOK
    <3>2. CASE cmd_out(t)
      BY <3>1, <3>2, Zenon DEF cmd_out
    <3>3. CASE sema_down_take(t)
      BY <3>1, <3>3, Zenon DEF sema_down_take, Advance
    <3>4. CASE sema_down_block(t)
      BY <3>1, <3>4 DEF sema_down_block
    <3> QED
      BY <1>6, <3>2, <3>3, <3>4
  <2>3. /\ done' \in Nat /\ owner' \in Clients \cup {None}
        /\ dev' \in Busy \cup DRQ \cup {"idle", "error"}
    BY <1>2, <1>6, <2>1 DEF cmd_out, sema_down_take, sema_down_block, driveVars, Busy
  <2>4. expecting_intr' \in BOOLEAN
    BY <1>6, Zenon DEF cmd_out, sema_down_take, sema_down_block, IdeInv, TypeOK
  <2>5. done_waiters' \in Seq(Clients)
    <3>1. Append(done_waiters, t) \in Seq(Clients)
      BY <1>2, <2>1, AppendProperties
    <3>2. done_waiters' = done_waiters \/ done_waiters' = Append(done_waiters, t)
      BY <1>6 DEF cmd_out, sema_down_take, sema_down_block
    <3> QED
      BY <1>2, <3>1, <3>2
  <2> QED
    BY <1>2, <2>1, <2>2, <2>3, <2>4, <2>5 DEF lockVars
<1>7. ASSUME NEW t \in Threads, transfer(t) \/ transfer_fails(t) \/ busy_wait_times_out(t)
      PROVE  Lists /\ Fields /\ Calls
  <2>1. UNCHANGED <<lockVars, doneVars, op, irq, owner>>
    BY <1>7 DEF transfer, transfer_fails, busy_wait_times_out, ReturnEarly
  <2>2. left[t] \in 1..MaxChunks
    BY <1>2, <1>7 DEF transfer, transfer_fails, busy_wait_times_out, At
  <2>3. dev' \in {dev, "storing", "idle"}
    BY <1>7, Zenon DEF transfer, transfer_fails, busy_wait_times_out, ReturnEarly
  <2>4. faults' \in 0..MaxFaults
    BY <1>7 DEF transfer, transfer_fails, busy_wait_times_out
  <2>5. Calls
    BY <1>7, <2>1, <2>2
       DEF transfer, transfer_fails, busy_wait_times_out, ReturnEarly, Goto, Advance
  <2> QED
    BY <1>2, <2>1, <2>3, <2>4, <2>5 DEF lockVars, doneVars, Busy
<1>8. CASE ide_hd_handler
  <2>1. UNCHANGED <<lockVars, dev, owner, faults, callVars>> /\ irq' = FALSE
    BY <1>8 DEF ide_hd_handler
  <2>2. expecting_intr' \in BOOLEAN
    BY <1>8, Zenon DEF ide_hd_handler, doneVars, IdeInv, TypeOK
  <2>3. done' \in {done, done + 1}
    BY <1>8, Zenon DEF ide_hd_handler, doneVars, DiskDoneUp
  <2>4. /\ done_waiters' \in {done_waiters, Tail(done_waiters)}
        /\ done_waiters = <<>> => done_waiters' = done_waiters
    BY <1>8, Zenon DEF ide_hd_handler, doneVars, DiskDoneUp
  <2>5. done' \in Nat
    BY <2>3
  <2>7. irq' \in BOOLEAN
    BY <2>1, Zenon
  <2>6. done_waiters' \in Seq(Clients)
    BY <1>2, <1>3, <2>4
  <2> QED
    BY <1>2, <2>1, <2>2, <2>5, <2>6, <2>7 DEF lockVars, callVars
<1>9. CASE Drive
  <2>1. /\ UNCHANGED <<lockVars, doneVars, owner, callVars>>
        /\ dev' \in {"data", "wants", "idle", "error"} /\ faults' \in 0..MaxFaults
    BY <1>9 DEF Drive, DriveReads, DriveWants, DriveStores, DriveFails
  <2>2. irq' \in BOOLEAN
    BY <1>9, Zenon DEF Drive, DriveReads, DriveWants, DriveStores, DriveFails, IdeInv, TypeOK
  <2> QED
    BY <1>2, <2>1, <2>2 DEF lockVars, doneVars, callVars, DRQ
<1>10. CASE Timer \/ IdleLoop \/ UNCHANGED vars
  <2>1. UNCHANGED <<lockVars, doneVars, driveVars, callVars>>
    BY <1>10 DEF Timer, IdleLoop, vars, ideVars
  <2> QED
    BY <1>2, <2>1 DEF lockVars, doneVars, driveVars, callVars
<1> QED
  BY <1>4, <1>5, <1>6, <1>7, <1>8, <1>9, <1>10 DEF Next, DriverCode

-----------------------------------------------------------------------------
\* The invariant, for every number of clients, commands and faults.
THEOREM IdeInvariant == Spec => []IdeInv
<1>1. Init => IdeInv
  <2> SUFFICES ASSUME Init PROVE IdeInv
    OBVIOUS
  <2>1. TypeOK
    <3>1. ThreadTypeOK
      BY BootLinked DEF Init
    <3>2. <<>> \in Seq(Clients)
      OBVIOUS
    <3>3. /\ pc \in [Threads -> {"boot", "user", "lock", "lockwait", "issue", "down",
                                 "wait", "poll", "release"}]
          /\ op \in [Threads -> {"read", "write", "identify"}]
          /\ left \in [Threads -> 0..MaxChunks]
      BY IdeAssumption DEF Init
    <3>4. faults \in 0..MaxFaults
      BY IdeAssumption DEF Init
    <3>5. irq \in BOOLEAN /\ expecting_intr \in BOOLEAN
      BY Zenon DEF Init
    <3> QED
      BY <3>1, <3>2, <3>3, <3>4, <3>5 DEF Init, TypeOK
  <2>2. ChannelInv
    BY IdeAssumption, BootAssumption
       DEF Init, ChannelInv, Section, Booting, DriveServesCaller, Using
  <2>3. PhaseInv
    BY DEF Init, PhaseInv, Using, Handshake
  <2> QED
    BY <2>1, <2>2, <2>3 DEF IdeInv
<1>2. IdeInv /\ [Next]_vars => IdeInv'
  <2> SUFFICES ASSUME IdeInv, [Next]_vars PROVE IdeInv'
    OBVIOUS
  <2>1. TypeOK'
    BY IdeFields
  <2>2. ChannelInv' /\ PhaseInv'
    BY CallStep, LockStep, InsideStep, DriveStep DEF Next, DriverCode
  <2> QED
    BY <2>1, <2>2 DEF IdeInv
<1> QED
  BY <1>1, <1>2, PTL DEF Spec

\* The command the drive executes is always that of the thread that waits for
\* it, also after calls that failed and never released the channel.
THEOREM DriveExclusive == Spec => []DriveServesCaller
<1>1. IdeInv => DriveServesCaller
  BY DEF IdeInv, ChannelInv
<1> QED
  BY <1>1, IdeInvariant, PTL

\* No completion is stale before the first fault.
THEOREM CompletionsMatch == Spec => []NoStaleCompletion
<1>1. IdeInv => NoStaleCompletion
  <2> SUFFICES ASSUME IdeInv, faults = 0
               PROVE  /\ done <= 1
                      /\ done = 1 => \E t \in Threads : pc[t] \in {"down", "wait"} /\ owner = t
                      /\ expecting_intr => done = 0
    BY DEF NoStaleCompletion
  <2>1. CASE \E t \in Threads : Using(t)
    <3>1. PICK t \in Threads : Using(t)
      BY <2>1
    <3>2. owner = t /\ Phase(t)
      BY <3>1 DEF IdeInv, ChannelInv, DriveServesCaller, PhaseInv
    <3> QED
      BY <3>2 DEF Phase, Handshake
  <2>2. CASE \A t \in Threads : ~Using(t)
    BY <2>2 DEF IdeInv, PhaseInv, Handshake
  <2> QED
    BY <2>1, <2>2
<1> QED
  BY <1>1, IdeInvariant, PTL

\* The driver's state is always well typed: no count goes below zero, the
\* channel lock's repeat count and the commands left to give included.
THEOREM IdeTyped == Spec => []TypeOK
<1>1. IdeInv => TypeOK
  BY DEF IdeInv
<1> QED
  BY <1>1, IdeInvariant, PTL
=============================================================================
