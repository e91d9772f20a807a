-------------------------------- MODULE Ide --------------------------------
(***************************************************************************)
(* The disk driver (src/device/ide.c) for one channel: ide_read, ide_write *)
(* and identtify_disk, the channel's recursive lock, the disk_done         *)
(* semaphore, and the interrupt handler, against a drive that completes a  *)
(* command some time after it was given.                                   *)
(*                                                                         *)
(* Labels of a thread:                                                     *)
(*   boot      main, in ide_init           user   outside the driver       *)
(*   lock      call of lock_acquire        lockwait  blocked in it         *)
(*   issue     the loop's select_sector    down   call of sema_down        *)
(*   wait      blocked in sema_down        poll   busy_wait and transfer   *)
(*   release   call of lock_release                                        *)
(* The lock is taken and released in one step: Sync shows that it          *)
(* implements a recursive lock wherever its callers are preempted.         *)
(***************************************************************************)
EXTENDS Thread

CONSTANTS Clients,    \* threads that read and write; Main is one of them
          MaxChunks,  \* bound on the 256-sector commands of one call
          MaxFaults,  \* bound on the commands that fail
          None        \* NULL

ASSUME IdeAssumption ==
    /\ Clients \subseteq Threads \ {Idle} /\ Main \in Clients
    /\ MaxChunks \in Nat \ {0} /\ MaxFaults \in Nat
    /\ None \notin Threads

VARIABLES holder, repeat, waiters,  \* channel->lock
          done, done_waiters,       \* channel->disk_done
          expecting_intr,
          dev,      \* the drive: executing a command, ready for a transfer...
          owner,    \* whose command that is
          irq,      \* its interrupt request is pending
          faults,   \* the commands that have failed
          pc, op,   \* where each thread is, and what it was asked for
          left      \* commands its call has still to give

lockVars == <<holder, repeat, waiters>>
doneVars == <<done, done_waiters, expecting_intr>>
driveVars == <<dev, owner, irq, faults>>
callVars == <<pc, op, left>>
ideVars == <<lockVars, doneVars, driveVars, callVars>>
vars == <<threadVars, ideVars>>

Busy == {"reading", "preparing", "storing"}
DRQ == {"data", "wants"}

\* Type invariant.
TypeOK ==
    /\ ThreadTypeOK
    /\ holder \in Clients \cup {None} /\ repeat \in Nat
    /\ waiters \in Seq(Clients)
    /\ done \in Nat /\ done_waiters \in Seq(Clients)
    /\ expecting_intr \in BOOLEAN
    /\ dev \in Busy \cup DRQ \cup {"idle", "error"}
    /\ owner \in Clients \cup {None}
    /\ irq \in BOOLEAN /\ faults \in 0..MaxFaults
    /\ pc \in [Threads -> {"boot", "user", "lock", "lockwait", "issue", "down",
                           "wait", "poll", "release"}]
    /\ op \in [Threads -> {"read", "write", "identify"}]
    /\ left \in [Threads -> 0..MaxChunks]

\* ide_init: nobody holds the channel, disk_done is down, no interrupt is
\* expected.  main is about to identify the disks.
Init ==
    /\ ThreadInit
    /\ holder = None /\ repeat = 0 /\ waiters = <<>>
    /\ done = 0 /\ done_waiters = <<>> /\ expecting_intr = FALSE
    /\ dev = "idle" /\ owner = None /\ irq = FALSE /\ faults = 0
    /\ pc = [t \in Threads |-> IF t = Main THEN "boot" ELSE "user"]
    /\ op = [t \in Threads |-> "identify"]
    /\ left = [t \in Threads |-> 0]

-----------------------------------------------------------------------------
\* main's initialisation runs with interrupts off.
Booting == pc[Main] # "user" /\ op[Main] = "identify"

\* EFLAGS.IF: off in system calls, on in main once it has booted, except
\* where a semaphore has it blocked.
IntrOn ==
    \/ pc[cur] = "user"
    \/ cur = Main /\ ~Booting /\ pc[cur] \notin {"wait", "lockwait"}

At(t, labels) == cur = t /\ pc[t] \in labels

Goto(t, label) == pc' = [pc EXCEPT ![t] = label]

\* identtify_disk: no lock is taken; the disks are not known to anyone yet.
identtify_disk(t) ==
    /\ At(t, {"boot"})
    /\ Goto(t, "issue")
    /\ left' = [left EXCEPT ![t] = 1]
    /\ UNCHANGED <<threadVars, lockVars, doneVars, driveVars, op>>

\* A call of ide_read or ide_write for n commands' worth of sectors.
Call(t, what, n) ==
    /\ At(t, {"user"}) /\ t \in Clients /\ ~Booting
    /\ op' = [op EXCEPT ![t] = what]
    /\ left' = [left EXCEPT ![t] = n]
    /\ Goto(t, "lock")
    /\ UNCHANGED <<threadVars, lockVars, doneVars, driveVars>>

ide_read(t) == \E n \in 1..MaxChunks : Call(t, "read", n)

ide_write(t) == \E n \in 1..MaxChunks : Call(t, "write", n)

\* Mutant: the channel is used without its lock.
lock_acquire_free(t) ==
    /\ At(t, {"lock", "lockwait"})
    /\ holder' = t
    /\ repeat' = repeat + 1
    /\ Goto(t, "issue")
    /\ UNCHANGED <<threadVars, waiters, doneVars, driveVars, op, left>>

\* lock_acquire(&channel->lock) gets the lock, or gets it once more.
lock_acquire(t) ==
    /\ At(t, {"lock", "lockwait"})
    /\ holder \in {None, t}
    /\ holder' = t
    /\ repeat' = repeat + 1
    /\ Goto(t, "issue")
    /\ UNCHANGED <<threadVars, waiters, doneVars, driveVars, op, left>>

\* lock_acquire finds another holder and blocks.
lock_wait(t) ==
    /\ At(t, {"lock", "lockwait"})
    /\ holder \notin {None, t}
    /\ waiters' = Append(waiters, t)
    /\ thread_block("BLOCKED")
    /\ Goto(t, "lockwait")
    /\ UNCHANGED <<halted, holder, repeat, doneVars, driveVars, op, left>>

\* select_sector and cmd_out.  A write first waits for the drive to want the
\* data, the others for the interrupt.  A command replaces whatever the drive
\* was left with by a failed one.
cmd_out(t) ==
    /\ At(t, {"issue"})
    /\ expecting_intr' = TRUE
    /\ owner' = t
    /\ dev' = IF op[t] = "write" THEN "preparing" ELSE "reading"
    /\ Goto(t, IF op[t] = "write" THEN "poll" ELSE "down")
    /\ UNCHANGED <<threadVars, lockVars, done, done_waiters, irq, faults, op, left>>

\* The end of one round of the loop, or of the call.
Advance(t) ==
    /\ left' = [left EXCEPT ![t] = @ - 1]
    /\ Goto(t, IF left[t] > 1 THEN "issue"
               ELSE IF op[t] = "identify" THEN "user" ELSE "release")

\* sema_down(&disk_done) takes the semaphore: the interrupt has arrived, now
\* or before the call.  For a write this ends the round.
sema_down_take(t) ==
    /\ At(t, {"down", "wait"})
    /\ done > 0
    /\ done' = done - 1
    /\ IF op[t] = "write" THEN Advance(t)
                          ELSE Goto(t, "poll") /\ UNCHANGED left
    /\ UNCHANGED <<threadVars, lockVars, done_waiters, expecting_intr, driveVars, op>>

\* sema_down(&disk_done) blocks.
sema_down_block(t) ==
    /\ At(t, {"down", "wait"})
    /\ done = 0
    /\ done_waiters' = Append(done_waiters, t)
    /\ thread_block("BLOCKED")
    /\ Goto(t, "wait")
    /\ UNCHANGED <<halted, lockVars, done, expecting_intr, driveVars, op, left>>

\* busy_wait sees DRQ; the sectors are moved.
transfer(t) ==
    /\ At(t, {"poll"})
    /\ dev \in DRQ
    /\ IF op[t] = "write"
       THEN dev' = "storing" /\ Goto(t, "down") /\ UNCHANGED left
       ELSE dev' = "idle" /\ Advance(t)
    /\ UNCHANGED <<threadVars, lockVars, doneVars, owner, irq, faults, op>>

\* The call returns from inside the loop; lock_release is not called.
ReturnEarly(t) ==
    /\ Goto(t, "user")
    /\ left' = [left EXCEPT ![t] = 0]
    /\ UNCHANGED <<threadVars, lockVars, doneVars, dev, owner, irq, op>>

\* busy_wait finds the drive neither busy nor ready: the command has failed.
transfer_fails(t) ==
    /\ At(t, {"poll"})
    /\ dev \notin Busy \cup DRQ
    /\ ReturnEarly(t)
    /\ UNCHANGED faults

\* busy_wait gives up on a busy drive.  Its sleep returns at once, so it has
\* only looked 3000 times.
busy_wait_times_out(t) ==
    /\ At(t, {"poll"})
    /\ dev \in Busy
    /\ faults < MaxFaults
    /\ ReturnEarly(t)
    /\ faults' = faults + 1

\* Mutant: off by one, the last release only counts.
lock_release_keeps(t) ==
    /\ At(t, {"release"})
    /\ repeat' = repeat - 1
    /\ Goto(t, "user")
    /\ UNCHANGED <<threadVars, holder, waiters, doneVars, driveVars, op, left>>

\* lock_release(&channel->lock), and the call returns.
lock_release(t) ==
    /\ At(t, {"release"})
    /\ repeat' = repeat - 1
    /\ holder' = IF repeat > 1 THEN holder ELSE None
    /\ IF repeat = 1 /\ waiters # <<>>
       THEN thread_unlock(Head(waiters)) /\ waiters' = Tail(waiters)
       ELSE UNCHANGED <<ready, status, waiters>>
    /\ Goto(t, "user")
    /\ UNCHANGED <<cur, ticks, halted, doneVars, driveVars, op, left>>

DriverCode(t) ==
    \/ identtify_disk(t) \/ lock_acquire(t) \/ lock_wait(t) \/ cmd_out(t)
    \/ sema_down_take(t) \/ sema_down_block(t)
    \/ transfer(t) \/ transfer_fails(t) \/ busy_wait_times_out(t)
    \/ lock_release(t)

-----------------------------------------------------------------------------
\* sema_up(&channel->disk_done)
DiskDoneUp ==
    /\ done' = done + 1
    /\ IF done_waiters # <<>>
       THEN /\ thread_unlock(Head(done_waiters))
            /\ done_waiters' = Tail(done_waiters)
       ELSE UNCHANGED <<ready, status, done_waiters>>

\* Mutant: the next interrupt is expected as well.
ide_hd_handler_expecting ==
    /\ IntrOn /\ irq
    /\ irq' = FALSE
    /\ Interrupted
    /\ IF expecting_intr THEN DiskDoneUp
                         ELSE UNCHANGED <<ready, status, done, done_waiters>>
    /\ UNCHANGED <<cur, ticks, lockVars, expecting_intr, dev, owner, faults, callVars>>

\* The disk interrupt.
ide_hd_handler ==
    /\ IntrOn /\ irq
    /\ irq' = FALSE
    /\ Interrupted
    /\ IF expecting_intr
       THEN expecting_intr' = FALSE /\ DiskDoneUp
       ELSE UNCHANGED <<ready, status, doneVars>>
    /\ UNCHANGED <<cur, ticks, lockVars, dev, owner, faults, callVars>>

\* The drive has the sectors of a read (or of identify).
DriveReads ==
    /\ dev = "reading"
    /\ dev' = "data" /\ irq' = TRUE
    /\ UNCHANGED <<threadVars, lockVars, doneVars, owner, faults, callVars>>

\* The drive is ready for the sectors of a write; it does not interrupt.
DriveWants ==
    /\ dev = "preparing"
    /\ dev' = "wants"
    /\ UNCHANGED <<threadVars, lockVars, doneVars, owner, irq, faults, callVars>>

DriveStores ==
    /\ dev = "storing"
    /\ dev' = "idle" /\ irq' = TRUE
    /\ UNCHANGED <<threadVars, lockVars, doneVars, owner, faults, callVars>>

\* The drive ends a command with an error, and interrupts.
DriveFails ==
    /\ dev \in Busy
    /\ faults < MaxFaults
    /\ faults' = faults + 1
    /\ dev' = "error" /\ irq' = TRUE
    /\ UNCHANGED <<threadVars, lockVars, doneVars, owner, callVars>>

Drive == DriveReads \/ DriveWants \/ DriveStores \/ DriveFails

Timer == IntrOn /\ intr_timer_handler /\ UNCHANGED ideVars

IdleLoop == idle /\ UNCHANGED ideVars

Next ==
    \/ \E t \in Threads : ide_read(t) \/ ide_write(t) \/ DriverCode(t)
    \/ ide_hd_handler
    \/ Drive
    \/ Timer
    \/ IdleLoop

Spec == Init /\ [][Next]_vars

(***************************************************************************)
(* The drive answers, the 8259A holds its interrupt until it is taken, the *)
(* CPU runs driver code, the timer ticks.  Nobody need call the driver.    *)
(***************************************************************************)
FairSpec ==
    /\ Spec
    /\ WF_vars(Drive)
    /\ SF_vars(ide_hd_handler)
    /\ SF_vars(Timer)
    /\ WF_vars(IdleLoop)
    /\ \A t \in Clients : SF_vars(DriverCode(t))

-----------------------------------------------------------------------------
\* A thread between giving a command and being done with it.
Using(t) == pc[t] \in {"down", "wait", "poll"}

\* The channel serves one call at a time: the command the drive executes is
\* that of the thread that waits for it and moves its sectors, also after
\* calls that failed and left the lock taken.
DriveServesCaller == \A t \in Threads : Using(t) => owner = t

\* No completion is stale, as long as no command has failed: a
\* count in disk_done belongs to a command whose thread has yet to wait for
\* it, and none is left when the next command is given.
NoStaleCompletion ==
    faults = 0 =>
        /\ done <= 1
        /\ done = 1 => \E t \in Threads : pc[t] \in {"down", "wait"} /\ owner = t
        /\ expecting_intr => done = 0

\* As long as no command fails the channel is given back after
\* every call: through preemption, waits for the disk and competition for the
\* lock its holder finishes.
ChannelReleased == holder # None ~> holder = None \/ faults > 0

=============================================================================
