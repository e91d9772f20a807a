# TieZhu_OS: a verification project

TLA+ models of the kernel in `src/`, TLC configurations that check them on
small instances, and proofs for TLAPS. TieZhu_OS is a small 32-bit x86 kernel:
one CPU, kernel threads and user processes, round-robin scheduling from the
timer interrupt, blocking semaphores and locks, an IDE driver, a small file
system, pipes and a shell.

## 1. Inventory

| Component | Source | State | Operations | Interacts with |
|---|---|---|---|---|
| Threads, scheduler | `thread/thread.c` | running thread, `thread_ready_list`, `thread_all_list`, status and ticks per PCB | block, unlock, yield, start, exit, schedule, idle | everything that blocks; the timer |
| Timer | `device/timer.c` | `ticks` | tick, sleep | scheduler |
| Semaphores, locks | `thread/sync.c` | value and waiters; holder and repeat count | `sema_down/up`, `lock_acquire/release` | memory pools, pid pool, console, disk channel, ioqueue |
| Character queue | `device/ioqueue.c` | ring, producer, consumer, lock | getchar, putchar, wait, wakeup | keyboard, pipes |
| Keyboard | `device/keyboard.c` | shift, ctrl, alt, caps, prefix | the interrupt handler | its ioqueue, read from fd 0 |
| Pipes | `shell/pipe.c` | an ioqueue page, a file-table slot with a reference count | pipe, read, write, redirect | file table, fork, shell |
| Processes | `userprog/fork.c`, `wait_exit.c`, `process.c`, `exec.c` | pid, parent pid, status, pid pool | fork, exit, wait, exec | scheduler, memory, file table |
| Bitmap | `kernel/bitmap.c` | bits | scan, set, set range | pids, pages, inodes, blocks |
| Memory manager | `kernel/memory.c` | two physical pools, virtual pools, page tables, arenas | page allocation and release, malloc, free | locks, bitmap, processes |
| Disk driver | `device/ide.c` | channel lock, `disk_done`, `expecting_intr`, the drive | read, write, identify, interrupt | locks, scheduler, file system |
| Files | `fs/file.c`, `fs/fs.c` | global file table, per-process tables, open inodes, `write_deny` | open, close, read, write, lseek, unlink | disk, memory, fork, exit |
| On-disk file system | `fs/inode.c`, `fs/dir.c`, `fs/fs.c` | bitmaps, inode table, directories | create, unlink, mkdir, rmdir, sync | disk |
| Interrupt and system call entry | `kernel/interrupt.c`, `kernel/kernel.s`, `userprog/syscall-init.c` | EFLAGS.IF | gate entry, dispatch | everything |
| Console, printing, strings, shell, commands, boot | the rest | screen; command line | output, parsing, start-up | |

What is hard in this code:

* *Concurrency on one CPU.* Every system call enters through an interrupt gate
  and runs with interrupts off: it loses the CPU only where it blocks. Kernel
  threads (`main`) run with interrupts on and are preempted between any two
  statements, those of `lock_acquire` and `lock_release` included.
* *One list node per thread.* `general_tag` is linked into the ready list or
  into one list of waiters; a second insertion corrupts both.
* *Wake-ups.* A woken thread is put in front of the ready list but does not own
  what it was woken for; between its wake-up and its turn someone else may run.
* *Interrupts.* The disk's completion can arrive before, while or after its
  thread goes to sleep, or after the call has given up.
* *Waiting for the disk.* `inode_open` and `file_create` look something up, wait
  for the disk with the CPU given away, and then act on what they had seen.
* *Failure.* Several functions return early without undoing what they did.
* *Power.* Making or removing a name is up to nine disk writes. Nothing at the
  next mount repairs what a crash between two of them leaves.
* *Widths.* The bitmap scan keeps its results in eight bits, and so does the
  offset of an inode in its sector.
* *Addresses.* The kernel keeps pointers into the heap of a process (an inode that
  `file_create` made, a free block of an arena that fork copied) in structures
  that other processes use.

What makes each part correct: the scheduler loses no thread and starves none;
locks exclude, count and are given back; queues are FIFOs whose sleepers are
woken; pids are unique, nobody is orphaned, `wait` sees every exit; allocations
do not overlap; the disk serves one caller at a time and loses no completion;
files are shared by reference counts that match their users; a crash leaves the
disk's structures usable. The hazards in `PROJECT.json` give the lines.

## 2. Modules

`Thread` holds the state of the scheduler and one operator for each function of
`thread.c`. `Scheduler`, `Sync`, `IoQueue` (and so `KbdInput` and `Pipe`), `Process` and
`Ide` extend it and contain the real ready list and the real switch, not an
abstract "some thread runs". `Bitmap`, `Memory` and the three file modules do
not schedule.
`schedule(st, rd)` takes the status map and list its caller has prepared and
determines the next state; `thread_block`, `thread_yield`, `thread_exit` and
`intr_timer_handler` call it as the code does. `halted` records where the idle
thread is: before `thread_block` or in `hlt`.

| Module | Models | Control state |
|---|---|---|
| `Scheduler` | every client of `thread.c`, in any order | none needed |
| `Sync` | `sync.c`, one action per statement that others can observe; the caller either has interrupts on (`KernelThreads`) or off | `pc`: `acq` `down` `wait` `own` `cnt` `inc` `cs` `evt` `rel` `nul` `up` |
| `RecursiveLock` | what a lock promises | |
| `IoQueue` | `ioqueue.c`; the lock it sleeps with | `user` `test` `lock` `lockwait` `slept` |
| `KbdInput` | the keyboard interrupt and a process in `read`, on `IoQueue` | the queue's, and what the keyboard is about to send |
| `Pipe` | `pipe_read`, `pipe_write` on `IoQueue` | the queue's |
| `Fifo` | what a character queue promises | |
| `Process` | `fork`, `exit`, `wait`, the pid pool, `init` and the end of `main` | `start` `user` `wait` |
| `Bitmap` | `bitmap.c` and its scan-then-set users | none |
| `Memory` | `memory.c`, and what `process.c`, `fork.c`, `wait_exit.c` and `thread_exit` do to pages; from the boot of init on | `main.pc` (`out` `scan` `set`) for main's allocation, `ready` and `starting` for init's |
| `Ide` | one channel of `ide.c` and its drive | `boot` `user` `lock` `lockwait` `issue` `down` `wait` `poll` `release` |
| `FileIO` | `file_write`, `file_read`, `sys_lseek`, `inode_release`: how a byte of a file finds its block | none: a call is one step |
| `FileSys` | create, open, close, first write, unlink, mkdir, rmdir, opendir, readdir, closedir, chdir, getcwd and stat, with the bitmaps, the inode table and the blocks on disk and in memory; format, mount, crash | `todo`: the disk writes the call still has to do |
| `Tree` | what the tree of names promises to programs | |
| `Files` | descriptor tables, the file table, in-core inodes and pipe counts under open, create, close, pipe, fork and exit by several processes | `pc`: `run` `open` `create` `entry` `reopen` `gone`; `home`: the address space of an inode |
| `SchedulerProofs` | lemmas about the operators of `Thread` and about lists of threads, and theorems about `Scheduler` | |
| `SyncProofs`, `ProcessProofs`, `IdeProofs`, `MemoryProofs`, `FilesProofs` | theorems about the module they are named after | |
| `QueueProofs` | theorems about `IoQueue` as `Pipe` and as `KbdInput` use it | |
| `FileIOProofs` | theorems about `FileIO` and about `Bitmap` | |

Modules that a proof module takes together have names of their own for the
specification (`SchedInit`, `KbdNext`, `BitmapSpec`, and so on); the others say
`Init`, `Next` and `Spec`.

The `MC` modules give the instances. Definitions whose comment begins with
*Mutant* change one definition the way a plausible bug would; no specification
uses them. Each one breaks the property it is paired with, which shows that the
property looks at that code. A type invariant (`TypeOK`, `ThreadTypeOK`, `KbdTypeOK`)
is part of the modules up to `Memory`; it was model-checked on the instances below,
and those of `Scheduler`, `Sync`, `Process`, `Ide`, `KbdInput` and `Memory` are proved.

Abstractions worth knowing:

* Lists are sequences. The pointer surgery of `list.c` is trusted; what would
  break it, a node linked twice, is the invariant `TagLinkedOnce`.
* In `IoQueue` and `Ide` a lock is taken and released in one step, and in
  `IoQueue` its holder stands for its semaphore. `Sync` is the justification: it
  shows the statement-by-statement code to implement `RecursiveLock` and the
  semaphore to be free exactly when nobody has the lock. All callers there
  except `main` in `Ide` have interrupts off in any case.
* In `Sync` a thread uses one lock at a time, nested up to `MaxDepth`; waiting
  for the disk or for another event with the lock held is `WaitEvent`.
* The bitmap's scan is first fit, in `Memory`, `FileIO`, `FileSys` and `Process`,
  over the answers it gets right: a run that begins below bit 256 and does not end
  with the map. Constants or guards confine these models to such answers; what the
  scan does otherwise is in `Bitmap`, and the run `bitmap` shows it.
* In `Memory` a system call is one step, because interrupts are off and it does
  not block while it holds a pool's lock. The two allocations that run with
  interrupts on are several steps: that of `start_process` for the stack of init,
  and main's first `sys_malloc`. Between the scan and the set of either, the other
  and every system call that does not need its lock can run, and when a frame is then set that somebody else
  has got, `broken` becomes `"frame"` and the behaviour ends. Releases by main are
  one step. The kernel's page tables exist from boot.
* A fork copies the arenas of the parent, and the child has the parent's blocks
  (`live`); its own descriptors are empty. An inherited arena (`own` is FALSE)
  names the parent's descriptor. A release of such a block is taken as the code
  takes it: it is appended to the list of the process whose PCB is at that
  address, which may be another one's by then. `broken` becomes `"block"`, and the
  behaviour ends there.
* `lost` has the kernel pages that exits did not give back.
* Characters, sectors and pages carry no contents beyond what tells them apart.
* A freed PCB has status `DIED`. The model never reads one.
* In `Ide`, `main`'s later boot steps run as ordinary calls with interrupts on,
  which allows more interleavings than the code. `sleep` returns at once, as
  the comparison in `ticks_to_sleep` makes it do.
* The drive in `Ide` is external: it completes a command, or fails it, some
  time after it was given, and raises its interrupt.

### The three file modules

Each takes one dimension of `fs/` and leaves the others out.

*`FileIO`* has the arithmetic. Every byte ever written is different (file, life
of the file, offset), so that a byte that comes from the wrong block shows. An
`ASSERT` that fails stops the machine, as `panic_spin` does, and the call is
recorded in `panicked`. The size of a file is what `i_bsize` says; `fd_pos`
ends one byte early after a write, as in the code. A write is taken only while
the map has room for it (`HasRoom`): on a full disk the scan would answer with
block 255, the defect of `bitmap.c:21` below.

*`FileSys`* has the names and the disk, for one caller at a time: the shell waits
for the command it runs. A call then depends only on the state it starts in. It
changes memory in one action and leaves in `todo` the sector writes of the code
in the code's order; `DiskWrite` carries out one, and the next call waits for the
last. `Crash` can happen between any two: it drops `todo` and everything in
memory, and mounts what is on the disk. `Between` names the windows in which the
disk is not what any call leaves: from the directory entry to the inode bitmap
when something is made, and between the entry and the directory's inode when
something is removed. A crash inside sets `torn`, and nothing is said of the
damaged disk after that. `leaks` counts the opens that no code will ever close,
and `stale` the inode numbers that were released under such an open: from there
the next owner of the number would be given a dead inode, and the model stops.
Entries have the fields of the code, a deleted one is cleared, and directories
have "." and ".." in their first block. Directories stay in their direct blocks
(`HasRoom`): the code never loads the indirect table when it looks at more.

*`Files`* has the processes. Its actions end where the code waits for the disk: in
`inode_open` for an inode that is not in memory, and in `file_create`. A slot has
the flags of the caller (`fd_flag`), and `by` records which call filled it. The
variables `shared`, `lost` and `unguarded` record the code's own ways of going
wrong (two parties on one slot, a slot kept by a failed call, a `write_deny` that
no longer tells), so that the invariants can say that nothing *else* goes wrong.
`meant` is the object a descriptor was opened on. An access through NULL, which
`fault` records, ends the behaviour.

`inode_open` clears `pgdir` and takes inodes from the kernel's heap; `file_create`
does not (`fs.c:406`), so that its inode is at an address of its process and goes
with the pages of it at exit. `home` is where an inode is. The list of open inodes
links both sorts. A process that follows a link, or a slot, to an inode of another
process accesses whatever is at that address in its own space, or nothing: the
model records it as `Astray` and ends. (A forked child has a copy of the page
there, and works on the copy; that is not followed.) Exit frees the pages before
it closes the descriptors, but they stay mapped until the page directory is left,
so the closes still find them; the inodes that are left after that have the home
`Dead`. `inode_close` frees such an inode as memory of the kernel (`inode.c:128`);
the model takes it as freed. Read, write and unlink are not in this module.

Two processes can create one name at once: neither finds it, both write an entry,
and later searches stop at the first. The second file is then in nobody's way and
out of reach. Writing an entry reads, changes and writes a block of the directory
and is one step: it is done under the channel's lock without the CPU being given
to anyone who creates. Two creators that make the directory *grow* at the same time
can lose an entry (`dir.c:150` to `205`); the directory does not grow in the model.

## 3. Runs

| Run | Instance | Checks | Distinct states |
|---|---|---|---|
| `scheduler` | main, init, a third thread, idle; priorities 1, idle 0 | `IdleAvailable` `ReadyIffRunnable` `QueuedThreadRuns` | 4 720 |
| `sync` | three threads (two preemptible) and idle, two locks, nesting 2 | `MutualExclusion` `LockAccounts` `TagLinkedOnce` `NoLostWakeup` `ImplementsLock` | 143 000 |
| `kbd` | one reader, ring of 3 slots, a letter, left shift, right ctrl, right alt, caps lock | `ControlKeysReleased` `ImplementsFifo` `ReaderServed` | 607 000 |
| `pipe` | one reader, two writers, ring of 3 slots, counts up to 4 | `ReadNeverBlocks` `ImplementsFifo` `SleeperWoken` | 8 700 |
| `process` | init, main, idle and up to three processes, five pids | `PidsUnique` `ParentAlive` `ListsAgree` `WaitReturns` | 97 500 |
| `bitmap` | 512 bits, requests of 128 | `ScanAsPromised`, violated | |
| `ide` | main and one process, calls of one or two commands, two faults | `DriveServesCaller` `NoStaleCompletion` `ChannelReleased` | 106 000 |
| `memory` | init and a child, two forks, three allocations of one block or two pages; 17 and 8 frames, 14 kernel pages, 3 heap pages, bitmaps of 2 pages, arenas of 2 blocks | `FramesOwnedOnce` `FramesReturned` `MappedIffReserved` `HeapPartition` | 180 000 |
| `fileio` | two files, one open at a time; blocks of 2 bytes, 2 direct blocks and a table of 2, 12 blocks; writes of up to 3 bytes, one deletion | `ReadReturnsWritten` `BlocksAccounted` `PosInFile` `PanicOnlyAtLimit` | 542 000 |
| `filesys` | two names, paths of two, 3 inodes, 7 blocks, directories of 2 blocks with 3 entries, 2 opens, one crash | `DiskSound` `NothingLost` `CountsExact` `GetcwdRight` `ImplementsTree` | 382 000 |
| `files` | the shell and two more processes, two files, two names, 3 slots, 2 descriptors each, 4 objects, 4 calls | `DescriptorsRight` `SlotsAlive` `OneWriter` `SlotsHeld` | 311 000 |
| `filesys_fifth` | as `filesys` with 5 inodes and 9 blocks, no crash | `InodesKept`, violated | |

What the file runs show:

* `fileio`: through direct blocks, the table and the step from one to the other,
  every byte reads back as written, after any deletion and reuse of blocks;
  blocks are neither shared nor lost; and the only asserts that fail are those
  about the last block of a file of the largest size.
* `filesys`: at every moment outside `Between`, and so after a crash at any such
  moment, the disk holds a sound tree: every name has an inode and blocks of its
  own, marked in the bitmaps, and `readdir`, which goes by the size, gives every
  entry once. Between calls memory and disk agree, and without a crash nothing
  is leaked. Seen by programs the disk implements `Tree`: the refinement maps the
  paths that lead somewhere to `tree`, and every write makes one name, drops one,
  or changes none. Open counts are exact up to the forgotten opens.
* `files`: descriptors lead to what they were opened on, and nobody closes through
  NULL, *unless* a slot was taken by two overlapping opens or shared by a fork
  with a regular file open. Pipes do survive forks. Another fault needs an inode
  that `file_create` put into the heap of a process. No slot leads to an object
  that was freed with the last of its count, and an inode that went with its
  creator leaves only slots that a fork shared or a failed call lost. Two
  descriptors write one file only through a shared slot, through a `write_deny`
  that was cleared or is in two copies, or because one of them is the descriptor
  of `file_create`: a single `O_CREAT|O_RW` leaves two that write.

What `memory` shows: with timer ticks anywhere in the two allocations with interrupts
on, no two pages and no two page tables share a frame, and a page shares one with a
page table only as a result of the race of `memory.c:226`, and only the two pages
named in `FramesOwnedOnce`. The comment at `memory.c:31` says that the pool's lock
is for that mutual exclusion. Every other frame comes back: the pages of the kernel
that are mapped and have no owner are those that exits have lost, one for each.
Heaps are partitioned into live and free blocks until a process frees a block that
it inherited.

Why the bounds are enough for the cases that matter. Three contenders for a lock
are the least with which a woken thread is overtaken while another still waits;
two preemptible ones meet between any two statements. A ring of three slots
holds two characters, so it is empty, partly full, full and wrapped. Writes of
up to four exceed any room. Three forked processes give a grandchild, an orphan
and a sibling, and five pids force reuse. Two commands in a call show the loop,
two faults show a failure after a failure. In `bitmap` the third run of
128 bits begins at bit 256, the first index that the scan cannot return. In `memory` the second fork takes frames
that the first child gave back, the child inherits a heap, and 17 frames leave
room for that with a kernel arena in between; three blocks need a second arena.
Priorities
are small because a longer slice only repeats the state between two ticks. In
`fileio` a write of three bytes can fill a block, take the table and a block
behind it in one call; 12 blocks hold both files at their largest. In `filesys`
the root needs a second block for its second name, so that blocks come and go;
three inodes give a directory with a file in it and force numbers to be used
again. In `files` three slots are one less than the descriptors two processes can
ask for, and four calls are the least for an open that overlaps another, in the
slot of one that was closed after a fork; two names let two processes create the
same one, or one each.

`SYMMETRY` permutes the names (`filesys`, `files`), the files and the forked
processes (`files`, `fileio`); none of these runs checks liveness. The `VIEW` of `filesys`
leaves out the contents of free blocks, which are cleared before they are used.

Deadlock is checked in every run but `memory` and the file runs, which end when
their bounds on calls are used up, or when the machine has stopped, and have no
waiting in them. In the others the idle loop and the timer always have a step in
a working kernel, so a deadlock is a hang with interrupts off, such as
`sema_down`'s loop would be for a thread already among the waiters.

### Fairness

Liveness is checked as `QueuedThreadRuns`, `ReaderServed`, `SleeperWoken`,
`WaitReturns` and `ChannelReleased`, under these assumptions:

* The timer keeps ticking. Where a thread may run with interrupts off the tick
  is taken only now and then, hence strong fairness: the 8259A holds the request.
* The idle loop runs when it is switched to.
* Kernel code that a thread has entered is executed: weak fairness where nothing
  can interrupt it, strong where a tick can.
* The drive answers a command and its interrupt is taken (`Ide`).
* Readers of a pipe keep reading (`Pipe`); init keeps calling `wait` (`Process`).

Nobody is assumed to press keys, fork, exit, or call the driver. `scheduler`
assumes only the timer.

### What the violations show

`bitmap`: `bitMap_scan` keeps the index it returns in a `uint8_t` (`bitmap.c:32`). The
third allocation of 128 bits on a map of 512 is answered with 0 instead of 256, and
the caller sets the bits of the first one once more; `bitmap.h:14` promises the index
of a free run, or -1. For the same reason the answer when there is none is 255. The
map is of the size of a small pool; the pid pool has 1024 bits, and the block map of a
partition thousands.

`filesys_fifth`: `inode_locate` keeps the offset of an inode in its sector in a
`uint8_t` (`inode.c:36`, the field at `inode.h:24`), so that the fifth inode, at
offset 304, is written over the first two. The other runs of `FileSys` have three
inodes and are not affected.

### Defects the models contain

The models follow the code, so the following behaviour is in them, and the
properties say what holds beside it.

| Where | What the code does | In the models |
|---|---|---|
| `wait_exit.c:111` | a zombie handed to init while init sleeps in `wait` (`main.c:61` loops over it) is not reaped until another child of init exits | `WaitReturns` leaves init out |
| `wait_exit.c:73` | `find_child` compares with the thread's own pid: a childless caller of `wait` finds itself and sleeps for ever | it sleeps in the model too; `WaitReturns` speaks of parents with a zombie |
| `bitmap.c:32` | the index found is cut to `uint8_t`: beyond 256 bits the scan answers with bits that are taken | the run `bitmap`; the other models have only answers it gets right |
| `bitmap.c:21`, `30` | a failing scan answers 255, which no caller takes for a failure, and a run that ends with the map is not found | as above |
| `memory.c:226` | page tables of user pages come from the kernel's pool under the user pool's lock; `start_process`, preempted between scan and set, shares a frame with main's allocation, or main with the page table of a process | `broken = "frame"` in `FramesOwnedOnce` |
| `memory.c:564`, `fork.c:33` | a block that a child inherited goes back to the list in the parent's PCB, or in that of the PCB page's next owner | `broken = "block"` in `HeapPartition` |
| `memory.c:496` | `invlpg` gets the address of a local variable | no TLB in the model |
| `wait_exit.c:51` | exit rounds the size of the vaddr bitmap down and loses a kernel page each time, against the comment at line 50 | `lost`; `FramesReturned` counts one for each exit |
| `ide.c:204`, `251` | a failed command leaves the channel locked | `ChannelReleased` asks for no failure |
| `ide.c:249` | a write that gives up leaves `expecting_intr` set; its late interrupt raises `disk_done` for nobody | `NoStaleCompletion` |
| `timer.c:44` | `ticks_to_sleep` compares the wrong way round and returns at once | `sleep` is a no-op |
| `ioqueue.c:59` | emptiness is tested before the queue's lock is waited for and not again | one reader in the runs |
| `pipe.c:97` | one byte of room too many is counted: the write can block | `SleeperWoken` covers that sleep |
| `keyboard.c:126` | the release of the right shift key is ignored | `ControlKeysReleased` leaves shift out |
| `sync.c:29` | the comment that an `if` would do is wrong: a woken thread can be overtaken | `Sync` has the `while` |
| `fs.c:377` | `cd /` reads an uninitialised inode number | `sys_chdir_root` takes any number |
| `fs.c:1551` | `getcwd` looks only at a directory's first block | `GetcwdRight` allows no answer |
| `fs.c:1206` | `unlink("/f/x")` removes the regular file `/f` | action `sys_unlink` |
| `fs.c:1668` and others | `stat`, `chdir`, `open` and a refused `unlink` leave inodes open | `leaks` |
| `fs.c:438`, `1355` | a crash between the entry and the inode bitmap leaves a name on a free inode | `Between`, `torn` |
| `fs.c:501` | a refused writer keeps slot and count, and interrupts stay off | `lost` |
| `fs.c:517` | any close clears `write_deny` | `unguarded` |
| `fs.c:421` | `file_create` gives its descriptor the flags of the caller and does not set `write_deny`; then `sys_open` opens the file again, for writing too: two writers of one file in one process (`inode.h:11` forbids parallel writing) | `OneWriter` excepts its descriptor |
| `fs.c:406`, `inode.c:128` | the inode `file_create` makes is in the heap of its process, linked into a list that all use, and freed as memory of the kernel | `home`, `Astray`; `SlotsAlive` says which slots are left when the process is gone |
| `fs.c:814` | two creators of one name do not see each other: both make a file and an entry | `file_create`, `sync_dir_entry` |
| `fs.c:487`, `file.c:19`, `inode.c:105` | overlapping opens choose one slot, or make two copies of one inode | `shared`, `unguarded` |
| `fork.c:121`, `fs.c:519` | a forked child shares the slot that the first close clears | `shared`, `fault` |
| `fs.c:588`, `933` | accesses to the last block of the largest file fail an assert; `fd_pos` is left on the last byte (the comment at `fs.c:719` says after it) | `PanicOnlyAtLimit`, `PosInFile` |

Also read in the code and not in any model: with the file table full
`get_free_slot_in_file_table` returns nothing (`file.c:22`), so opens are taken only
while there is a slot; directories that need their indirect table never load it
(`dir.c:49`, `136`); two processes that make a directory grow at once can lose an
entry (`dir.c:150` to `205`); `sys_unlink` tests whether a file is in use and then
waits for the disk (`fs.c:1219`); `partition_format` writes the superblock first, so a
crash in it leaves a partition that mounts (`fs.c:134`); `identtify_disk` talks to the
drive without the channel's lock (`ide.c:305`); the shell runs the commands of a
pipeline one after the other, so the first can fill the pipe and sleep for ever
(`shell.c:208`); `get_user_pages` would allocate from the kernel's pool under the
user pool's lock (`memory.c:287`), but has no caller.

## 4. Proofs

TLC looks at the instances above. The theorems hold for every value of the
constants that satisfies the named assumptions: any set of threads, locks, files
or processes, any priorities, any size of ring, block or heap. Where a bitmap is
behind them they are about the answers that the scan gets right: `ProcessAssumption`
has at most 255 pids, `FileIOAssumption` at most 255 blocks, and in `Memory`, with pools
and address spaces of any size, an allocation is taken only when a frame and a run
below bit 256 are free. TLC evaluates each assumption in the run of its module.

| Module | Theorem | States | Assumptions used |
|---|---|---|---|
| `SchedulerProofs` | `NoThreadLost`, `IdleReady`, `SchedulerTyped` | `ReadyIffRunnable`, `IdleAvailable`, `ThreadTypeOK` | `BootAssumption`, `PriorityAssumption` |
| `SyncProofs` | `LockExclusion`, `LockAccounted`, `TagsLinked`, `WakeupKept`, `SyncTyped`; `LocksImplement` | `MutualExclusion`, `LockAccounts`, `TagLinkedOnce`, `NoLostWakeup`, `TypeOK`; the refinement `ImplementsLock` | those, `SyncAssumption` |
| `ProcessProofs` | `PidsDistinct`, `NoOrphan`, `ListsConsistent`, `ProcessTyped` | `PidsUnique`, `ParentAlive`, `ListsAgree`, `TypeOK` | those of `Scheduler`, `ProcessAssumption` |
| `IdeProofs` | `DriveExclusive`, `CompletionsMatch`, `IdeTyped` | `DriveServesCaller`, `NoStaleCompletion`, `TypeOK` | those of `Scheduler`, `IdeAssumption` |
| `QueueProofs` | `ReadersNeverBlock`, `NoKeySticks`; `PipeImplementsFifo`, `KbdImplementsFifo` | `ReadNeverBlocks`, `ControlKeysReleased`; the refinement `ImplementsFifo` of `Pipe` and of `KbdInput` | those of `Scheduler`, `QueueAssumption`, `KeyAssumption` |
| `FileIOProofs` | `BytesReadBack`, `NoBlockLost`, `PositionsInside`, `AssertsHold` | `ReadReturnsWritten`, `BlocksAccounted`, `PosInFile`, `PanicOnlyAtLimit` | `FileIOAssumption` |
| | `ScansFirstFit`, `ExtentsApart`, `BitsTyped` | `FirstFitBeforeEnd`, `ExtentsDisjoint`, values are bits: what holds beside the violation | `BitmapConstants` and the size of the map, as hypotheses of the first two |
| `FilesProofs` | `DescriptorsLead`, `NoSlotDangles`, `WritersApart`, `NoSlotLeaks` | `DescriptorsRight`, `SlotsAlive`, `OneWriter`, `SlotsHeld` | `FilesAssumption` |
| `MemoryProofs` | `FramesAreOwnedOnce`, `FramesComeBack`, `MappedExactlyReserved`, `HeapsArePartitioned`, `MemoryTypes` | `FramesOwnedOnce`, `FramesReturned`, `MappedIffReserved`, `HeapPartition`, `TypeOK` | `MemoryAssumption` |

Each module first proves that an inductive invariant holds always (`SchedInvariant`,
`LockInvariant` and `SyncInvariant`, `ProcInvariant`, `IdeInvariant`, `PipeInvariant`,
`KbdInvariant`, `FileIOInvariant`, `BitmapInvariant`, `FilesInvariant`,
`MemoryInvariant`), one step per action, and reads the properties
off it. None of the properties but the types is inductive alone; what had to be
added, and why:

* *Scheduler* (`SchedInv`). That the list holds exactly the runnable threads is
  kept by a switch only if no thread is in it twice, since a switch takes out one
  node, and if the running thread is not in it. That idle can be woken needs that
  idle is only ever blocked by itself and never exits.
* *Locks* (`LockInv`). A step of `lock_acquire` trusts the holder field, one of
  `lock_release` the repeat count, and `sema_down` the value. `LockInv` adds what
  they rest on: `ValueCounts` (the semaphore is 0 exactly when some thread has its
  token), `HolderCounts` (the holder field names the thread between the two
  statements that write it, and the repeat count is its number of acquisitions)
  and `CallState` (which labels go with which nesting depth). Exclusion does not
  need that waiters are distinct.
* *Lists of waiters* (`ListInv`, in `SyncInv`). A tag is in at most one list because
  the status tells the lists apart: who is ready may run, who is among the waiters
  of a lock is blocked in `sema_down` on that lock. The argument depends on idle,
  which `schedule` may push on its own account, never taking a lock.
* *Refinement of the lock.* `LocksImplement` maps each statement of `sync.c` to an
  acquisition, a release or a stutter of `RecursiveLock`; `LockInv` is what says
  that the mapped step is allowed there.
* *Processes* (`ProcInv`). A child always finds its parent by pid, or is handed to
  init: this needs pids to be unique, main, which gives its pid back without
  looking for children, to have none (`Family`), and init, with pid 1, to stay.
* *Disk* (`ChannelInv`, `PhaseInv`). A failed call leaves the lock with a thread that
  is no longer inside, so the holder tells who may be inside and not who is; and
  `identtify_disk` takes no lock, so at boot it is the order of initialisation that
  keeps others out. `PhaseInv` lists, while no command has failed, the possible
  combinations of command, drive, interrupt line, `expecting_intr` and `disk_done`.
* *Pipes* (`PipeInv`). A reader inside `pipe_read` is the running thread, for it
  neither blocks nor is interrupted; so the characters it has counted stay there.
  The refinement maps every move of `head` and `tail` around the ring to one
  character in or out of the queue.
* *Keyboard* (`KbdInv`). The refinement is that of pipes, with an interrupt handler
  for a producer that drops what finds the ring full. A status is on only while a
  key that sets it is down, because the two keys that set ctrl (alt) are the two
  whose release clears it; the announced half of an extended code (`sending`) is
  in between.
* *Bitmap* (`BitmapInv`). `ScansFirstFit` says what the scan computes from the first
  free bit on, counting in a `uint8_t`: for maps of up to 256 bits nothing wraps,
  and the answer is the first run that fits if one fits that does not end with
  the map.
  `ExtentsApart` asks for fewer than 256: a scan in vain answers 255, which callers
  do not take for a failure, and the bits they then set and give to their client
  have to be outside the map. Larger maps break both, the first of the defects above.
* *Descriptors* (`FilesInv`). No call sees more than its own slot, so each of the four
  properties rests on the rest: that a close frees the right object needs the
  count of an inode to cover the slots on it (`CountsOK`), which needs the list to
  have it once (`ListOK`), a flag to tell what a slot leads to (`KindsOK`), and a file
  being created to belong to one process and to be in no list yet (`CreatesOK`).
  `WritersOK` ties `write_deny` to the slots that `file_open` filled to write, and
  those only. `SlotOK` is the part about one slot: who holds it and, if it is not
  shared, that its descriptors mean its object, that their process can access the
  inode (`AtHome`) and that a pipe counts them exactly. That an inode which went
  with its creator has left the slots of others only through a fork or a failed
  call is what `AtHome` is for: an exit closes the slots of its own, and
  `VacatedOK` needs that none of those left was at home in its space. `fork` and `exit` go through the
  descriptors of a process in a loop; the proof runs along the records the loop
  goes through (`Rounds`, `EveryRound`), a closed descriptor at a time (`ClosedOK`)
  or a copied one at a time (`ForkRound`): in between, the child has the part of
  the descriptors that has been counted.
* *File contents* (`IOInv`). `Layout` says that a file of `n` bytes has exactly its
  first `n / BLOCK_SIZE + 1` blocks (none when it is empty, and a table when they
  are more than `Direct`), that all of these are different over all files, and
  that they and the reserved ones are the marked blocks. The rest is arithmetic of
  offsets and blocks, and following `file_write` through its three cases: within
  the direct blocks, across to the table, and behind it.
* *Memory* (`MemInv`). Nobody's frame is given out twice because the page tables,
  the tables' own frames and the map of the pool agree in every space that is in use:
  each frame has one holder (`Once`), and each space's bits are its mapped pages, main's
  unfinished allocation aside (`BitsRight`). After the race of `memory.c:226` there is
  one pair that shares a frame (`OnceBut`); this is what is left to show that no other
  pair ever does. `BootInv` says what main and init have found and not yet marked:
  main has the lock of the kernel's pool, so no *page* of the kernel can get its frame
  in between, and only a page table can; init is alone until it runs. Releases at exit
  and at `wait` are safe because the kernel pages of two processes (PCB, page
  directory, address bitmap) are different and mapped (`ProcInv`), and because the
  kernel's arenas are in none of them (`KernelArenas`). A heap is partitioned by its
  arenas, and each arena by its free and its live blocks (`HeapInv`); an inherited
  arena has no free block in a list. Once an inherited block was freed only the types
  are left (`HeapTyped`). That nothing but the page of `wait_exit.c:51` gets lost
  (`LostInv`) needs every mapped page of the kernel to have an owner, and `ExitInv`
  counts exits as forks without the children alive.

The first part of `SchedulerProofs` has what the proofs about threads share: what `schedule`, `thread_block`,
`thread_unlock` and the timer do to the status map and the ready list, and how
`Append`, `Tail`, pushing in front and removing change the members of a list
without repetitions.

Only model-checked:

* all liveness: reasoning under fairness is outside what the prover supports;
* the invariants of `FileSys` and `ImplementsTree`: they are not true for every value
  of the constants. From the fifth inode on, inodes lie over others (`inode_locate`,
  the run `filesys_fifth`), and TLC finds `DiskSound` and `NothingLost` violated with
  five inodes: a directory that was written over loses its names, and its blocks stay
  marked until the partition is full, where the model's choice of a free block means
  nothing. They are properties of partitions of at most four inodes, which TLC covers
  with three. `CountsExact` rests on the same tree (a released number is nobody's
  only if no other name leads to it), and `GetcwdRight` on the path walk, a recursive
  function over directories: an induction over data.

No module has a RECURSIVE operator.

## 5. Plan

Every invariant of every module but `FileSys` that a run checks is proved. A proof about
`FileSys` would be for partitions on which no two inodes overlap, which is where the
code is right; its invariant would say of every pending sequence of writes what each
of them leaves on disk.

Models that could still be added: `fd_redirect` and the dispatch of `sys_read` and
`sys_write` in `Files`, several callers in `FileSys`, the shell's pipeline over
`Pipe` and `Process`.

## 6. Not modelled, and why

The boot sector and loader (sequential set-up before there is any state to
share); IDT, PIC, PIT and TSS programming (constants and port writes); the contents of
pages and page directories, ELF loading in `exec.c`, and the TLB; the branches of
`memory.c` for a scan that reports failure, which `bitMap_scan` never does; the
branches of `fs/` for a full disk, for the same reason; printing, strings and
formatting; the text of paths (a path is a sequence of names); the partition
scan; the shell's line editing and builtin commands, which are user programs that
call what is modelled. Register switching in `switch.S` is the change of `cur`.
