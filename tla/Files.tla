------------------------------- MODULE Files --------------------------------
(***************************************************************************)
(* Descriptors (src/fs/fs.c, file.c, inode.c, src/shell/pipe.c and the     *)
(* parts of fork and exit that concern them): the descriptor table of each *)
(* process, the file table they share, and the in-core inodes and pipe     *)
(* buffers behind it, with several processes at work.                      *)
(*                                                                         *)
(* System calls run with interrupts off and give up the CPU only where     *)
(* they wait for the disk: in inode_open for an inode that is not in the   *)
(* list, and in file_create.  A call is one action up to such a wait, and  *)
(* another after it.                                                       *)
(*                                                                         *)
(* inode_open takes an inode from the kernel's heap, file_create from that *)
(* of its process (fs.c:406), though both go into one list.  The model     *)
(* stops at an access through NULL, and at one that finds no inode: by a   *)
(* process in whose address space the inode is not.                        *)
(***************************************************************************)
EXTENDS Integers, Sequences, FiniteSets, FiniteSetsExt, SequencesExt, Functions

CONSTANTS Procs,
          FileSet,  \* regular files, as their inode numbers
          Names,    \* names in the directory
          Shell,    \* the process there is at first
          Slots,    \* number of slots of the file table: 32 - 3
          Fds,      \* descriptors of a process after the standard ones: 8 - 3
          Objects,  \* bound on the inodes and pipe buffers in memory
          MaxCalls  \* bound on the calls of open, pipe and fork

ASSUME FilesAssumption ==
    /\ IsFiniteSet(Procs) /\ Shell \in Procs
    /\ {"kernel", "dead"} \cap Procs = {} /\ "none" \notin Names
    /\ Slots \in Nat \ {0} /\ Fds \in Nat \ {0} /\ Objects \in Nat

VARIABLES file_table,  \* per slot: fd_inode, fd_flag and, of a pipe, fd_pos; and
                       \* which call filled it, by (history)
          fd_table,    \* per process and descriptor: a slot, or NoSlot
          heap,        \* per object: what it is
          home,        \* per object: the address space it is in
          open_inodes, \* the list of in-core inodes
          name,        \* per inode number: the name it is for, if it is taken
          made,        \* the numbers that search_file finds
          pc,          \* per process: where it waits, and for what
          meant,       \* per process and descriptor: the object it was opened on
          shared,      \* slots that two parties took for their own
          lost,        \* slots taken by a call that then failed
          unguarded,   \* files whose write_deny stopped telling
          calls,
          fault        \* the slot through which NULL was accessed, or Astray

vars == <<file_table, fd_table, heap, home, open_inodes, name, made, pc, meant, shared,
          lost, unguarded, calls, fault>>

Slot == 1..Slots
Fd == 1..Fds
Object == 1..Objects
NULL == 0
NoSlot == 0
Astray == Slots + 1

Kernel == "kernel"
Dead == "dead"   \* the space of a process that exited
NoName == "none"

Free == [kind |-> "free"]
InodeObject(f, cnt) ==
    [kind |-> "inode", file |-> f, i_open_cnts |-> cnt, write_deny |-> FALSE]
PipeBuffer == [kind |-> "pipe"]

Gone == [at |-> "gone"]
Running == [at |-> "run"]
Waiting(at, slot, inode, f, flag) ==
    [at |-> at, slot |-> slot, inode |-> inode, file |-> f, flag |-> flag]

\* fd_flag tells readers, writers and pipes apart: the flags of the caller.
Flags == {"read", "write"}
OpenFileOf(o, flag, by, pos) ==
    [fd_inode |-> o, fd_flag |-> flag, by |-> by, fd_pos |-> pos]

NoFds == [fd \in Fd |-> NoSlot]

Init ==
    /\ file_table = [s \in Slot |-> OpenFileOf(NULL, "read", "read", 0)]
    /\ fd_table = [p \in Procs |-> NoFds]
    /\ heap = [o \in Object |-> Free]
    /\ home = [o \in Object |-> Kernel]
    /\ open_inodes = <<>>
    /\ name \in [FileSet -> Names \cup {NoName}]
    /\ \A f, g \in FileSet : name[f] = name[g] => f = g \/ name[f] = NoName
    /\ made = {f \in FileSet : name[f] # NoName}
    /\ pc = [p \in Procs |-> IF p = Shell THEN Running ELSE Gone]
    /\ meant = [p \in Procs |-> [fd \in Fd |-> NULL]]
    /\ shared = {} /\ lost = {} /\ unguarded = {}
    /\ calls = 0
    /\ fault = NoSlot

-----------------------------------------------------------------------------
(* The state of the calls, as records that one step hands to the next. *)

Now == [ft |-> file_table, fds |-> fd_table, heap |-> heap, home |-> home,
        list |-> open_inodes, meant |-> meant, lost |-> lost, unguarded |-> unguarded,
        fault |-> fault]

\* Processes that chose slot s, or have a descriptor on it.
Waiters(pcs, s) == {p \in Procs : pcs[p].at \in {"open", "create", "entry"} /\ pcs[p].slot = s}
Holders(fds, s) == {p \in Procs : \E fd \in Fd : fds[p][fd] = s}

\* The end of every action.  A slot is shared as long as anyone refers to it.
Becomes(st, pcs, newly) ==
    /\ file_table' = st.ft /\ fd_table' = st.fds /\ heap' = st.heap /\ home' = st.home
    /\ open_inodes' = st.list /\ meant' = st.meant
    /\ lost' = {s \in st.lost : st.ft[s].fd_inode # NULL}
    /\ unguarded' = {f \in st.unguarded : \E o \in Object :
                        st.heap[o].kind = "inode" /\ st.heap[o].file = f}
    /\ fault' = st.fault
    /\ pc' = pcs
    /\ shared' = {s \in shared \cup newly :
                     Waiters(pcs, s) # {} \/ Holders(st.fds, s) # {}}

Call == calls < MaxCalls /\ calls' = calls + 1

\* get_free_slot_in_file_table: the first slot without an inode.  The slot is
\* not marked.
FreeSlots == {s \in Slot : file_table[s].fd_inode = NULL}
get_free_slot_in_file_table == Min(FreeSlots)

\* The slot is taken while another call that chose it waits.
Clash(s) == IF Waiters(pc, s) # {} THEN {s} ELSE {}

\* What p can access: the kernel's memory and its own.
InSpace(st, p) == {o \in Object : st.home[o] \in {Kernel, p}}

\* p accesses an inode that is not there.
Strayed(st) == [st EXCEPT !.fault = Astray]

\* Memory for an inode or a pipe; never one a descriptor still means.
Unused(st) ==
    {o \in Object : st.heap[o].kind = "free" /\ \A p \in Procs, fd \in Fd : st.meant[p][fd] # o}
NewObject(st) == Min(Unused(st))

\* pcb_fd_install: the first free descriptor of p; the slot is lost without one.
pcb_fd_install(st, p, s, o) ==
    LET free == {fd \in Fd : st.fds[p][fd] = NoSlot} IN
    IF free = {} THEN [st EXCEPT !.lost = @ \cup {s}]
    ELSE [st EXCEPT !.fds[p][Min(free)] = s, !.meant[p][Min(free)] = o]

-----------------------------------------------------------------------------
(* Opening. *)

\* The first in the list that has the file's number, 0 if there is none.
Found(f) == SelectInSeq(open_inodes, LAMBDA o : heap[o].file = f)

\* The inodes that inode_open looks at, and the one whose tag list_push sets.
Walked(f) == {open_inodes[n] : n \in 1..IF Found(f) = 0 THEN Len(open_inodes) ELSE Found(f)}
PushedOn == IF open_inodes = <<>> THEN {} ELSE {Head(open_inodes)}

\* Mutant: only the first open is counted.
inode_open_nocount(st, o) == st

\* inode_open, when the inode is in the list.
inode_open(st, o) == [st EXCEPT !.heap[o].i_open_cnts = @ + 1]

\* Mutant: a writer is let in whatever the flag says, and sets it.
WriteGranted_always(inode) == TRUE

WriteGranted(inode) == ~inode.write_deny

(***************************************************************************)
(* file_open with the inode o at hand.  A writer must find write_deny      *)
(* clear; one that does not fails and leaves the slot and the count taken. *)
(***************************************************************************)
Opened(st, p, s, o, flag) ==
    LET in == [st EXCEPT !.ft[s] = OpenFileOf(o, flag, flag, 0)]
    IN  IF flag = "read" THEN pcb_fd_install(in, p, s, o)
        ELSE IF WriteGranted(st.heap[o])
        THEN pcb_fd_install([in EXCEPT !.heap[o].write_deny = TRUE], p, s, o)
        ELSE [in EXCEPT !.lost = @ \cup {s}, !.ft[s].by = "refused"]

\* file_open: a slot, and the inode from the list or, after a wait, the disk.
file_open(p, f, flag) ==
    LET s == get_free_slot_in_file_table
        o == open_inodes[Found(f)]
    IN
    /\ FreeSlots # {}
    /\ IF ~(Walked(f) \subseteq InSpace(Now, p)) THEN Becomes(Strayed(Now), pc, {})
       ELSE IF Found(f) # 0
       THEN Becomes(Opened(inode_open(Now, o), p, s, o, flag), [pc EXCEPT ![p] = Running],
                    Clash(s))
       ELSE Becomes(Now, [pc EXCEPT ![p] = Waiting("open", s, NULL, f, flag)], Clash(s))

\* sys_open of a file that is there.
sys_open(p, f, flag) ==
    /\ pc[p] = Running
    /\ f \in made
    /\ file_open(p, f, flag)
    /\ Call /\ UNCHANGED <<name, made>>

\* The rest of inode_open and file_open, when the inode has been read: another
\* copy may have come into the list in the meantime.
inode_read(p) ==
    LET w == pc[p]
        o == NewObject(Now)
        again == IF Found(w.file) # 0 THEN {w.file} ELSE {}
        st == [Now EXCEPT !.heap[o] = InodeObject(w.file, 1), !.home[o] = Kernel,
                          !.list = <<o>> \o @, !.unguarded = @ \cup again]
    IN
    /\ w.at = "open"
    /\ Unused(Now) # {}
    /\ IF ~(PushedOn \subseteq InSpace(Now, p)) THEN Becomes(Strayed(Now), pc, {})
       ELSE Becomes(Opened(st, p, w.slot, o, w.flag), [pc EXCEPT ![p] = Running],
                    IF file_table[w.slot].fd_inode # NULL THEN {w.slot} ELSE {})
    /\ UNCHANGED <<name, made, calls>>

(***************************************************************************)
(* file_create, for a name that sys_open did not find: the slot has the    *)
(* new inode, of the caller's own heap, at once; the inode is put into the *)
(* list, and counted, after the last write, and others can find the name   *)
(* from the moment its entry is written.  Then sys_open opens the file     *)
(* again.                                                                  *)
(***************************************************************************)
file_create(p, f, n, flag) ==
    LET s == get_free_slot_in_file_table
        o == NewObject(Now)
    IN
    /\ pc[p] = Running
    /\ \A g \in made : name[g] # n
    /\ name[f] = NoName
    /\ FreeSlots # {} /\ Unused(Now) # {}
    /\ Becomes([Now EXCEPT !.heap[o] = InodeObject(f, 0), !.home[o] = p,
                           !.ft[s] = OpenFileOf(o, flag, "create", 0)],
               [pc EXCEPT ![p] = Waiting("create", s, o, f, flag)], Clash(s))
    /\ name' = [name EXCEPT ![f] = n]
    /\ Call /\ UNCHANGED made

\* The entry comes after the ones that are there, and search_dir_entry stops at
\* the first with the name: if two created it at once, that of the first.
sync_dir_entry(p) ==
    LET f == pc[p].file IN
    /\ pc[p].at = "create"
    /\ made' = IF \E g \in made : name[g] = name[f] THEN made ELSE made \cup {f}
    /\ UNCHANGED <<name, calls>>
    /\ Becomes(Now, [pc EXCEPT ![p].at = "entry"], {})

\* The end of file_create.
inode_listed(p) ==
    LET w == pc[p]
        again == IF Found(w.file) # 0 THEN {w.file} ELSE {}
        st == [Now EXCEPT !.heap[w.inode].i_open_cnts = @ + 1, !.list = <<w.inode>> \o @,
                          !.unguarded = @ \cup again]
    IN
    /\ w.at = "entry"
    /\ IF ~(PushedOn \subseteq InSpace(Now, p)) THEN Becomes(Strayed(Now), pc, {})
       ELSE Becomes(pcb_fd_install(st, p, w.slot, w.inode),
                    [pc EXCEPT ![p] = Waiting("reopen", NoSlot, NULL, w.file, w.flag)], {})
    /\ UNCHANGED <<name, made, calls>>

reopen(p, f) ==
    /\ pc[p].at = "reopen"
    /\ f \in made /\ name[f] = name[pc[p].file]
    /\ file_open(p, f, pc[p].flag)
    /\ UNCHANGED <<name, made, calls>>

-----------------------------------------------------------------------------
(* Pipes, closing, fork and exit. *)

\* sys_pipe: one slot and two descriptors on it, which fd_pos counts.
sys_pipe(p) ==
    LET s == get_free_slot_in_file_table
        o == NewObject(Now)
        st == [Now EXCEPT !.heap[o] = PipeBuffer,
                          !.ft[s] = OpenFileOf(o, "pipe", "pipe", 2)]
    IN
    /\ pc[p] = Running
    /\ FreeSlots # {} /\ Unused(Now) # {}
    /\ Becomes(pcb_fd_install(pcb_fd_install(st, p, s, o), p, s, o), pc, Clash(s))
    /\ Call /\ UNCHANGED <<name, made>>

inode_close(st, o) ==
    IF st.heap[o].i_open_cnts = 1
    THEN [st EXCEPT !.heap[o] = Free, !.home[o] = Kernel, !.list = RemoveFirst(@, o)]
    ELSE [st EXCEPT !.heap[o].i_open_cnts = @ - 1]

\* Mutant: the slot keeps the inode.
SlotClosed_kept(ft, s) == ft

SlotClosed(ft, s) == [ft EXCEPT ![s].fd_inode = NULL]

\* The inodes of the list that list_remove(o) sets.
Beside(list, o) ==
    {list[n] : n \in {m \in DOMAIN list : \E k \in {m - 1, m, m + 1} \cap DOMAIN list : list[k] = o}}

\* file_close by p: write_deny is cleared whoever closes, and the slot is free.
\* A slot without inode, and an inode that list_remove finds in no list, lead to
\* NULL.
file_close(st, p, s) ==
    LET o == st.ft[s].fd_inode
        others == {t \in Slot \ {s} : st.ft[t].fd_inode = o /\ st.ft[t].by = "write"}
        told == [st EXCEPT !.heap[o].write_deny = FALSE,
                           !.unguarded = IF others = {} THEN @ ELSE @ \cup {st.heap[o].file}]
        set == {o} \cup IF st.heap[o].i_open_cnts = 1 THEN Beside(st.list, o) ELSE {}
        unlisted == st.heap[o].i_open_cnts = 1 /\ ~Contains(st.list, o)
    IN  IF o = NULL THEN [st EXCEPT !.fault = s]
        ELSE IF ~(set \subseteq InSpace(st, p)) THEN Strayed(st)
        ELSE IF unlisted THEN [st EXCEPT !.fault = s]
        ELSE [inode_close(told, o) EXCEPT !.ft = SlotClosed(@, s)]

\* Mutant: the first descriptor that is closed frees the pipe.
LastOfPipe_any(pos) == TRUE

LastOfPipe(pos) == pos = 1

\* sys_close of a pipe frees the buffer with the last descriptor.
pipe_close(st, s) ==
    LET o == st.ft[s].fd_inode IN
    IF LastOfPipe(st.ft[s].fd_pos) /\ o = NULL THEN [st EXCEPT !.fault = s]
    ELSE IF LastOfPipe(st.ft[s].fd_pos)
    THEN [st EXCEPT !.heap[o] = Free, !.ft[s].fd_inode = NULL, !.ft[s].fd_pos = 0]
    ELSE [st EXCEPT !.ft[s].fd_pos = @ - 1]

Closed(st, p, fd) ==
    LET s == st.fds[p][fd]
        closed == IF st.ft[s].fd_flag = "pipe" THEN pipe_close(st, s) ELSE file_close(st, p, s)
    IN  IF s = NoSlot \/ st.fault # NoSlot THEN st
        ELSE IF closed.fault # NoSlot THEN closed
        ELSE [closed EXCEPT !.fds[p][fd] = NoSlot, !.meant[p][fd] = NULL]

sys_close(p, fd) ==
    /\ pc[p] = Running
    /\ fd_table[p][fd] # NoSlot
    /\ Becomes(Closed(Now, p, fd), pc, {})
    /\ UNCHANGED <<name, made, calls>>

\* One round of update_inode_open_cnts, for one descriptor of the parent.
Inherited(st, p, fd) ==
    LET s == st.fds[p][fd]
        o == st.ft[s].fd_inode
    IN  IF s = NoSlot THEN st
        ELSE IF st.ft[s].fd_flag = "pipe" THEN [st EXCEPT !.ft[s].fd_pos = @ + 1]
        ELSE IF o = NULL THEN [st EXCEPT !.fault = s]
        ELSE IF o \notin InSpace(st, p) THEN Strayed(st)
        ELSE [st EXCEPT !.heap[o].i_open_cnts = @ + 1]

\* update_inode_open_cnts: the descriptors of p one after the other.
update_inode_open_cnts(st, p) ==
    LET counted[n \in 0..Fds] == IF n = 0 THEN st ELSE Inherited(counted[n - 1], p, n)
    IN  counted[Fds]

\* sys_fork: the child has the parent's descriptors, and so the same slots.
sys_fork(p, q) ==
    LET counted == update_inode_open_cnts(Now, p)
        files == {fd_table[p][fd] : fd \in Fd} \ {NoSlot}
    IN
    /\ pc[p] = Running /\ pc[q] = Gone
    /\ Becomes([counted EXCEPT !.fds[q] = fd_table[p], !.meant[q] = meant[p]],
               [pc EXCEPT ![q] = Running],
               {s \in files : file_table[s].fd_flag # "pipe"})
    /\ Call /\ UNCHANGED <<name, made>>

\* The pages of p are freed, and with them the inodes p created.
Vacated(st, p) ==
    [st EXCEPT !.home = [o \in Object |-> IF st.home[o] = p THEN Dead ELSE st.home[o]]]

\* release_prog_resource frees the pages of p, which stay mapped as long as p
\* runs, and closes every descriptor of p, one after the other.
release_prog_resource(st, p) ==
    LET closed[n \in 0..Fds] == IF n = 0 THEN st ELSE Closed(closed[n - 1], p, n)
    IN  IF closed[Fds].fault # NoSlot THEN closed[Fds] ELSE Vacated(closed[Fds], p)

sys_exit(p) ==
    /\ pc[p] = Running /\ p # Shell
    /\ Becomes(release_prog_resource(Now, p), [pc EXCEPT ![p] = Gone], {})
    /\ UNCHANGED <<name, made, calls>>

Next ==
    /\ fault = NoSlot
    /\ \E p \in Procs :
         \/ \E f \in FileSet, flag \in Flags : sys_open(p, f, flag)
         \/ \E f \in FileSet, n \in Names, flag \in Flags : file_create(p, f, n, flag)
         \/ inode_read(p) \/ sync_dir_entry(p) \/ inode_listed(p)
         \/ \E f \in FileSet : reopen(p, f)
         \/ sys_pipe(p) \/ sys_exit(p)
         \/ \E fd \in Fd : sys_close(p, fd)
         \/ \E q \in Procs : sys_fork(p, q)

Spec == Init /\ [][Next]_vars

-----------------------------------------------------------------------------
\* A descriptor leads to what it was opened on as long as nobody else takes
\* its slot for his own: only an open that overlaps another, and a fork with
\* regular files open, can take a file away under a descriptor or send NULL to
\* file_close.  Pipes survive a fork, for their descriptors are counted.  What
\* else can fail is an access to an inode that file_create put into the heap of
\* a process (fs.c:406): by another process, or after that one has exited.
DescriptorsRight ==
    /\ \A p \in Procs, fd \in Fd :
         LET s == fd_table[p][fd] IN
         s # NoSlot /\ s \notin shared => file_table[s].fd_inode = meant[p][fd]
    /\ fault # NoSlot => \/ fault \in shared
                         \/ fault = Astray /\ \E o \in Object : home[o] # Kernel

\* No slot leads to memory that was given back with the count of its object:
\* the count of an in-core inode covers the slots on it, whatever forks,
\* overlapping opens and stray closes do, and a listed inode was not freed.  The
\* inodes that go with the process that created them, at its exit, leave only
\* slots that a fork shared or a failed call lost.
SlotsAlive ==
    /\ \A n \in 1..Len(open_inodes) : heap[open_inodes[n]].kind = "inode"
    /\ \A o \in Object :
         LET slots == {s \in Slot : file_table[s].fd_inode = o} IN
         /\ slots # {} => heap[o].kind # "free"
         /\ heap[o].kind = "inode" /\ o \in Range(open_inodes) =>
               heap[o].i_open_cnts >= Cardinality(slots)
         /\ heap[o].kind = "inode" /\ home[o] = Dead => slots \subseteq shared \cup lost

\* Two descriptors write one file (which inode.h:11 forbids) only if they share
\* a slot, if write_deny stopped telling - another descriptor of the file was
\* closed while one wrote, or it has two copies in memory since two opens of it
\* overlapped -, or if one is the descriptor of file_create, which writes with
\* the flags of the caller and does not set write_deny (fs.c:421).
OneWriter ==
    \A p, q \in Procs, fd, gd \in Fd :
        LET s == fd_table[p][fd]
            t == fd_table[q][gd]
            i == heap[file_table[s].fd_inode]
            j == heap[file_table[t].fd_inode]
        IN
        /\ <<p, fd>> # <<q, gd>> /\ {s, t} \subseteq Slot
        /\ file_table[s].fd_flag = "write" /\ file_table[t].fd_flag = "write"
        /\ NULL \notin {file_table[s].fd_inode, file_table[t].fd_inode} /\ i.file = j.file
        => \/ {s, t} \cap shared # {} \/ i.file \in unguarded
           \/ "create" \in {file_table[s].by, file_table[t].by}

\* A slot stays taken only for a descriptor or for a file being created, or
\* after a call that failed when it had the slot: a writer turned away, or a
\* process out of descriptors.
SlotsHeld ==
    \A s \in Slot :
        file_table[s].fd_inode # NULL =>
            Holders(fd_table, s) # {} \/ Waiters(pc, s) # {} \/ s \in lost
=============================================================================
