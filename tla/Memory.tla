------------------------------- MODULE Memory -------------------------------
(***************************************************************************)
(* The memory manager (src/kernel/memory.c) and the pages of processes     *)
(* (src/userprog/process.c, fork.c, wait_exit.c): two pools of page        *)
(* frames, one virtual address pool and one set of page tables for the     *)
(* kernel and for each process, and on top of them the heaps, whose arenas *)
(* are pages cut into blocks.                                              *)
(*                                                                         *)
(* The code of a system call runs with interrupts off, so each is one      *)
(* step.  Two threads allocate with interrupts on: init, in start_process, *)
(* when main first waits for the disk, and main, while it writes the first *)
(* files.  Their allocations are several steps, between which others run.  *)
(* Each holds its pool's lock, but a new page table comes from the kernel  *)
(* pool whatever lock is held (page_table_add, memory.c:226): the model    *)
(* follows it up to the step that maps a frame somebody else has got.      *)
(*                                                                         *)
(* A space is the kernel or a process.  Pages of a space are numbered from *)
(* the start of its virtual pool; the last one of a process is its stack.  *)
(* Frames are numbered from kernel_pool.phy_addr_start; the user pool's    *)
(* follow the kernel's.  Only one of the seven block sizes is modelled:    *)
(* they share nothing but the pools.                                       *)
(*                                                                         *)
(* An allocation is taken only while bitMap_scan answers it correctly:     *)
(* there is room, and it begins below bit 256 of the map, since the answer *)
(* is a uint8_t (bitmap.c:32).  What the scan answers otherwise is the     *)
(* subject of Bitmap.  The branches of malloc_page and sys_malloc for a    *)
(* failed scan are unreachable: it never answers -1.                       *)
(***************************************************************************)
EXTENDS Naturals, Sequences, SequencesExt, FiniteSets, FiniteSetsExt

CONSTANTS Kernel, Procs, InitProc,
          KFrames, UFrames,  \* frames of the two pools
          KPages,            \* pages of the kernel's virtual pool
          HeapPages,         \* pages of a process below its stack page
          BitmapPages,       \* pages of a process's vaddr bitmap, 23
          BlocksPerArena,
          LargeSizes,        \* page counts of allocations above 1024 bytes
          MaxMallocs, MaxForks,   \* bounds on the calls of sys_malloc and sys_fork
          None

ASSUME MemoryAssumption ==
    /\ InitProc \in Procs /\ Kernel \notin Procs
    /\ BitmapPages \in Nat \ {0} /\ BitmapPages + 4 < 256 /\ BlocksPerArena \in Nat /\ BlocksPerArena > 1
    /\ LargeSizes \subseteq Nat \ {0}
    /\ KFrames \in Nat /\ UFrames \in Nat /\ KPages \in Nat /\ HeapPages \in Nat
    /\ KPages > BitmapPages + 3 /\ KFrames > BitmapPages + 4
    /\ MaxMallocs \in Nat /\ MaxForks \in Nat
    /\ None \notin Nat /\ None \notin [large : BOOLEAN, cnt : Nat, own : BOOLEAN]

VARIABLES mem,        \* pool bitmaps, vaddr bitmaps, page tables and directories
          arena,      \* the arena header at the start of a page, if any; own: its
                      \* desc is the space's own descriptor
          free_list,  \* the descriptor's list of free blocks, per space
          live,       \* the pointers that callers have got and not freed
          proc,       \* state and kernel pages of each process
          main,       \* where main's allocation is
          ptt,        \* the frame start_process has found for a page table
          mallocs, forks,  \* how many there were
          lost,       \* history: the kernel pages that exits did not give back
          broken      \* "frame" or "block" once one was given to two owners

heapVars == <<arena, free_list, live>>
bootVars == <<main, ptt>>
history == <<lost, broken>>
vars == <<mem, heapVars, proc, bootVars, mallocs, forks, history>>

Spaces == Procs \cup {Kernel}
Pages(s) == IF s = Kernel THEN 0..KPages - 1 ELSE 0..HeapPages
KernelPool == 0..KFrames - 1
UserPool == KFrames..KFrames + UFrames - 1
PoolOf(s) == IF s = Kernel THEN KernelPool ELSE UserPool
Frames == KernelPool \cup UserPool

\* Page tables of a process: one for its heap, one for its stack.
Regions == {0, 1}
Region(v) == IF v = HeapPages THEN 1 ELSE 0

NoTables == [r \in Regions |-> None]
NoPages(s) == [v \in Pages(s) |-> None]

\* Type invariant.
TypeOK ==
    /\ mem.taken \subseteq Frames
    /\ \A s \in Spaces :
        /\ mem.vbits[s] \subseteq Pages(s)
        /\ \A v \in Pages(s) :
            /\ mem.pte[s][v] \in PoolOf(s) \cup {None}
            /\ arena[s][v] = None \/ arena[s][v].large
                \/ arena[s][v].cnt \in 0..BlocksPerArena
        /\ free_list[s] \in Seq(Pages(s) \X (0..BlocksPerArena - 1))
        /\ live[s] \subseteq Pages(s) \X (0..BlocksPerArena - 1)
    /\ \A p \in Procs : /\ mem.pde[p] \in [Regions -> KernelPool \cup {None}]
                        /\ proc[p].state \in {"none", "ready", "starting", "alive", "hanging"}
    /\ main.pc \in {"out", "scan", "set"}
    /\ mallocs \in 0..MaxMallocs /\ forks \in 0..MaxForks
    /\ lost \subseteq Pages(Kernel) /\ broken \in {"no", "frame", "block"}

-----------------------------------------------------------------------------
\* What bitMap_scan can find: a free bit, or run of bits, that is followed by
\* another bit of the map and begins where a uint8_t can tell.
UINT8 == 256

FreeFrames(m, pool) ==
    {f \in pool \ m.taken : f # Max(pool) /\ f - Min(pool) < UINT8}

FreeRuns(m, s, cnt) ==
    {v \in Pages(s) : /\ v + cnt \in Pages(s) /\ v..v + cnt - 1 \cap m.vbits[s] = {}
                      /\ v < UINT8 /\ cnt < UINT8}

vaddr_get(m, s, cnt) == Min(FreeRuns(m, s, cnt))

\* The k-th smallest element of a set of numbers, and the rank of an element:
\* palloc, called again and again, takes free frames in this order.
Nth(S, k) == CHOOSE x \in S : Cardinality({y \in S : y <= x}) = k
Rank(S, x) == Cardinality({y \in S : y <= x})

\* The page tables that have to be made before the pages can be mapped.
MissingTables(m, s, pages) ==
    IF s = Kernel THEN {}
    ELSE {r \in {Region(v) : v \in pages} : m.pde[s][r] = None}

\* palloc and page_table_add for each of the pages, in ascending order.  New
\* page tables come from the kernel's pool.
MapPages(m, s, pages) ==
    LET frame == [v \in pages |-> Nth(FreeFrames(m, PoolOf(s)), Rank(pages, v))]
        missing == MissingTables(m, s, pages)
        table == [r \in missing |-> Nth(FreeFrames(m, KernelPool), Rank(missing, r))]
    IN  [m EXCEPT
            !.taken = @ \cup {frame[v] : v \in pages} \cup {table[r] : r \in missing},
            !.pte[s] = [v \in Pages(s) |-> IF v \in pages THEN frame[v] ELSE m.pte[s][v]],
            !.pde = [p \in Procs |-> [r \in Regions |->
                        IF p = s /\ r \in missing THEN table[r] ELSE m.pde[p][r]]]]

\* malloc_page, with the page it returns: a run of virtual pages, a frame for
\* each.
malloc_page(m, s, cnt) ==
    LET start == vaddr_get(m, s, cnt)
        run == start..start + cnt - 1
    IN  [mem |-> MapPages([m EXCEPT !.vbits[s] = @ \cup run], s, run),
         vaddr |-> start]

\* It does not run out of anything.
Room(m, s, cnt) ==
    /\ FreeRuns(m, s, cnt) # {}
    /\ Cardinality(FreeFrames(m, PoolOf(s))) >= cnt
    /\ s # Kernel => FreeFrames(m, KernelPool) # {}

\* Mutant: the virtual pages stay reserved.
mfree_page_reserved(m, s, start, cnt) ==
    LET run == start..start + cnt - 1
    IN  [m EXCEPT !.taken = @ \ {m.pte[s][v] : v \in run},
                  !.pte[s] = [v \in Pages(s) |-> IF v \in run THEN None ELSE @[v]]]

\* mfree_page: the frames, the mappings and the virtual pages are given back.
mfree_page(m, s, start, cnt) ==
    LET run == start..start + cnt - 1
    IN  [m EXCEPT !.taken = @ \ {m.pte[s][v] : v \in run},
                  !.pte[s] = [v \in Pages(s) |-> IF v \in run THEN None ELSE @[v]],
                  !.vbits[s] = @ \ run]

-----------------------------------------------------------------------------
\* mem_pool_init, process_execute for init, and the PCB of idle.
Init ==
    LET empty == [taken |-> {},
                  vbits |-> [s \in Spaces |-> {}],
                  pte |-> [s \in Spaces |-> NoPages(s)],
                  pde |-> [p \in Procs |-> NoTables]]
        pcb == malloc_page(empty, Kernel, 1)
        bits == malloc_page(pcb.mem, Kernel, BitmapPages)
        pgdir == malloc_page(bits.mem, Kernel, 1)
        idle == malloc_page(pgdir.mem, Kernel, 1).mem
    IN  /\ mem = idle
        /\ proc = [p \in Procs |->
              [state |-> IF p = InitProc THEN "ready" ELSE "none",
               pcb |-> pcb.vaddr, bits |-> bits.vaddr, pgdir |-> pgdir.vaddr]]
        /\ arena = [s \in Spaces |-> NoPages(s)]
        /\ free_list = [s \in Spaces |-> <<>>]
        /\ live = [s \in Spaces |-> {}]
        /\ main = [pc |-> "out", vaddr |-> 0, frame |-> 0]
        /\ ptt = 0
        /\ mallocs = 0 /\ forks = 0
        /\ lost = {} /\ broken = "no"

\* lock_acquire(&pool.lock) for the heap of s succeeds.  Main may have lost the
\* CPU with kernel_pool.lock; user_pool.lock is nobody's once a process runs.
Locked(s) == s = Kernel => main.pc = "out"

\* A heap in use: a process's own, or the kernel's, which a system call uses
\* by clearing its pgdir for the time of the call.
HasHeap(s) == IF s = Kernel THEN TRUE ELSE proc[s].state = "alive"

\* The blocks of an arena that has just been cut.
Blocks(v) == [i \in 1..BlocksPerArena |-> <<v, i - 1>>]

\* A block is popped from the free list and counted in its arena.
TakeBlock(s, blocks, headers) ==
    /\ free_list' = [free_list EXCEPT ![s] = Tail(blocks)]
    /\ arena' = [headers EXCEPT ![s][Head(blocks)[1]].cnt = @ - 1]
    /\ live' = [live EXCEPT ![s] = @ \cup {Head(blocks)}]

\* sys_malloc of at most 1024 bytes: a free block, from a new arena if there
\* is none.
sys_malloc(s) ==
    /\ Locked(s) /\ HasHeap(s) /\ mallocs < MaxMallocs
    /\ IF free_list[s] # <<>>
       THEN TakeBlock(s, free_list[s], arena) /\ UNCHANGED mem
       ELSE LET page == malloc_page(mem, s, 1)
                header == [large |-> FALSE, cnt |-> BlocksPerArena, own |-> TRUE]
            IN  /\ Room(mem, s, 1)
                /\ mem' = page.mem
                /\ TakeBlock(s, Blocks(page.vaddr),
                             [arena EXCEPT ![s][page.vaddr] = header])
    /\ mallocs' = mallocs + 1
    /\ UNCHANGED <<proc, bootVars, forks, history>>

\* sys_malloc of more than 1024 bytes: pages of their own.
sys_malloc_large(s, cnt) ==
    LET page == malloc_page(mem, s, cnt)
    IN  /\ Locked(s) /\ HasHeap(s) /\ mallocs < MaxMallocs
        /\ Room(mem, s, cnt)
        /\ mem' = page.mem
        /\ arena' = [arena EXCEPT ![s][page.vaddr] =
                         [large |-> TRUE, cnt |-> cnt, own |-> TRUE]]
        /\ live' = [live EXCEPT ![s] = @ \cup {<<page.vaddr, 0>>}]
        /\ mallocs' = mallocs + 1
        /\ UNCHANGED <<free_list, proc, bootVars, forks, history>>

\* Mutant: the blocks of a returned arena stay in the free list.
FreeBlock_listed(s, ptr) ==
    LET v == ptr[1]
        cnt == arena[s][v].cnt + 1
    IN  /\ free_list' = [free_list EXCEPT ![s] = Append(@, ptr)]
        /\ IF cnt = BlocksPerArena
           THEN /\ mem' = mfree_page(mem, s, v, 1)
                /\ arena' = [arena EXCEPT ![s][v] = None]
           ELSE /\ arena' = [arena EXCEPT ![s][v].cnt = cnt]
                /\ UNCHANGED mem

\* The blocks of a list that are not in arena v, in order.
InOtherArenas(blocks, v) ==
    LET keep == {i \in 1..Len(blocks) : blocks[i][1] # v}
    IN  [n \in 1..Cardinality(keep) |-> blocks[Nth(keep, n)]]

\* A block goes back to the free list; when it was the last of its arena all
\* of them leave the list and the page is returned.
FreeBlock(s, ptr) ==
    LET v == ptr[1]
        cnt == arena[s][v].cnt + 1
        blocks == Append(free_list[s], ptr)
    IN  IF cnt = BlocksPerArena
        THEN /\ free_list' = [free_list EXCEPT ![s] = InOtherArenas(blocks, v)]
             /\ mem' = mfree_page(mem, s, v, 1)
             /\ arena' = [arena EXCEPT ![s][v] = None]
        ELSE /\ free_list' = [free_list EXCEPT ![s] = blocks]
             /\ arena' = [arena EXCEPT ![s][v].cnt = cnt]
             /\ UNCHANGED mem

\* sys_free of a pointer that sys_malloc has returned to this space, or to the
\* process it was forked from.
sys_free(s, ptr) ==
    /\ Locked(s) /\ HasHeap(s)
    /\ arena[s][ptr[1]].large \/ arena[s][ptr[1]].own
    /\ IF arena[s][ptr[1]].large
       THEN /\ mem' = mfree_page(mem, s, ptr[1], arena[s][ptr[1]].cnt)
            /\ arena' = [arena EXCEPT ![s][ptr[1]] = None]
            /\ UNCHANGED free_list
       ELSE FreeBlock(s, ptr)
    /\ live' = [live EXCEPT ![s] = @ \ {ptr}]
    /\ UNCHANGED <<proc, bootVars, mallocs, forks, history>>

\* sys_free of a block whose arena was copied by sys_fork: the copy names the
\* descriptor of the process that made it, and list_append links the block into
\* the list there, with addresses of this one.  The PCB page may be another
\* process's by now; what becomes of the list is not followed.
sys_free_inherited(p, ptr) ==
    /\ HasHeap(p) /\ ~arena[p][ptr[1]].large /\ ~arena[p][ptr[1]].own
    /\ \E q \in Procs : free_list' = [free_list EXCEPT ![q] = Append(@, ptr)]
    /\ broken' = "block"
    /\ UNCHANGED <<mem, arena, live, proc, bootVars, mallocs, forks, lost>>

-----------------------------------------------------------------------------
\* start_process: get_a_page for the stack, under user_pool.lock, up to the
\* scan of the kernel's pool for a page table,
start_process_scan(p) ==
    /\ proc[p].state = "ready"
    /\ Room(mem, p, 1)
    /\ ptt' = Min(FreeFrames(mem, KernelPool))
    /\ proc' = [proc EXCEPT ![p].state = "starting"]
    /\ UNCHANGED <<mem, heapVars, main, mallocs, forks, history>>

\* bitmap_set of a frame that a scan has found earlier: if it was taken in the
\* meantime it has two owners now.
SetFound(frame) == broken' = IF frame \in mem.taken THEN "frame" ELSE broken

\* and from there.  The other effects of get_a_page are nobody else's business
\* and are put into this step.
start_process_set(p) ==
    LET frame == Min(FreeFrames(mem, UserPool))
    IN  /\ proc[p].state = "starting"
        /\ mem' = [mem EXCEPT !.vbits[p] = @ \cup {HeapPages},
                              !.taken = @ \cup {frame, ptt},
                              !.pde[p][Region(HeapPages)] = ptt,
                              !.pte[p][HeapPages] = frame]
        /\ proc' = [proc EXCEPT ![p].state = "alive"]
        /\ SetFound(ptt)
        /\ UNCHANGED <<heapVars, bootVars, mallocs, forks, lost>>

\* Mutant: the child's page table entries are the parent's.
CopyBody_shared(m, p, c) ==
    [MapPages(m, c, m.vbits[p]) EXCEPT !.pte[c] = m.pte[p]]

\* copy_body_stack3: the child gets a page of its own for every page that is
\* reserved in the parent, through get_a_page_without_opvaddrbitmap.
CopyBody(m, p, c) == MapPages(m, c, m.vbits[p])

\* The copy of a heap's arenas, which go on naming the block descriptors of the
\* process that made them.
Inherited(ar) ==
    [v \in DOMAIN ar |-> IF ar[v] = None THEN None ELSE [ar[v] EXCEPT !.own = FALSE]]

\* sys_fork: PCB, transfer buffer, vaddr bitmap (a copy of the parent's) and
\* page directory from the kernel's pages, then the body; the buffer is given
\* back.  The arenas are copied with the pages and the child has the parent's
\* pointers, but its block descriptors are new and empty.
sys_fork(p, c) ==
    LET pcb == malloc_page(mem, Kernel, 1)
        buf == malloc_page(pcb.mem, Kernel, 1)
        bits == malloc_page(buf.mem, Kernel, BitmapPages)
        pgdir == malloc_page(bits.mem, Kernel, 1)
        blank == [pgdir.mem EXCEPT !.vbits[c] = mem.vbits[p]]
    IN  /\ Locked(Kernel) /\ forks < MaxForks
        /\ proc[p].state = "alive" /\ proc[c].state = "none"
        /\ Room(mem, Kernel, 1) /\ Room(pcb.mem, Kernel, 1)
        /\ Room(buf.mem, Kernel, BitmapPages) /\ Room(bits.mem, Kernel, 1)
        /\ Cardinality(FreeFrames(blank, KernelPool)) >=
              Cardinality(MissingTables(blank, c, mem.vbits[p]))
        /\ Cardinality(FreeFrames(blank, UserPool)) >= Cardinality(mem.vbits[p])
        /\ mem' = mfree_page(CopyBody(blank, p, c), Kernel, buf.vaddr, 1)
        /\ proc' = [proc EXCEPT ![c] = [state |-> "alive", pcb |-> pcb.vaddr,
                                        bits |-> bits.vaddr, pgdir |-> pgdir.vaddr]]
        /\ arena' = [arena EXCEPT ![c] = Inherited(arena[p])]
        /\ live' = [live EXCEPT ![c] = live[p]]
        /\ free_list' = [free_list EXCEPT ![c] = <<>>]
        /\ forks' = forks + 1
        /\ UNCHANGED <<bootVars, mallocs, history>>

Mapped(m, p) == {m.pte[p][v] : v \in Pages(p)} \ {None}
Tables(m, p) == {m.pde[p][r] : r \in Regions} \ {None}

\* release_prog_resource's walk over the page directory: frames and page
\* tables are marked free; the tables themselves are left as they are.
Released(m, p) == [m EXCEPT !.taken = @ \ (Mapped(m, p) \cup Tables(m, p))]

\* Mutant: one more page of the bitmap is forgotten.
BitsGivenBack_less == BitmapPages - 2

\* The size of the vaddr bitmap is rounded down where it was rounded up to
\* allocate it: its last page is not given back.
BitsGivenBack == BitmapPages - 1

\* sys_exit.  The heap goes with the process's pages.
sys_exit(p) ==
    /\ proc[p].state = "alive" /\ p # InitProc
    /\ mem' = mfree_page(Released(mem, p), Kernel, proc[p].bits, BitsGivenBack)
    /\ lost' = lost \cup {proc[p].bits + BitmapPages - 1}
    /\ proc' = [proc EXCEPT ![p].state = "hanging"]
    /\ arena' = [arena EXCEPT ![p] = NoPages(p)]
    /\ free_list' = [free_list EXCEPT ![p] = <<>>]
    /\ live' = [live EXCEPT ![p] = {}]
    /\ UNCHANGED <<bootVars, mallocs, forks, broken>>

\* thread_exit, called by the parent in sys_wait: page directory and PCB, and
\* with them what they referred to.
thread_exit(p) ==
    /\ proc[p].state = "hanging"
    /\ mem' = [mfree_page(mfree_page(mem, Kernel, proc[p].pgdir, 1),
                          Kernel, proc[p].pcb, 1)
                  EXCEPT !.pde[p] = NoTables, !.pte[p] = NoPages(p), !.vbits[p] = {}]
    /\ proc' = [proc EXCEPT ![p].state = "none"]
    /\ UNCHANGED <<heapVars, bootVars, mallocs, forks, history>>

-----------------------------------------------------------------------------
\* main's sys_malloc with an empty free list, after its first wait for the
\* disk: lock_acquire and vaddr_get,
main_vaddr_get ==
    LET start == vaddr_get(mem, Kernel, 1)
    IN  /\ Locked(Kernel) /\ proc[InitProc].state # "ready"
        /\ free_list[Kernel] = <<>>
        /\ mallocs < MaxMallocs /\ Room(mem, Kernel, 1)
        /\ mem' = [mem EXCEPT !.vbits[Kernel] = @ \cup {start}]
        /\ main' = [main EXCEPT !.pc = "scan", !.vaddr = start]
        /\ mallocs' = mallocs + 1
        /\ UNCHANGED <<heapVars, proc, ptt, forks, history>>

\* the scan of palloc,
main_palloc_scan ==
    /\ main.pc = "scan"
    /\ FreeFrames(mem, KernelPool) # {}
    /\ main' = [main EXCEPT !.pc = "set", !.frame = Min(FreeFrames(mem, KernelPool))]
    /\ UNCHANGED <<mem, heapVars, proc, ptt, mallocs, forks, history>>

\* its bitmap_set, page_table_add, the cutting of the arena and lock_release.
main_palloc_set ==
    /\ main.pc = "set"
    /\ mem' = [mem EXCEPT !.taken = @ \cup {main.frame},
                          !.pte[Kernel][main.vaddr] = main.frame]
    /\ TakeBlock(Kernel, Blocks(main.vaddr), [arena EXCEPT ![Kernel][main.vaddr] =
                     [large |-> FALSE, cnt |-> BlocksPerArena, own |-> TRUE]])
    /\ main' = [main EXCEPT !.pc = "out"]
    /\ SetFound(main.frame)
    /\ UNCHANGED <<proc, ptt, mallocs, forks, lost>>

Next ==
    /\ broken = "no"
    /\ \/ \E s \in Spaces : \/ sys_malloc(s)
                            \/ \E cnt \in LargeSizes : sys_malloc_large(s, cnt)
                            \/ \E ptr \in live[s] : sys_free(s, ptr)
       \/ \E p, c \in Procs : sys_fork(p, c)
       \/ \E p \in Procs : \E ptr \in live[p] : sys_free_inherited(p, ptr)
       \/ \E p \in Procs : \/ start_process_scan(p) \/ start_process_set(p)
                          \/ sys_exit(p) \/ thread_exit(p)
       \/ main_vaddr_get \/ main_palloc_scan \/ main_palloc_set

Spec == Init /\ [][Next]_vars

-----------------------------------------------------------------------------
InUse(s) == IF s = Kernel THEN TRUE ELSE proc[s].state \in {"ready", "starting", "alive"}

\* The users of frames: mapped pages and page tables.
FrameOf(x) == mem.pte[x[1]][x[2]]
TableOf(x) == mem.pde[x[1]][x[2]]
MappedPages == {x \in Spaces \X (0..KPages + HeapPages) :
                    InUse(x[1]) /\ x[2] \in Pages(x[1]) /\ FrameOf(x) # None}
PageTables == {x \in Procs \X Regions : InUse(x[1]) /\ TableOf(x) # None}
OwnedFrames == {FrameOf(x) : x \in MappedPages} \cup {TableOf(x) : x \in PageTables}

\* What the lock in struct pool is for (memory.c:31): a frame is given out once.
\* No two pages, of the kernel or of any process, and no two page tables share
\* a frame, none of their frames is free, and a page shares its frame with a
\* page table only if one of the two allocations with interrupts on had its
\* frame taken between scan and set: main's page, by a process that needed a
\* page table, or the table of init's stack, by a page of the kernel.
FramesOwnedOnce ==
    /\ OwnedFrames \subseteq mem.taken
    /\ \A x, y \in MappedPages : FrameOf(x) = FrameOf(y) => x = y
    /\ \A x, y \in PageTables : TableOf(x) = TableOf(y) => x = y
    /\ \A x \in MappedPages, y \in PageTables : FrameOf(x) = TableOf(y) =>
          broken = "frame" /\ x[1] = Kernel /\ (x[2] = main.vaddr \/ y = <<InitProc, 1>>)

\* The kernel's pages of a process: its PCB, its page directory and, until it
\* exits, its vaddr bitmap.
BitsOf(p) == proc[p].bits..proc[p].bits + BitmapPages - 1
KernelPagesOf(p) ==
    {proc[p].pcb, proc[p].pgdir} \cup IF proc[p].state = "hanging" THEN {} ELSE BitsOf(p)

\* The pages of an arena, and the page of idle's PCB.
ArenaPages(ar, v) == v..v + (IF ar[v].large THEN ar[v].cnt ELSE 1) - 1
IdlePage == BitmapPages + 2

\* The kernel's mapped pages that nobody has any more: no process, no arena.
StrayPages ==
    {v \in Pages(Kernel) : mem.pte[Kernel][v] # None /\ v # IdlePage}
        \ ((UNION {KernelPagesOf(p) : p \in {q \in Procs : proc[q].state # "none"}})
            \cup (UNION {ArenaPages(arena[Kernel], v) :
                            v \in {w \in Pages(Kernel) : arena[Kernel][w] # None}}))

\* Frames come back, but for one page for each exit.  A frame that is marked
\* taken is the frame of a page or of a page table, every page of the kernel has
\* an owner or was left behind by an exit (wait_exit.c:51), and as many were as
\* there were exits: the forks without the children that are alive.
FramesReturned ==
    /\ mem.taken \subseteq OwnedFrames
    /\ StrayPages = lost
    /\ Cardinality(lost) + Cardinality({p \in Procs \ {InitProc} : proc[p].state = "alive"}) = forks

\* A space's virtual pages are reserved exactly while they are mapped, except
\* the one main is about to map; in a child too, whose bitmap is a copy.
MappedIffReserved ==
    \A s \in Spaces : InUse(s) =>
        {v \in Pages(s) : mem.pte[s][v] # None} =
            mem.vbits[s] \ (IF s = Kernel /\ main.pc # "out" THEN {main.vaddr} ELSE {})

\* Every block of every arena that a space made is either live or in its free
\* list once, the arena's count is the number of the latter, an arena without
\* live blocks is gone, and no block or large allocation outlives its pages.
\* Of an arena that was inherited no block is in a list, and the count stays
\* that of the blocks that were free at the fork.  All this until a process
\* frees a block that it inherited.
HeapPartition ==
    \A s \in Spaces : broken # "block" /\ InUse(s) =>
        /\ IsInjective(free_list[s])
        /\ Range(free_list[s]) \cap live[s] = {}
        /\ \A b \in Range(free_list[s]) \cup live[s] :
              arena[s][b[1]] # None /\ mem.pte[s][b[1]] # None
        /\ \A v \in Pages(s) : arena[s][v] # None =>
              IF arena[s][v].large
              THEN \A w \in v..v + arena[s][v].cnt - 1 : mem.pte[s][w] # None
              ELSE LET free == {b \in Range(free_list[s]) : b[1] = v}
                       used == {b \in live[s] : b[1] = v}
                   IN  /\ Cardinality(free) = IF arena[s][v].own THEN arena[s][v].cnt ELSE 0
                       /\ Cardinality(used) + arena[s][v].cnt = BlocksPerArena
                       /\ used # {}

=============================================================================
