---------------------------- MODULE MemoryProofs ----------------------------
(***************************************************************************)
(* Proofs about the memory manager, for any processes, sizes of the pools, *)
(* of the bitmap of a process and of an arena, and any number of calls.    *)
(* Every allocation is one that bitMap_scan answers correctly (FreeFrames  *)
(* and FreeRuns of Memory): beyond bit 256 of a map nothing is claimed.    *)
(***************************************************************************)
EXTENDS Memory, Integers, FiniteSetTheorems, NaturalsInduction, WellFoundedInduction, TLAPS

(***************************************************************************)
(* The inductive invariant.  A place is what can have a frame: a page of a *)
(* space (its number) or one of the page tables of a process (-1 and -2).  *)
(* The spaces of the set U use theirs.                                     *)
(***************************************************************************)
Places == Spaces \X (-2..KPages + HeapPages)

Holds(m, U) ==
    [x \in Places |->
        IF x[1] \notin U THEN None
        ELSE IF x[2] \in Pages(x[1]) THEN m.pte[x[1]][x[2]]
        ELSE IF x[1] # Kernel /\ x[2] < 0 THEN m.pde[x[1]][-1 - x[2]]
        ELSE None]

\* The frames in use are in one place each, and are the ones marked taken.
Once(h, taken) ==
    /\ \A x, y \in Places : h[x] # None /\ h[x] = h[y] => x = y
    /\ \A f \in taken : \E x \in Places : h[x] = f
    /\ \A x \in Places : h[x] # None => h[x] \in taken

\* A frame that two have got: main's page x or init's page table y is one of
\* them, x a page of the kernel, y a page table.
Clash(x, y) ==
    /\ x[1] = Kernel /\ x[2] \in Pages(Kernel) /\ y[2] < 0
    /\ x[2] = main.vaddr \/ y = <<InitProc, -2>>

OnceBut(h, taken) ==
    /\ \A x, y \in Places :
          h[x] # None /\ h[x] = h[y] => x = y \/ Clash(x, y) \/ Clash(y, x)
    /\ \A f \in taken : \E x \in Places : h[x] = f
    /\ \A x \in Places : h[x] # None => h[x] \in taken

Directories == UNION {[Pages(s) -> PoolOf(s) \cup {None}] : s \in Spaces}

MemType(m) ==
    /\ m \in [taken : SUBSET Frames, vbits : [Spaces -> SUBSET Nat],
              pte : [Spaces -> Directories],
              pde : [Procs -> [Regions -> KernelPool \cup {None}]]]
    /\ \A s \in Spaces : m.pte[s] \in [Pages(s) -> PoolOf(s) \cup {None}]
    /\ \A s \in Spaces : m.vbits[s] \subseteq Pages(s)

IsMapped(m, s, v) == m.pte[s][v] # None

\* The page main has reserved and not mapped yet.
Waiting(s, v) == s = Kernel /\ main.pc # "out" /\ v = main.vaddr

BitsRight(m, U) ==
    \A s \in U : \A v \in Pages(s) : v \in m.vbits[s] <=> IsMapped(m, s, v) \/ Waiting(s, v)

\* The memory between two allocations or releases.
Sound(m, U) == MemType(m) /\ Once(Holds(m, U), m.taken) /\ BitsRight(m, U)

Blank(m, s) == m.pte[s] = NoPages(s) /\ m.pde[s] = NoTables /\ m.vbits[s] = {}

Users == {s \in Spaces : s = Kernel \/ proc[s].state # "hanging"}

ProcInv ==
    /\ proc \in [Procs -> [state : {"none", "ready", "starting", "alive", "hanging"},
                           pcb : Nat, bits : Nat, pgdir : Nat]]
    /\ \A p \in Procs : proc[p].state \in {"ready", "starting"} => p = InitProc
    /\ \A p \in Procs : proc[p].state \in {"none", "ready", "starting"} => Blank(mem, p)
    /\ \A p \in Procs : proc[p].state # "none" =>
          /\ KernelPagesOf(p) \subseteq Pages(Kernel)
          /\ \A v \in KernelPagesOf(p) : IsMapped(mem, Kernel, v)
          /\ proc[p].state # "hanging" => {proc[p].pcb, proc[p].pgdir} \cap BitsOf(p) = {}
    /\ \A p, q \in Procs :
          p # q /\ proc[p].state # "none" /\ proc[q].state # "none" =>
              KernelPagesOf(p) \cap KernelPagesOf(q) = {}

\* Init is alone until it runs, and never exits.
Starting == proc[InitProc].state \in {"ready", "starting"}
InitAlone ==
    /\ proc[InitProc].state \notin {"none", "hanging"}
    /\ Starting => \A p \in Procs : p # InitProc => proc[p].state = "none"

\* A frame for the stack of init, when no process has one.
UserRoom == \E f \in UserPool : f # Max(UserPool) /\ f - Min(UserPool) < UINT8

\* The allocations with interrupts on.  No other page of the kernel gets the
\* frame that main has found: it has the lock.
BootInv ==
    /\ main \in [pc : {"out", "scan", "set"}, vaddr : Nat, frame : Nat]
    /\ InitAlone
    /\ proc[InitProc].state = "starting" => ptt \in KernelPool /\ UserRoom
    /\ main.pc # "out" => /\ main.vaddr \in Pages(Kernel)
                          /\ ~IsMapped(mem, Kernel, main.vaddr)
                          /\ free_list[Kernel] = <<>>
    /\ main.pc = "set" => /\ main.frame \in KernelPool
                          /\ \A v \in Pages(Kernel) : mem.pte[Kernel][v] # main.frame

\* The blocks and pages of an arena.
Header == [large : BOOLEAN, cnt : Nat, own : BOOLEAN]
BlocksIn(s) == Pages(s) \X (0..BlocksPerArena - 1)
ArenaBlocks(v) == {v} \X (0..BlocksPerArena - 1)
InArena(S, v) == {b \in S : b[1] = v}

\* The free blocks F and the used ones L of an arena with header h.
ArenaRight(F, L, v, h) ==
    IF h.large
    THEN InArena(F, v) = {} /\ InArena(L, v) \subseteq {<<v, 0>>} /\ h.cnt # 0
    ELSE /\ InArena(L, v) # {}
         /\ IF h.own
            THEN /\ ArenaBlocks(v) \subseteq F \cup L
                 /\ Cardinality(InArena(F, v)) = h.cnt
            ELSE /\ InArena(F, v) = {}
                 /\ Cardinality(InArena(L, v)) + h.cnt = BlocksPerArena

\* The free blocks F and the used ones L of the arenas ar of a space.
Partition(s, ar, F, L) ==
    /\ ar \in [Pages(s) -> Header \cup {None}]
    /\ F \subseteq BlocksIn(s) /\ L \subseteq BlocksIn(s) /\ F \cap L = {}
    /\ \A b \in F \cup L : ar[b[1]] # None
    /\ \A v \in Pages(s) : ar[v] # None => ArenaRight(F, L, v, ar[v])

\* The pages of arenas are mapped, and each is in one arena.
ArenasMapped(m, s, ar) ==
    /\ \A v \in Pages(s) : ar[v] # None =>
          ArenaPages(ar, v) \subseteq Pages(s) /\ \A w \in ArenaPages(ar, v) : IsMapped(m, s, w)
    /\ \A v, w \in Pages(s) : ar[v] # None /\ ar[w] # None /\ v # w =>
          ArenaPages(ar, v) \cap ArenaPages(ar, w) = {}

HeapRight(m, s, ar, list, L) ==
    /\ list \in Seq(Nat \X Nat) /\ IsInjective(list)
    /\ Partition(s, ar, Range(list), L)
    /\ ArenasMapped(m, s, ar)

HeapInv ==
    /\ DOMAIN arena = Spaces /\ DOMAIN free_list = Spaces /\ DOMAIN live = Spaces
    /\ \A s \in Spaces : HeapRight(mem, s, arena[s], free_list[s], live[s])

\* What is left of it when a process has freed a block that it inherited.
HeapTyped ==
    \A s \in Spaces :
        /\ \A v \in Pages(s) : arena[s][v] = None \/ arena[s][v].large
                                  \/ arena[s][v].cnt \in 0..BlocksPerArena
        /\ free_list[s] \in Seq(BlocksIn(s)) /\ live[s] \subseteq BlocksIn(s)

\* The kernel's arenas are not in the pages of processes.
Apart(s, ar, K) == \A v \in Pages(s) : ar[v] # None => ArenaPages(ar, v) \cap K = {}

KernelArenas ==
    \A p \in Procs : proc[p].state # "none" => Apart(Kernel, arena[Kernel], KernelPagesOf(p))

\* The heap of a process goes when it exits.
EmptyHeaps ==
    \A p \in Procs : proc[p].state = "hanging" => \A v \in Pages(p) : arena[p][v] = None

\* The pages of the kernel that belong to no process and no arena: those that
\* exits left behind, one for each, and idle's.
InArenas(s, ar, v) == \E w \in Pages(s) : ar[w] # None /\ v \in ArenaPages(ar, w)
OfProcess(v) == \E p \in Procs : proc[p].state # "none" /\ v \in KernelPagesOf(p)
Left == lost \cup {IdlePage}
Children == {p \in Procs \ {InitProc} : proc[p].state = "alive"}

LostInv ==
    /\ Left \subseteq Pages(Kernel) /\ IdlePage \notin lost
    /\ \A v \in Left : IsMapped(mem, Kernel, v) /\ ~OfProcess(v)
    /\ Apart(Kernel, arena[Kernel], Left)
    /\ \A v \in Pages(Kernel) : IsMapped(mem, Kernel, v) =>
          v \in Left \/ OfProcess(v) \/ InArenas(Kernel, arena[Kernel], v)

ExitInv ==
    /\ IsFiniteSet(Children) /\ forks \in Nat
    /\ Cardinality(lost) + Cardinality(Children) = forks

MemInv ==
    /\ MemType(mem) /\ BitsRight(mem, Users)
    /\ IF broken = "frame" THEN OnceBut(Holds(mem, Users), mem.taken)
                           ELSE Once(Holds(mem, Users), mem.taken)
    /\ ProcInv /\ BootInv
    /\ IF broken = "block" THEN HeapTyped ELSE HeapInv
    /\ KernelArenas /\ EmptyHeaps /\ LostInv /\ ExitInv

-----------------------------------------------------------------------------
(* Numbers, pages and frames. *)

LEMMA Constants ==
    /\ InitProc \in Procs /\ Kernel \notin Procs /\ Kernel \in Spaces
    /\ BitmapPages \in Nat \ {0} /\ BlocksPerArena \in Nat /\ BlocksPerArena > 1
    /\ KFrames \in Nat /\ UFrames \in Nat /\ KPages \in Nat /\ HeapPages \in Nat
    /\ KPages > BitmapPages + 3 /\ KFrames > BitmapPages + 4
    /\ None \notin Nat
BY MemoryAssumption DEF Spaces

LEMMA FramesAreNumbers ==
    /\ KernelPool \subseteq Nat /\ UserPool \subseteq Nat /\ Frames = KernelPool \cup UserPool
    /\ KernelPool \cap UserPool = {}
    /\ IsFiniteSet(KernelPool) /\ IsFiniteSet(UserPool) /\ IsFiniteSet(Frames)
    /\ Cardinality(KernelPool) = KFrames
    /\ None \notin Frames
<1>1. KernelPool \subseteq Nat /\ UserPool \subseteq Nat /\ KernelPool \cap UserPool = {}
  BY Constants DEF KernelPool, UserPool
<1>2. IsFiniteSet(KernelPool) /\ IsFiniteSet(UserPool) /\ Cardinality(KernelPool) = KFrames
  BY Constants, FS_Interval DEF KernelPool, UserPool
<1>3. IsFiniteSet(Frames)
  BY <1>2, FS_Union DEF Frames
<1> QED
  BY <1>1, <1>2, <1>3, Constants DEF Frames

LEMMA PagesAreNumbers ==
    ASSUME NEW s \in Spaces
    PROVE  /\ Pages(s) \subseteq Nat /\ IsFiniteSet(Pages(s))
           /\ Pages(s) \subseteq -2..KPages + HeapPages
           /\ PoolOf(s) \subseteq Frames
<1>1. Pages(s) \subseteq Nat /\ Pages(s) \subseteq -2..KPages + HeapPages
  BY Constants DEF Pages
<1>2. IsFiniteSet(Pages(s))
  BY Constants, FS_Interval DEF Pages
<1> QED
  BY <1>1, <1>2 DEF PoolOf, Frames

\* A set of numbers has a least element.
LEMMA LeastElement ==
    ASSUME NEW S \in SUBSET Nat, S # {}
    PROVE  \E m \in S : \A n \in S : m <= n
<1> DEFINE Less == {ss \in Nat \X Nat : ss[1] < ss[2]}
<1>1. IsWellFoundedOn(Less, Nat)
  BY NatLessThanWellFounded, Zenon DEF OpToRel
<1>2. PICK m \in S : \A n \in S : ~(<<n, m>> \in Less)
  <2> HIDE DEF Less
  <2> QED
    BY <1>1, WFMin
<1>3. ASSUME NEW n \in S PROVE m <= n
  <2>1. ~(<<n, m>> \in Less)
    BY <1>2
  <2>2. <<n, m>> \in Nat \X Nat /\ <<n, m>>[1] = n /\ <<n, m>>[2] = m
    OBVIOUS
  <2>3. ~(n < m)
    BY <2>1, <2>2, Zenon
  <2> QED
    BY <2>3
<1> QED
  BY <1>3

LEMMA MinElement ==
    ASSUME NEW S \in SUBSET Nat, S # {}
    PROVE  Min(S) \in S /\ \A n \in S : Min(S) <= n
<1>1. PICK m \in S : \A n \in S : m <= n
  BY LeastElement
<1> QED
  BY <1>1 DEF Min

\* The rank of an element is at most the number of them, and its own.
LEMMA Ranks ==
    ASSUME NEW S \in SUBSET Nat, IsFiniteSet(S)
    PROVE  /\ \A x \in S : Rank(S, x) \in 1..Cardinality(S)
           /\ \A x, y \in S : Rank(S, x) = Rank(S, y) => x = y
<1> DEFINE Upto(x) == {y \in S : y <= x}
<1>1. ASSUME NEW x \in S
      PROVE  /\ IsFiniteSet(Upto(x)) /\ Cardinality(Upto(x)) \in Nat
             /\ Cardinality(Upto(x)) <= Cardinality(S) /\ Cardinality(Upto(x)) # 0
  <2>1. Upto(x) \in SUBSET S /\ x \in Upto(x)
    OBVIOUS
  <2>2. Upto(x) # {}
    BY <2>1
  <2> HIDE DEF Upto
  <2> QED
    BY <2>1, <2>2, FS_Subset, FS_CardinalityType, FS_EmptySet
<1>2. Cardinality(S) \in Nat
  BY FS_CardinalityType
<1>3. ASSUME NEW x \in S, NEW y \in S, x < y
      PROVE  Cardinality(Upto(x)) # Cardinality(Upto(y))
  <2>1. Upto(x) \in SUBSET Upto(y) /\ y \in Upto(y) /\ y \notin Upto(x)
    <3>1. x \in Nat /\ y \in Nat /\ S \subseteq Nat
      OBVIOUS
    <3>2. \A z \in S : z <= x => z <= y
      BY <1>3, <3>1
    <3>3. ~(y <= x) /\ y <= y
      BY <1>3, <3>1
    <3> QED
      BY <3>2, <3>3
  <2>2. IsFiniteSet(Upto(y)) /\ Upto(x) # Upto(y)
    BY <1>1, <2>1
  <2> HIDE DEF Upto
  <2> QED
    BY <2>1, <2>2, FS_Subset
<1>4. \A x : Rank(S, x) = Cardinality(Upto(x))
  BY DEF Rank
<1> HIDE DEF Upto
<1>5. \A x \in S : Rank(S, x) \in 1..Cardinality(S)
  BY <1>1, <1>2, <1>4
<1>6. ASSUME NEW x \in S, NEW y \in S, Rank(S, x) = Rank(S, y) PROVE x = y
  BY <1>3, <1>4, <1>6
<1> QED
  BY <1>5, <1>6

\* There is an element of every rank: the least rank without one would have
\* the element after the one before it.
LEMMA NthElement ==
    ASSUME NEW S \in SUBSET Nat, IsFiniteSet(S), NEW k \in 1..Cardinality(S)
    PROVE  Nth(S, k) \in S /\ Rank(S, Nth(S, k)) = k
<1> DEFINE Upto(x) == {y \in S : y <= x}
           Bad == {i \in 1..Cardinality(S) : ~\E x \in S : Cardinality(Upto(x)) = i}
<1>1. Cardinality(S) \in Nat
  BY FS_CardinalityType
<1>2. ASSUME Bad # {} PROVE FALSE
  <2>1. PICK i \in Bad : \A j \in Bad : i <= j
    <3>1. Bad \in SUBSET Nat
      BY <1>1
    <3> HIDE DEF Bad
    <3> QED
      BY <1>2, <3>1, LeastElement
  <2>2. PICK low \in SUBSET S : Cardinality(low) = i - 1 /\ \A x \in low, y \in S \ low : x < y
    <3>1. CASE i = 1
      <4>1. Cardinality({}) = i - 1
        BY <3>1, FS_EmptySet
      <4> QED
        BY <4>1
    <3>2. CASE i # 1
      <4>1. i \in 2..Cardinality(S) /\ i - 1 \notin Bad /\ i - 1 \in 1..Cardinality(S)
        BY <1>1, <2>1, <3>2
      <4>2. PICK x \in S : Cardinality(Upto(x)) = i - 1
        BY <4>1
      <4>3. Upto(x) \in SUBSET S /\ \A y \in Upto(x), z \in S \ Upto(x) : y < z
        OBVIOUS
      <4> QED
        BY <4>2, <4>3
    <3> QED
      BY <3>1, <3>2
  <2>3. IsFiniteSet(low) /\ S \ low # {}
    <3>1. IsFiniteSet(low)
      BY FS_Subset
    <3>2. low = S => i - 1 = Cardinality(S)
      BY <2>2
    <3>3. i \in 1..Cardinality(S)
      BY <2>1
    <3>4. low # S
      BY <1>1, <3>2, <3>3
    <3> QED
      BY <3>1, <3>4
  <2>4. PICK d \in S \ low : \A y \in S \ low : d <= y
    BY <2>3, LeastElement
  <2>5. Upto(d) = low \cup {d}
    <3>1. ASSUME NEW y \in S PROVE y <= d <=> y \in low \/ y = d
      BY <2>2, <2>4
    <3> QED
      BY <2>2, <3>1
  <2>6. Cardinality(low \cup {d}) = i
    <3>1. i \in Nat
      BY <1>1, <2>1
    <3>2. Cardinality(low \cup {d}) = Cardinality(low) + 1
      BY <2>3, <2>4, FS_AddElement
    <3> QED
      BY <2>2, <3>1, <3>2
  <2> QED
    BY <2>1, <2>4, <2>5, <2>6
<1>3. PICK x \in S : Cardinality(Upto(x)) = k
  BY <1>2
<1>4. Nth(S, k) \in S /\ Cardinality({y \in S : y <= Nth(S, k)}) = k
  BY <1>3 DEF Nth
<1> QED
  BY <1>4 DEF Rank

\* Taken in order, the elements of T get different elements of S.
LEMMA InOrder ==
    ASSUME NEW S \in SUBSET Nat, IsFiniteSet(S), NEW T \in SUBSET Nat, IsFiniteSet(T),
           Cardinality(T) <= Cardinality(S)
    PROVE  /\ \A x \in T : Nth(S, Rank(T, x)) \in S
           /\ \A x, y \in T : Nth(S, Rank(T, x)) = Nth(S, Rank(T, y)) => x = y
<1>1. Cardinality(S) \in Nat /\ Cardinality(T) \in Nat
  BY FS_CardinalityType
<1>2. ASSUME NEW x \in T
      PROVE  Nth(S, Rank(T, x)) \in S /\ Rank(S, Nth(S, Rank(T, x))) = Rank(T, x)
  <2>1. Rank(T, x) \in 1..Cardinality(T)
    BY Ranks
  <2>2. Rank(T, x) \in 1..Cardinality(S)
    BY <1>1, <2>1
  <2> QED
    BY <2>2, NthElement
<1>3. ASSUME NEW x \in T, NEW y \in T, Nth(S, Rank(T, x)) = Nth(S, Rank(T, y)) PROVE x = y
  <2>1. Rank(T, x) = Rank(T, y)
    BY <1>2, <1>3
  <2> QED
    BY <2>1, Ranks
<1> QED
  BY <1>2, <1>3

-----------------------------------------------------------------------------
(* Frames that are given out and come back. *)

LEMMA FramesAdded ==
    ASSUME NEW h, NEW taken, Once(h, taken), None \notin taken,
           NEW N \in SUBSET Places, NEW F,
           \A x \in N : h[x] = None /\ F[x] # None /\ F[x] \notin taken,
           \A x, y \in N : F[x] = F[y] => x = y,
           NEW g, \A x \in Places : g[x] = IF x \in N THEN F[x] ELSE h[x]
    PROVE  Once(g, taken \cup {F[x] : x \in N})
<1>1. ASSUME NEW x \in Places, NEW y \in Places, g[x] # None, g[x] = g[y] PROVE x = y
  BY <1>1 DEF Once
<1>2. ASSUME NEW f \in taken \cup {F[x] : x \in N} PROVE \E x \in Places : g[x] = f
  <2>1. CASE f \in taken
    <3>1. PICK x \in Places : h[x] = f
      BY <2>1 DEF Once
    <3>2. CASE x \in N
      BY <2>1, <3>1, <3>2
    <3> QED
      BY <3>1, <3>2
  <2>2. CASE f \in {F[x] : x \in N}
    BY <2>2
  <2> QED
    BY <2>1, <2>2
<1>3. ASSUME NEW x \in Places, g[x] # None PROVE g[x] \in taken \cup {F[y] : y \in N}
  BY <1>3 DEF Once
<1> QED
  BY <1>1, <1>2, <1>3 DEF Once

LEMMA FramesRemoved ==
    ASSUME NEW h, NEW taken, Once(h, taken), None \notin taken, NEW N \in SUBSET Places,
           NEW g, \A x \in Places : g[x] = IF x \in N THEN None ELSE h[x]
    PROVE  Once(g, taken \ {h[x] : x \in N})
<1>1. ASSUME NEW x \in Places, NEW y \in Places, g[x] # None, g[x] = g[y] PROVE x = y
  BY <1>1 DEF Once
<1>2. ASSUME NEW f \in taken \ {h[x] : x \in N} PROVE \E x \in Places : g[x] = f
  <2>1. PICK x \in Places : h[x] = f
    BY DEF Once
  <2> QED
    BY <2>1
<1>3. ASSUME NEW x \in Places, g[x] # None PROVE g[x] \in taken \ {h[y] : y \in N}
  <2>1. x \notin N /\ g[x] = h[x] /\ h[x] \in taken
    BY <1>3 DEF Once
  <2>2. ASSUME NEW y \in N PROVE h[y] # h[x]
    BY <2>1, <1>3 DEF Once
  <2> QED
    BY <2>1, <2>2
<1> QED
  BY <1>1, <1>2, <1>3 DEF Once

LEMMA HoldsAt ==
    ASSUME NEW m, NEW U \in SUBSET Spaces, NEW s \in Spaces, NEW i \in -2..KPages + HeapPages
    PROVE  /\ <<s, i>> \in Places
           /\ Holds(m, U)[<<s, i>>] =
                 IF s \notin U THEN None
                 ELSE IF i \in Pages(s) THEN m.pte[s][i]
                 ELSE IF s # Kernel /\ i < 0 THEN m.pde[s][-1 - i]
                 ELSE None
BY DEF Holds, Places

LEMMA Pairs ==
    ASSUME NEW x \in Places
    PROVE  \E s \in Spaces : \E i \in -2..KPages + HeapPages : x = <<s, i>>
BY DEF Places

LEMMA TypeParts ==
    ASSUME NEW m, MemType(m)
    PROVE  /\ m.taken \subseteq Frames /\ None \notin m.taken
           /\ \A s \in Spaces : m.pte[s] \in [Pages(s) -> PoolOf(s) \cup {None}]
           /\ \A s \in Spaces : m.vbits[s] \subseteq Pages(s)
           /\ \A p \in Procs : m.pde[p] \in [Regions -> KernelPool \cup {None}]
           /\ \A pool : FreeFrames(m, pool) \subseteq pool \ m.taken
BY FramesAreNumbers DEF MemType, FreeFrames

LEMMA FreeFinite ==
    ASSUME NEW m, NEW s \in Spaces
    PROVE  FreeFrames(m, PoolOf(s)) \in SUBSET Nat /\ IsFiniteSet(FreeFrames(m, PoolOf(s)))
<1>1. PoolOf(s) \in SUBSET Nat /\ IsFiniteSet(PoolOf(s))
  BY FramesAreNumbers DEF PoolOf
<1>2. FreeFrames(m, PoolOf(s)) \in SUBSET PoolOf(s)
  BY DEF FreeFrames
<1> QED
  BY <1>1, <1>2, FS_Subset

\* The fields that palloc and page_table_add change.
Frame(m, s, pages, v) == Nth(FreeFrames(m, PoolOf(s)), Rank(pages, v))
Table(m, s, pages, r) == Nth(FreeFrames(m, KernelPool), Rank(MissingTables(m, s, pages), r))

LEMMA MapPagesRest ==
    ASSUME NEW m, MemType(m), NEW s \in Spaces, NEW pages \in SUBSET Pages(s), NEW n,
           n = MapPages(m, s, pages)
    PROVE  /\ n.vbits = m.vbits
           /\ \A t \in Spaces : t # s => n.pte[t] = m.pte[t]
           /\ \A p \in Procs : p # s => n.pde[p] = m.pde[p]
<1> DEFINE missing == MissingTables(m, s, pages)
           frame == [v \in pages |-> Nth(FreeFrames(m, PoolOf(s)), Rank(pages, v))]
           table == [r \in missing |-> Nth(FreeFrames(m, KernelPool), Rank(missing, r))]
           all == m.taken \cup {frame[v] : v \in pages} \cup {table[r] : r \in missing}
           new == [v \in Pages(s) |-> IF v \in pages THEN frame[v] ELSE m.pte[s][v]]
<1>1. n = [m EXCEPT !.taken = all, !.pte[s] = new,
                    !.pde = [p \in Procs |-> [r \in Regions |->
                        IF p = s /\ r \in missing THEN table[r] ELSE m.pde[p][r]]]]
  BY DEF MapPages
<1>2. m = [taken |-> m.taken, vbits |-> m.vbits, pte |-> m.pte, pde |-> m.pde]
      /\ DOMAIN m.pte = Spaces
  BY DEF MemType
<1>3. \A p \in Procs : m.pde[p] = [r \in Regions |-> m.pde[p][r]]
  BY TypeParts
<1> HIDE DEF missing, frame, table, all, new
<1>4. n.vbits = m.vbits /\ \A t \in Spaces : t # s => n.pte[t] = m.pte[t]
  BY <1>1, <1>2
<1>5. ASSUME NEW p \in Procs, p # s PROVE n.pde[p] = m.pde[p]
  <2>1. n.pde = [q \in Procs |-> [r \in Regions |->
                    IF q = s /\ r \in missing THEN table[r] ELSE m.pde[q][r]]]
    BY <1>1, <1>2
  <2>2. n.pde[p] = [r \in Regions |-> m.pde[p][r]]
    BY <1>5, <2>1
  <2> QED
    BY <1>3, <2>2
<1> QED
  BY <1>4, <1>5

LEMMA MapPagesFields ==
    ASSUME NEW m, MemType(m), NEW s \in Spaces, NEW pages \in SUBSET Pages(s), NEW n,
           n = MapPages(m, s, pages)
    PROVE  /\ n.vbits = m.vbits
           /\ n.taken = m.taken \cup {Frame(m, s, pages, v) : v \in pages}
                                \cup {Table(m, s, pages, r) : r \in MissingTables(m, s, pages)}
           /\ \A t \in Spaces : t # s => n.pte[t] = m.pte[t]
           /\ n.pte[s] = [v \in Pages(s) |->
                            IF v \in pages THEN Frame(m, s, pages, v) ELSE m.pte[s][v]]
           /\ \A p \in Procs : p # s => n.pde[p] = m.pde[p]
           /\ s \in Procs => n.pde[s] = [r \in Regions |->
                    IF r \in MissingTables(m, s, pages) THEN Table(m, s, pages, r)
                    ELSE m.pde[s][r]]
           /\ n = [taken |-> n.taken, vbits |-> n.vbits, pte |-> n.pte, pde |-> n.pde]
           /\ n.pte = [t \in Spaces |-> n.pte[t]] /\ n.pde = [p \in Procs |-> n.pde[p]]
<1> DEFINE missing == MissingTables(m, s, pages)
           frame == [v \in pages |-> Frame(m, s, pages, v)]
           table == [r \in missing |-> Table(m, s, pages, r)]
<1>1. n = [m EXCEPT
            !.taken = @ \cup {frame[v] : v \in pages} \cup {table[r] : r \in missing},
            !.pte[s] = [v \in Pages(s) |-> IF v \in pages THEN frame[v] ELSE m.pte[s][v]],
            !.pde = [p \in Procs |-> [r \in Regions |->
                        IF p = s /\ r \in missing THEN table[r] ELSE m.pde[p][r]]]]
  BY DEF MapPages, Frame, Table
<1>2. /\ \A v \in pages : frame[v] = Frame(m, s, pages, v)
      /\ \A r \in missing : table[r] = Table(m, s, pages, r)
  OBVIOUS
<1>3. /\ {frame[v] : v \in pages} = {Frame(m, s, pages, v) : v \in pages}
      /\ {table[r] : r \in missing} = {Table(m, s, pages, r) : r \in missing}
  BY <1>2
<1> HIDE DEF missing, frame, table
<1>4. m = [taken |-> m.taken, vbits |-> m.vbits, pte |-> m.pte, pde |-> m.pde]
      /\ DOMAIN m.pte = Spaces /\ DOMAIN m.pde = Procs
  BY DEF MemType
<1>5. /\ n.vbits = m.vbits
      /\ n.taken = m.taken \cup {frame[v] : v \in pages} \cup {table[r] : r \in missing}
      /\ n.pte = [m.pte EXCEPT ![s] = [v \in Pages(s) |->
                    IF v \in pages THEN frame[v] ELSE m.pte[s][v]]]
      /\ n.pde = [p \in Procs |-> [r \in Regions |->
                    IF p = s /\ r \in missing THEN table[r] ELSE m.pde[p][r]]]
      /\ n = [taken |-> n.taken, vbits |-> n.vbits, pte |-> n.pte, pde |-> n.pde]
  BY <1>1, <1>4
<1>6. n.taken = m.taken \cup {Frame(m, s, pages, v) : v \in pages}
                        \cup {Table(m, s, pages, r) : r \in missing}
  BY <1>3, <1>5
<1>7. /\ \A t \in Spaces : t # s => n.pte[t] = m.pte[t]
      /\ n.pte[s] = [v \in Pages(s) |->
                       IF v \in pages THEN Frame(m, s, pages, v) ELSE m.pte[s][v]]
  BY <1>2, <1>4, <1>5
<1>8. /\ \A p \in Procs : p # s => n.pde[p] = m.pde[p]
      /\ s \in Procs => n.pde[s] = [r \in Regions |->
              IF r \in missing THEN Table(m, s, pages, r) ELSE m.pde[s][r]]
  <2>1. \A p \in Procs : m.pde[p] = [r \in Regions |-> m.pde[p][r]]
    BY TypeParts
  <2> QED
    BY <1>2, <1>5, <2>1
<1>9. n.pte = [t \in Spaces |-> n.pte[t]] /\ n.pde = [p \in Procs |-> n.pde[p]]
  BY <1>4, <1>5
<1> QED
  BY <1>5, <1>6, <1>7, <1>8, <1>9 DEF missing

LEMMA Missing ==
    ASSUME NEW m, MemType(m), NEW s \in Spaces, NEW pages
    PROVE  /\ MissingTables(m, s, pages) \subseteq Regions
           /\ s = Kernel => MissingTables(m, s, pages) = {}
           /\ \A r \in MissingTables(m, s, pages) : s \in Procs /\ m.pde[s][r] = None
           /\ MissingTables(m, s, pages) \in SUBSET Nat
           /\ IsFiniteSet(MissingTables(m, s, pages))
<1>1. /\ MissingTables(m, s, pages) \subseteq Regions
      /\ s = Kernel => MissingTables(m, s, pages) = {}
      /\ \A r \in MissingTables(m, s, pages) : s \in Procs /\ m.pde[s][r] = None
  BY DEF MissingTables, Region, Regions, Spaces
<1>2. Regions = 0..1 /\ Regions \subseteq Nat
  BY DEF Regions
<1>3. IsFiniteSet(0..1)
  BY FS_Interval, 0 \in Int, 1 \in Int
<1> QED
  BY <1>1, <1>2, <1>3, FS_Subset

LEMMA MapPagesSound ==
    ASSUME NEW m, MemType(m), NEW U \in SUBSET Spaces, Once(Holds(m, U), m.taken),
           NEW s \in U, NEW pages \in SUBSET Pages(s), \A v \in pages : ~IsMapped(m, s, v),
           Cardinality(pages) <= Cardinality(FreeFrames(m, PoolOf(s))),
           Cardinality(MissingTables(m, s, pages)) <= Cardinality(FreeFrames(m, KernelPool)),
           NEW n, n = MapPages(m, s, pages)
    PROVE  /\ MemType(n) /\ Once(Holds(n, U), n.taken)
           /\ \A v \in Pages(s) : IsMapped(n, s, v) <=> IsMapped(m, s, v) \/ v \in pages
<1> DEFINE missing == MissingTables(m, s, pages)
           Fr(v) == Frame(m, s, pages, v)
           Ta(r) == Table(m, s, pages, r)
           N == {<<s, v>> : v \in pages} \cup {<<s, -1 - r>> : r \in missing}
           F == [x \in N |-> IF x[2] >= 0 THEN Fr(x[2]) ELSE Ta(-1 - x[2])]
<1>1. /\ \A v \in pages : Fr(v) \in PoolOf(s) \ m.taken
      /\ \A v, w \in pages : Fr(v) = Fr(w) => v = w
  <2>1. pages \in SUBSET Nat /\ IsFiniteSet(pages)
    BY PagesAreNumbers, FS_Subset
  <2>2. FreeFrames(m, PoolOf(s)) \in SUBSET Nat /\ IsFiniteSet(FreeFrames(m, PoolOf(s)))
    BY FreeFinite
  <2>3. /\ \A v \in pages : Fr(v) \in FreeFrames(m, PoolOf(s))
        /\ \A v, w \in pages : Fr(v) = Fr(w) => v = w
    BY <2>1, <2>2, InOrder DEF Frame
  <2> QED
    BY <2>3, TypeParts
<1>2. /\ \A r \in missing : Ta(r) \in KernelPool \ m.taken
      /\ \A r, q \in missing : Ta(r) = Ta(q) => r = q
  <2>1. missing \in SUBSET Nat /\ IsFiniteSet(missing)
    BY Missing
  <2>2. FreeFrames(m, KernelPool) \in SUBSET Nat /\ IsFiniteSet(FreeFrames(m, KernelPool))
    BY FreeFinite, Constants DEF PoolOf
  <2>3. /\ \A r \in missing : Ta(r) \in FreeFrames(m, KernelPool)
        /\ \A r, q \in missing : Ta(r) = Ta(q) => r = q
    BY <2>1, <2>2, InOrder DEF Table
  <2> QED
    BY <2>3, TypeParts
<1>3. /\ missing \subseteq Regions /\ (s = Kernel => missing = {})
      /\ \A r \in missing : s \in Procs /\ m.pde[s][r] = None
  BY Missing
<1>4. \A v \in pages, r \in missing : Fr(v) # Ta(r)
  <2>1. missing # {} => PoolOf(s) = UserPool
    BY <1>3 DEF PoolOf
  <2> QED
    BY <1>1, <1>2, <2>1, FramesAreNumbers, ZenonT(60)
<1>5. pages \subseteq Pages(s) /\ Pages(s) \subseteq Nat
      /\ Pages(s) \subseteq -2..KPages + HeapPages /\ s \in Spaces
  BY PagesAreNumbers
<1>6. /\ \A v \in pages : <<s, v>> \in N /\ F[<<s, v>>] = Fr(v)
      /\ \A r \in missing : <<s, -1 - r>> \in N /\ F[<<s, -1 - r>>] = Ta(r)
  <2> HIDE DEF missing, Fr, Ta
  <2>1. ASSUME NEW v \in pages PROVE <<s, v>> \in N /\ F[<<s, v>>] = Fr(v)
    <3>1. v >= 0 /\ <<s, v>>[2] = v
      BY <1>5
    <3> QED
      BY <3>1
  <2>2. ASSUME NEW r \in missing PROVE <<s, -1 - r>> \in N /\ F[<<s, -1 - r>>] = Ta(r)
    <3>1. r \in 0..1
      BY <1>3 DEF Regions
    <3>2. ~(-1 - r >= 0) /\ <<s, -1 - r>>[2] = -1 - r /\ -1 - (-1 - r) = r
      BY <3>1
    <3>3. <<s, -1 - r>> \in N
      OBVIOUS
    <3> QED
      BY <3>2, <3>3
  <2> QED
    BY <2>1, <2>2
<1>7. \A x \in N : \/ \E v \in pages : x = <<s, v>>
                   \/ \E r \in missing : x = <<s, -1 - r>>
  OBVIOUS
<1>8. {F[x] : x \in N} = {Fr(v) : v \in pages} \cup {Ta(r) : r \in missing}
  <2> HIDE DEF N, F, missing, Fr, Ta
  <2>1. ASSUME NEW x \in N PROVE F[x] \in {Fr(v) : v \in pages} \cup {Ta(r) : r \in missing}
    BY <1>6, <1>7
  <2>2. ASSUME NEW v \in pages PROVE Fr(v) \in {F[x] : x \in N}
    BY <1>6
  <2>3. ASSUME NEW r \in missing PROVE Ta(r) \in {F[x] : x \in N}
    BY <1>6
  <2> QED
    BY <2>1, <2>2, <2>3
<1>9. N \in SUBSET Places
  <2>1. \A v \in pages : <<s, v>> \in Places
    BY <1>5 DEF Places
  <2>2. \A r \in missing : <<s, -1 - r>> \in Places
    BY <1>3, <1>5, Constants DEF Places, Regions
  <2> QED
    BY <1>7, <2>1, <2>2
<1>10. \A v \in Pages(s) : <<s, v>> \in N <=> v \in pages
  <2>1. ASSUME NEW v \in Pages(s), NEW r \in missing PROVE <<s, v>> # <<s, -1 - r>>
    BY <1>3, <1>5 DEF Regions
  <2> HIDE DEF missing
  <2> QED
    BY <2>1
<1>11. \A r \in Regions : <<s, -1 - r>> \in N <=> r \in missing
  <2>1. ASSUME NEW v \in pages, NEW r \in Regions PROVE <<s, v>> # <<s, -1 - r>>
    BY <1>5 DEF Regions
  <2>2. ASSUME NEW r \in Regions, NEW q \in missing, <<s, -1 - q>> = <<s, -1 - r>>
        PROVE  q = r
    BY <1>3, <2>2 DEF Regions
  <2> HIDE DEF missing
  <2> QED
    BY <2>1, <2>2
<1> HIDE DEF N, F
<1>12. \A x \in N : Holds(m, U)[x] = None
  <2>1. ASSUME NEW v \in pages PROVE Holds(m, U)[<<s, v>>] = None
    BY <1>5, HoldsAt DEF IsMapped
  <2>2. ASSUME NEW r \in missing PROVE Holds(m, U)[<<s, -1 - r>>] = None
    <3>1. r \in 0..1
      BY <1>3 DEF Regions
    <3>2. -1 - r \in -2..KPages + HeapPages /\ -1 - r \notin Pages(s) /\ -1 - r < 0
          /\ -1 - (-1 - r) = r
      BY <1>5, <3>1, Constants
    <3>3. s # Kernel /\ m.pde[s][r] = None
      BY <1>3, Constants
    <3> QED
      BY <1>5, <3>2, <3>3, HoldsAt
  <2> HIDE DEF missing
  <2> QED
    BY <1>7, <2>1, <2>2
<1>13. \A x \in N : F[x] # None /\ F[x] \notin m.taken
  <2>1. \A v \in pages : Fr(v) # None /\ Fr(v) \notin m.taken
    BY <1>1, <1>5, PagesAreNumbers, FramesAreNumbers
  <2>2. \A r \in missing : Ta(r) # None /\ Ta(r) \notin m.taken
    BY <1>2, FramesAreNumbers
  <2> HIDE DEF missing, Fr, Ta
  <2> QED
    BY <1>6, <1>7, <2>1, <2>2
<1>14. \A x, y \in N : F[x] = F[y] => x = y
  <2> HIDE DEF missing, Fr, Ta
  <2> QED
    BY <1>1, <1>2, <1>4, <1>6, <1>7
<1>15. /\ n.vbits = m.vbits
       /\ n.taken = m.taken \cup {Fr(v) : v \in pages} \cup {Ta(r) : r \in missing}
       /\ \A t \in Spaces : t # s => n.pte[t] = m.pte[t]
       /\ n.pte[s] = [v \in Pages(s) |-> IF v \in pages THEN Fr(v) ELSE m.pte[s][v]]
       /\ \A p \in Procs : p # s => n.pde[p] = m.pde[p]
       /\ s \in Procs => n.pde[s] = [r \in Regions |-> IF r \in missing THEN Ta(r)
                                                       ELSE m.pde[s][r]]
       /\ n = [taken |-> n.taken, vbits |-> n.vbits, pte |-> n.pte, pde |-> n.pde]
       /\ n.pte = [t \in Spaces |-> n.pte[t]] /\ n.pde = [p \in Procs |-> n.pde[p]]
  BY <1>5, MapPagesFields
<1>16. \A x \in Places : Holds(n, U)[x] = IF x \in N THEN F[x] ELSE Holds(m, U)[x]
  <2> SUFFICES ASSUME NEW t \in Spaces, NEW i \in -2..KPages + HeapPages
               PROVE  Holds(n, U)[<<t, i>>] = IF <<t, i>> \in N THEN F[<<t, i>>]
                                              ELSE Holds(m, U)[<<t, i>>]
    BY Pairs
  <2>1. CASE t # s
    <3>1. <<t, i>> \notin N
      BY <1>7, <2>1
    <3>2. t # Kernel => t \in Procs
      BY DEF Spaces
    <3> QED
      BY <1>15, <2>1, <3>1, <3>2, HoldsAt
  <2>2. CASE t = s /\ i \in Pages(s)
    <3>1. Holds(n, U)[<<s, i>>] = n.pte[s][i] /\ Holds(m, U)[<<s, i>>] = m.pte[s][i]
      BY <1>5, <2>2, HoldsAt
    <3> QED
      BY <1>6, <1>10, <1>15, <2>2, <3>1
  <2>3. CASE t = s /\ i \notin Pages(s) /\ s # Kernel /\ i < 0
    <3>1. -1 - i \in Regions /\ -1 - (-1 - i) = i
      BY <2>3 DEF Regions
    <3>2. s \in Procs
      BY <2>3 DEF Spaces
    <3>3. Holds(n, U)[<<s, i>>] = n.pde[s][-1 - i] /\ Holds(m, U)[<<s, i>>] = m.pde[s][-1 - i]
      BY <1>5, <2>3, HoldsAt
    <3>4. <<s, i>> \in N <=> -1 - i \in missing
      BY <1>11, <3>1
    <3>5. -1 - i \in missing => F[<<s, i>>] = Ta(-1 - i)
      BY <1>6, <3>1
    <3>6. n.pde[s][-1 - i] = IF -1 - i \in missing THEN Ta(-1 - i) ELSE m.pde[s][-1 - i]
      BY <1>15, <3>1, <3>2
    <3> QED
      BY <2>3, <3>3, <3>4, <3>5, <3>6
  <2>4. CASE t = s /\ i \notin Pages(s) /\ ~(s # Kernel /\ i < 0)
    <3>1. Holds(n, U)[<<s, i>>] = None /\ Holds(m, U)[<<s, i>>] = None
      BY <1>5, <2>4, HoldsAt
    <3>2. <<s, i>> \notin N
      <4>1. \A v \in pages : <<s, i>> # <<s, v>>
        BY <1>5, <2>4
      <4>2. \A r \in missing : <<s, i>> # <<s, -1 - r>>
        BY <1>3, <2>4, Constants DEF Regions
      <4> QED
        BY <1>7, <4>1, <4>2
    <3> QED
      BY <2>4, <3>1, <3>2
  <2> QED
    BY <2>1, <2>2, <2>3, <2>4
<1>17. Once(Holds(n, U), n.taken)
  <2> DEFINE h == Holds(m, U)
             g == Holds(n, U)
  <2>1. None \notin m.taken /\ n.taken = m.taken \cup {F[x] : x \in N}
    BY <1>8, <1>15, TypeParts
  <2>2. /\ Once(h, m.taken)
        /\ \A x \in N : h[x] = None /\ F[x] # None /\ F[x] \notin m.taken
        /\ \A x \in Places : g[x] = IF x \in N THEN F[x] ELSE h[x]
    BY <1>12, <1>13, <1>16
  <2> HIDE DEF h, g
  <2>3. Once(g, m.taken \cup {F[x] : x \in N})
    BY <1>9, <1>14, <2>1, <2>2, FramesAdded
  <2> QED
    BY <2>1, <2>3 DEF g
<1>18. MemType(n)
  <2>1. n.taken \in SUBSET Frames
    <3>1. \A x \in N : F[x] \in Frames
      <4>1. \A v \in pages : Fr(v) \in Frames
        BY <1>1, <1>5, PagesAreNumbers
      <4>2. \A r \in missing : Ta(r) \in Frames
        BY <1>2, FramesAreNumbers
      <4> HIDE DEF missing, Fr, Ta
      <4> QED
        BY <1>6, <1>7, <4>1, <4>2
    <3>2. n.taken = m.taken \cup {F[x] : x \in N}
      BY <1>8, <1>15
    <3> QED
      BY <3>1, <3>2, TypeParts
  <2>2. \A t \in Spaces : n.pte[t] \in [Pages(t) -> PoolOf(t) \cup {None}]
    <3>1. n.pte[s] \in [Pages(s) -> PoolOf(s) \cup {None}]
      <4>1. m.pte[s] \in [Pages(s) -> PoolOf(s) \cup {None}]
        BY <1>5, TypeParts
      <4> HIDE DEF Fr
      <4> QED
        BY <1>1, <1>15, <4>1
    <3> QED
      BY <1>15, <3>1, TypeParts
  <2>3. n.pte \in [Spaces -> Directories]
    <3>1. \A t \in Spaces : n.pte[t] \in Directories
      BY <2>2 DEF Directories
    <3> QED
      BY <1>15, <3>1
  <2>4. n.pde \in [Procs -> [Regions -> KernelPool \cup {None}]]
    <3>1. s \in Procs => n.pde[s] \in [Regions -> KernelPool \cup {None}]
      <4>1. s \in Procs => m.pde[s] \in [Regions -> KernelPool \cup {None}]
        BY TypeParts
      <4> HIDE DEF Ta, missing
      <4> QED
        BY <1>2, <1>15, <4>1
    <3>2. \A p \in Procs : n.pde[p] \in [Regions -> KernelPool \cup {None}]
      BY <1>15, <3>1, TypeParts
    <3> QED
      BY <1>15, <3>2
  <2>5. n.vbits \in [Spaces -> SUBSET Nat] /\ \A t \in Spaces : n.vbits[t] \subseteq Pages(t)
    BY <1>15 DEF MemType
  <2> QED
    BY <1>15, <2>1, <2>2, <2>3, <2>4, <2>5 DEF MemType
<1>19. ASSUME NEW v \in Pages(s)
       PROVE  IsMapped(n, s, v) <=> IsMapped(m, s, v) \/ v \in pages
  <2>1. v \in pages => Fr(v) # None
    BY <1>1, <1>5, PagesAreNumbers, FramesAreNumbers
  <2> HIDE DEF Fr
  <2> QED
    BY <1>15, <2>1 DEF IsMapped
<1> QED
  BY <1>17, <1>18, <1>19

\* A run of pages, and what does not concern a space.
Run(v, cnt) == v..v + cnt - 1
Elsewhere(m, n, s) ==
    /\ \A t \in Spaces : t # s => n.pte[t] = m.pte[t] /\ n.vbits[t] = m.vbits[t]
    /\ \A p \in Procs : p # s => n.pde[p] = m.pde[p]

\* The pages a run of which is allocated or released.
Grown(m, n, s, run) ==
    /\ run \subseteq Pages(s) /\ \A v \in run : ~IsMapped(m, s, v)
    /\ \A v \in Pages(s) : IsMapped(n, s, v) <=> IsMapped(m, s, v) \/ v \in run
    /\ n.vbits[s] = m.vbits[s] \cup run
    /\ Elsewhere(m, n, s)
Shrunk(m, n, s, run) ==
    /\ \A v \in Pages(s) : IsMapped(n, s, v) <=> IsMapped(m, s, v) /\ v \notin run
    /\ \A v \in Pages(s) : n.pte[s][v] \in {m.pte[s][v], None}
    /\ n.vbits[s] = m.vbits[s] \ run
    /\ Elsewhere(m, n, s)

LEMMA Interval ==
    ASSUME NEW s \in Spaces, NEW v \in Pages(s), NEW cnt \in Nat \ {0}, v + cnt \in Pages(s)
    PROVE  /\ Run(v, cnt) \in SUBSET Pages(s) /\ v \in Run(v, cnt)
           /\ IsFiniteSet(Run(v, cnt)) /\ Cardinality(Run(v, cnt)) = cnt
           /\ s # Kernel => HeapPages \notin Run(v, cnt)
<1>1. v \in Nat
  BY PagesAreNumbers
<1>2. Run(v, cnt) \in SUBSET Pages(s) /\ v \in Run(v, cnt)
      /\ (s # Kernel => HeapPages \notin Run(v, cnt))
  BY <1>1, Constants DEF Run, Pages
<1>3. IsFiniteSet(Run(v, cnt)) /\ Cardinality(Run(v, cnt)) = cnt
  <2>1. v \in Int /\ v + cnt - 1 \in Int /\ ~(v > v + cnt - 1) /\ v + cnt - 1 - v + 1 = cnt
    BY <1>1
  <2> QED
    BY <2>1, FS_Interval DEF Run
<1> QED
  BY <1>2, <1>3

\* The heap has one page table.
LEMMA OneTable ==
    ASSUME NEW m, MemType(m), NEW s \in Spaces, NEW cnt, Room(m, s, cnt),
           NEW run \in SUBSET Pages(s), s # Kernel => HeapPages \notin run
    PROVE  Cardinality(MissingTables(m, s, run)) <= Cardinality(FreeFrames(m, KernelPool))
<1>1. IsFiniteSet(FreeFrames(m, KernelPool))
  BY FreeFinite, Constants DEF PoolOf
<1>2. Cardinality(FreeFrames(m, KernelPool)) \in Nat
  BY <1>1, FS_CardinalityType
<1>3. MissingTables(m, s, run) \in SUBSET {0} /\ (s = Kernel => MissingTables(m, s, run) = {})
  BY DEF MissingTables, Region
<1>4. IsFiniteSet({0}) /\ Cardinality({0}) = 1
  BY FS_Singleton
<1>5. CASE s = Kernel
  BY <1>2, <1>3, <1>5, FS_EmptySet
<1>6. CASE s # Kernel
  <2>1. Cardinality(FreeFrames(m, KernelPool)) # 0
    BY <1>1, <1>6, FS_EmptySet DEF Room
  <2>2. Cardinality(MissingTables(m, s, run)) <= 1 /\ IsFiniteSet(MissingTables(m, s, run))
    BY <1>3, <1>4, FS_Subset
  <2>3. Cardinality(MissingTables(m, s, run)) \in Nat
    BY <2>2, FS_CardinalityType
  <2> QED
    BY <1>2, <2>1, <2>2, <2>3
<1> QED
  BY <1>5, <1>6

\* Memory that differs in reserved pages only.
WithBits(m, s, set) == [m EXCEPT !.vbits[s] = set]

LEMMA Reserved ==
    ASSUME NEW m, MemType(m), NEW s \in Spaces, NEW set, set \subseteq Pages(s), NEW n,
           n = WithBits(m, s, set)
    PROVE  /\ MemType(n) /\ n.taken = m.taken /\ n.pte = m.pte /\ n.pde = m.pde
           /\ n.vbits[s] = set /\ \A t \in Spaces : t # s => n.vbits[t] = m.vbits[t]
           /\ \A U : Holds(n, U) = Holds(m, U)
<1>1. /\ n.taken = m.taken /\ n.pte = m.pte /\ n.pde = m.pde
      /\ n.vbits = [m.vbits EXCEPT ![s] = set]
      /\ n = [taken |-> n.taken, vbits |-> n.vbits, pte |-> n.pte, pde |-> n.pde]
  BY DEF MemType, WithBits
<1>2. n.vbits \in [Spaces -> SUBSET Nat] /\ n.vbits[s] = set
      /\ \A t \in Spaces : t # s => n.vbits[t] = m.vbits[t]
  <2>1. set \subseteq Nat
    BY PagesAreNumbers
  <2> QED
    BY <1>1, <2>1 DEF MemType
<1>3. MemType(n)
  BY <1>1, <1>2 DEF MemType
<1>4. \A U : Holds(n, U) = Holds(m, U)
  BY <1>1 DEF Holds
<1> QED
  BY <1>1, <1>2, <1>3, <1>4

\* Memory n is m with the pages of run reserved.
Reserving(m, n, s, run) ==
    /\ MemType(n) /\ n.taken = m.taken /\ n.pte = m.pte /\ n.pde = m.pde
    /\ n.vbits[s] = m.vbits[s] \cup run
    /\ \A t \in Spaces : t # s => n.vbits[t] = m.vbits[t]
    /\ \A U : Holds(n, U) = Holds(m, U)

\* Free pages that are reserved and then mapped.
LEMMA MapRun ==
    ASSUME NEW m, NEW U \in SUBSET Spaces, Sound(m, U), NEW s \in U,
           NEW run \in SUBSET Pages(s), run \cap m.vbits[s] = {},
           NEW k, Reserving(m, k, s, run),
           Cardinality(run) <= Cardinality(FreeFrames(k, PoolOf(s))),
           Cardinality(MissingTables(k, s, run)) <= Cardinality(FreeFrames(k, KernelPool))
    PROVE  Sound(MapPages(k, s, run), U) /\ Grown(m, MapPages(k, s, run), s, run)
<1> DEFINE n == MapPages(k, s, run)
<1> HIDE DEF n
<1>1. MemType(m) /\ Once(Holds(m, U), m.taken) /\ s \in Spaces
  BY DEF Sound
<1>2. \A v \in run : ~IsMapped(m, s, v)
  BY DEF Sound, BitsRight
<1>3. /\ MemType(k) /\ k.taken = m.taken /\ k.pte = m.pte /\ k.pde = m.pde
      /\ k.vbits[s] = m.vbits[s] \cup run
      /\ \A t \in Spaces : t # s => k.vbits[t] = m.vbits[t]
      /\ Holds(k, U) = Holds(m, U)
  BY DEF Reserving
<1>4. /\ MemType(n) /\ Once(Holds(n, U), n.taken)
      /\ \A v \in Pages(s) : IsMapped(n, s, v) <=> IsMapped(m, s, v) \/ v \in run
  <2>1. /\ Once(Holds(k, U), k.taken)
        /\ \A v : IsMapped(k, s, v) <=> IsMapped(m, s, v)
    BY <1>1, <1>3 DEF IsMapped
  <2>2. \A v \in run : ~IsMapped(k, s, v)
    BY <1>2, <2>1
  <2>3. MemType(k)
    BY <1>3
  <2>4. /\ MemType(n) /\ Once(Holds(n, U), n.taken)
        /\ \A v \in Pages(s) : IsMapped(n, s, v) <=> IsMapped(k, s, v) \/ v \in run
    BY <2>1, <2>2, <2>3, MapPagesSound DEF n
  <2> QED
    BY <2>1, <2>4
<1>5. n.vbits = k.vbits /\ Elsewhere(m, n, s)
  <2>1. /\ n.vbits = k.vbits
        /\ \A t \in Spaces : t # s => n.pte[t] = k.pte[t]
        /\ \A p \in Procs : p # s => n.pde[p] = k.pde[p]
    BY <1>1, <1>3, MapPagesRest DEF n
  <2> QED
    BY <1>3, <2>1 DEF Elsewhere
<1>6. Sound(n, U)
  <2>1. ASSUME NEW t \in U, NEW v \in Pages(t) PROVE v \in n.vbits[t] <=> IsMapped(n, t, v) \/ Waiting(t, v)
    <3>1. CASE t = s
      BY <1>3, <1>4, <1>5, <3>1 DEF Sound, BitsRight
    <3>2. CASE t # s
      BY <1>5, <3>2 DEF Sound, BitsRight, Elsewhere, IsMapped
    <3> QED
      BY <3>1, <3>2
  <2> QED
    BY <1>4, <2>1 DEF Sound, BitsRight
<1> QED
  BY <1>2, <1>3, <1>4, <1>5, <1>6 DEF Grown, n

LEMMA Malloc ==
    ASSUME NEW m, NEW U \in SUBSET Spaces, Sound(m, U), NEW s \in U, NEW cnt \in Nat \ {0},
           Room(m, s, cnt), NEW r, r = malloc_page(m, s, cnt)
    PROVE  /\ r.vaddr \in Pages(s) /\ r.vaddr + cnt \in Pages(s)
           /\ Sound(r.mem, U)
           /\ Grown(m, r.mem, s, Run(r.vaddr, cnt))
<1> DEFINE start == vaddr_get(m, s, cnt)
           run == Run(start, cnt)
           k == WithBits(m, s, m.vbits[s] \cup run)
<1>1. r.vaddr = start /\ r.mem = MapPages(k, s, run)
  BY DEF malloc_page, Run, WithBits
<1>2. /\ start \in Pages(s) /\ start + cnt \in Pages(s)
      /\ run \cap m.vbits[s] = {}
  <2>1. FreeRuns(m, s, cnt) \in SUBSET Nat /\ FreeRuns(m, s, cnt) # {}
    BY PagesAreNumbers DEF FreeRuns, Room
  <2>2. start \in FreeRuns(m, s, cnt)
    BY <2>1, MinElement DEF vaddr_get
  <2> HIDE DEF start
  <2> QED
    BY <2>2 DEF FreeRuns, Run
<1>3. MemType(m) /\ s \in Spaces
  BY DEF Sound
<1>4. /\ run \in SUBSET Pages(s) /\ Cardinality(run) = cnt
      /\ s # Kernel => HeapPages \notin run
  <2> HIDE DEF start
  <2> QED
    BY <1>2, <1>3, Interval
<1> HIDE DEF start, run
<1>5. Reserving(m, k, s, run)
  <2>1. m.vbits[s] \cup run \subseteq Pages(s)
    BY <1>3, <1>4, TypeParts
  <2>2. k = WithBits(m, s, m.vbits[s] \cup run)
    OBVIOUS
  <2> HIDE DEF k
  <2> QED
    BY <1>3, <2>1, <2>2, Reserved DEF Reserving
<1> HIDE DEF k
<1>6. k.taken = m.taken /\ k.pde = m.pde
  BY <1>5 DEF Reserving
<1>7. \A pool : FreeFrames(k, pool) = FreeFrames(m, pool)
  BY <1>6 DEF FreeFrames
<1>8. MissingTables(k, s, run) = MissingTables(m, s, run)
  BY <1>6 DEF MissingTables
<1>9. Cardinality(MissingTables(k, s, run)) <= Cardinality(FreeFrames(k, KernelPool))
  BY <1>3, <1>4, <1>7, <1>8, OneTable
<1>10. Cardinality(run) <= Cardinality(FreeFrames(k, PoolOf(s)))
  <2>1. IsFiniteSet(FreeFrames(m, PoolOf(s)))
    BY <1>3, FreeFinite
  <2>2. Cardinality(FreeFrames(m, PoolOf(s))) \in Nat
    BY <2>1, FS_CardinalityType
  <2> QED
    BY <1>4, <1>7, <2>2 DEF Room
<1>11. Sound(r.mem, U) /\ Grown(m, r.mem, s, run)
  BY <1>1, <1>2, <1>4, <1>5, <1>9, <1>10, MapRun
<1> QED
  BY <1>1, <1>2, <1>11 DEF run

LEMMA Mfree ==
    ASSUME NEW m, NEW U \in SUBSET Spaces, Sound(m, U), NEW s \in U, NEW start, NEW cnt,
           Run(start, cnt) \subseteq Pages(s), \A v \in Run(start, cnt) : ~Waiting(s, v),
           NEW n, n = mfree_page(m, s, start, cnt)
    PROVE  Sound(n, U) /\ Shrunk(m, n, s, Run(start, cnt))
<1> DEFINE run == Run(start, cnt)
           N == {<<s, v>> : v \in run}
           h == Holds(m, U)
           g == Holds(n, U)
<1>1. MemType(m) /\ Once(Holds(m, U), m.taken) /\ s \in Spaces
  BY DEF Sound
<1>2. m = [taken |-> m.taken, vbits |-> m.vbits, pte |-> m.pte, pde |-> m.pde]
      /\ m.pte \in [Spaces -> Directories] /\ m.vbits \in [Spaces -> SUBSET Nat]
  BY <1>1 DEF MemType
<1>3. n = [m EXCEPT !.taken = m.taken \ {m.pte[s][v] : v \in run},
                    !.pte[s] = [v \in Pages(s) |-> IF v \in run THEN None ELSE m.pte[s][v]],
                    !.vbits[s] = m.vbits[s] \ run]
  BY DEF mfree_page, Run
<1> HIDE DEF run
<1>4. /\ n.taken = m.taken \ {m.pte[s][v] : v \in run}
      /\ n.pte = [m.pte EXCEPT ![s] =
                     [v \in Pages(s) |-> IF v \in run THEN None ELSE m.pte[s][v]]]
      /\ n.vbits = [m.vbits EXCEPT ![s] = m.vbits[s] \ run]
      /\ n.pde = m.pde
      /\ n = [taken |-> n.taken, vbits |-> n.vbits, pte |-> n.pte, pde |-> n.pde]
  BY <1>2, <1>3
<1>5. /\ \A t \in Spaces : t # s => n.pte[t] = m.pte[t] /\ n.vbits[t] = m.vbits[t]
      /\ n.pte[s] = [v \in Pages(s) |-> IF v \in run THEN None ELSE m.pte[s][v]]
      /\ n.vbits[s] = m.vbits[s] \ run
      /\ DOMAIN n.pte = Spaces /\ DOMAIN n.vbits = Spaces
  BY <1>1, <1>2, <1>4
<1>6. MemType(n)
  <2>1. n.pte[s] \in [Pages(s) -> PoolOf(s) \cup {None}]
    <3>1. m.pte[s] \in [Pages(s) -> PoolOf(s) \cup {None}]
      BY <1>1, TypeParts
    <3> QED
      BY <1>5, <3>1
  <2>2. \A t \in Spaces : n.pte[t] \in [Pages(t) -> PoolOf(t) \cup {None}]
    BY <1>1, <1>5, <2>1, TypeParts
  <2>3. n.pte \in [Spaces -> Directories]
    <3>1. \A t \in Spaces : n.pte[t] \in Directories
      BY <2>2 DEF Directories
    <3>2. n.pte = [t \in Spaces |-> n.pte[t]]
      BY <1>2, <1>4
    <3> QED
      BY <3>1, <3>2
  <2>4. n.vbits \in [Spaces -> SUBSET Nat] /\ \A t \in Spaces : n.vbits[t] \subseteq Pages(t)
    BY <1>1, <1>2, <1>4, <1>5, TypeParts
  <2>5. n.taken \in SUBSET Frames /\ n.pde = m.pde
    BY <1>1, <1>4, TypeParts
  <2> QED
    BY <1>1, <1>4, <2>2, <2>3, <2>4, <2>5 DEF MemType
<1>7. run \subseteq Pages(s) /\ Pages(s) \subseteq -2..KPages + HeapPages
  BY <1>1, PagesAreNumbers DEF run
<1>8. N \in SUBSET Places
  BY <1>1, <1>7 DEF Places
<1>9. {h[x] : x \in N} = {m.pte[s][v] : v \in run}
  <2>1. \A v \in run : h[<<s, v>>] = m.pte[s][v]
    BY <1>1, <1>7, HoldsAt
  <2> HIDE DEF h
  <2> QED
    BY <2>1
<1>10. \A x \in Places : g[x] = IF x \in N THEN None ELSE h[x]
  <2> SUFFICES ASSUME NEW t \in Spaces, NEW i \in -2..KPages + HeapPages
               PROVE  g[<<t, i>>] = IF <<t, i>> \in N THEN None ELSE h[<<t, i>>]
    BY Pairs
  <2>1. <<t, i>> \in N <=> t = s /\ i \in run
    OBVIOUS
  <2>2. CASE t = s
    BY <1>4, <1>5, <1>7, <2>1, <2>2, HoldsAt
  <2>3. CASE t # s
    BY <1>4, <1>5, <2>1, <2>3, HoldsAt
  <2> QED
    BY <2>2, <2>3
<1>11. Once(g, n.taken)
  <2>1. None \notin m.taken /\ Once(h, m.taken) /\ n.taken = m.taken \ {h[x] : x \in N}
    BY <1>1, <1>4, <1>9, TypeParts
  <2> HIDE DEF g, h, N
  <2> QED
    BY <1>8, <1>10, <2>1, FramesRemoved
<1>12. \A v \in Pages(s) : IsMapped(n, s, v) <=> IsMapped(m, s, v) /\ v \notin run
  BY <1>5 DEF IsMapped
<1>13. ASSUME NEW t \in U, NEW v \in Pages(t) PROVE v \in n.vbits[t] <=> IsMapped(n, t, v) \/ Waiting(t, v)
  <2>1. CASE t = s
    BY <1>5, <1>12, <2>1 DEF Sound, BitsRight, run
  <2>2. CASE t # s
    BY <1>5, <2>2 DEF Sound, BitsRight, IsMapped
  <2> QED
    BY <2>1, <2>2
<1> QED
  <2>1. \A v \in Pages(s) : n.pte[s][v] \in {m.pte[s][v], None}
    BY <1>5
  <2>2. Sound(n, U)
    BY <1>6, <1>11, <1>13 DEF Sound, BitsRight
  <2> QED
    BY <1>4, <1>5, <1>12, <2>1, <2>2 DEF Shrunk, Elsewhere, run

\* The frames of a process that exits.
LEMMA Release ==
    ASSUME NEW m, NEW U \in SUBSET Spaces, Sound(m, U), NEW p \in Procs, p \in U
    PROVE  /\ Sound(Released(m, p), U \ {p})
           /\ Released(m, p).pte = m.pte /\ Released(m, p).pde = m.pde
           /\ Released(m, p).vbits = m.vbits
<1> DEFINE n == Released(m, p)
           V == U \ {p}
           N == {x \in Places : x[1] = p}
           h == Holds(m, U)
           g == Holds(n, V)
<1>1. MemType(m) /\ Once(h, m.taken) /\ p \in Spaces /\ p # Kernel
  BY Constants DEF Sound, Spaces
<1>2. /\ n.taken = m.taken \ (Mapped(m, p) \cup Tables(m, p))
      /\ n.pte = m.pte /\ n.pde = m.pde /\ n.vbits = m.vbits
      /\ n = [taken |-> n.taken, vbits |-> n.vbits, pte |-> n.pte, pde |-> n.pde]
  <2>1. m = [taken |-> m.taken, vbits |-> m.vbits, pte |-> m.pte, pde |-> m.pde]
    BY <1>1 DEF MemType
  <2>2. n = [m EXCEPT !.taken = m.taken \ (Mapped(m, p) \cup Tables(m, p))]
    BY DEF Released
  <2> HIDE DEF n
  <2> QED
    BY <2>1, <2>2
<1> HIDE DEF n
<1>3. MemType(n)
  BY <1>1, <1>2 DEF MemType
<1>4. \A x \in Places : g[x] = IF x \in N THEN None ELSE h[x]
  <2> SUFFICES ASSUME NEW t \in Spaces, NEW i \in -2..KPages + HeapPages
               PROVE  g[<<t, i>>] = IF <<t, i>> \in N THEN None ELSE h[<<t, i>>]
    BY Pairs
  <2>1. <<t, i>> \in N <=> t = p
    BY HoldsAt
  <2> QED
    BY <1>2, <2>1, HoldsAt
<1>5. {h[x] : x \in N} \ {None} = Mapped(m, p) \cup Tables(m, p)
  <2>0. Pages(p) \subseteq -2..KPages + HeapPages /\ Pages(p) \subseteq Nat
    BY <1>1, PagesAreNumbers
  <2>1. ASSUME NEW x \in N, h[x] # None PROVE h[x] \in Mapped(m, p) \cup Tables(m, p)
    <3>1. PICK i \in -2..KPages + HeapPages : x = <<p, i>>
      BY Pairs
    <3>2. CASE i \in Pages(p)
      <4>1. h[x] = m.pte[p][i]
        BY <1>1, <3>1, <3>2, HoldsAt
      <4> QED
        BY <2>1, <3>2, <4>1 DEF Mapped
    <3>3. CASE i \notin Pages(p)
      <4>1. i < 0 /\ h[x] = m.pde[p][-1 - i]
        BY <1>1, <2>1, <3>1, <3>3, HoldsAt
      <4>2. -1 - i \in Regions
        BY <4>1 DEF Regions
      <4> QED
        BY <2>1, <4>1, <4>2 DEF Tables
    <3> QED
      BY <3>2, <3>3
  <2>2. ASSUME NEW v \in Pages(p) PROVE m.pte[p][v] \in {h[x] : x \in N}
    <3>1. <<p, v>> \in N /\ h[<<p, v>>] = m.pte[p][v]
      BY <1>1, <2>0, HoldsAt
    <3> HIDE DEF h
    <3> QED
      BY <3>1
  <2>3. ASSUME NEW r \in Regions PROVE m.pde[p][r] \in {h[x] : x \in N}
    <3>1. -1 - r \in -2..KPages + HeapPages /\ -1 - r \notin Pages(p) /\ -1 - r < 0
          /\ -1 - (-1 - r) = r
      BY <2>0, Constants DEF Regions
    <3>2. <<p, -1 - r>> \in N /\ h[<<p, -1 - r>>] = m.pde[p][r]
      BY <1>1, <3>1, HoldsAt
    <3> HIDE DEF h
    <3> QED
      BY <3>2
  <2> HIDE DEF h, N
  <2> QED
    BY <2>1, <2>2, <2>3 DEF Mapped, Tables
<1>6. Once(g, n.taken)
  <2>1. None \notin m.taken /\ N \in SUBSET Places
    BY <1>1, TypeParts
  <2>2. n.taken = m.taken \ {h[x] : x \in N}
    BY <1>2, <1>5, <2>1
  <2> HIDE DEF g, h, N
  <2> QED
    BY <1>1, <1>4, <2>1, <2>2, FramesRemoved
<1>7. \A t \in V : \A v \in Pages(t) : v \in n.vbits[t] <=> IsMapped(n, t, v) \/ Waiting(t, v)
  BY <1>2 DEF Sound, BitsRight, IsMapped
<1> QED
  BY <1>2, <1>3, <1>6, <1>7 DEF Sound, BitsRight, n

\* The page directory of a process that is gone.
Wiped(m, p) == [m EXCEPT !.pde[p] = NoTables, !.pte[p] = NoPages(p), !.vbits[p] = {}]

LEMMA Wipe ==
    ASSUME NEW m, NEW U \in SUBSET Spaces, Sound(m, U), NEW p \in Procs, p \notin U
    PROVE  /\ Sound(Wiped(m, p), U \cup {p})
           /\ Blank(Wiped(m, p), p) /\ Elsewhere(m, Wiped(m, p), p)
<1> DEFINE n == Wiped(m, p)
           V == U \cup {p}
<1>1. MemType(m) /\ Once(Holds(m, U), m.taken) /\ p \in Spaces /\ p # Kernel
  BY Constants DEF Sound, Spaces
<1>2. m = [taken |-> m.taken, vbits |-> m.vbits, pte |-> m.pte, pde |-> m.pde]
      /\ m.pte \in [Spaces -> Directories] /\ m.vbits \in [Spaces -> SUBSET Nat]
      /\ m.pde \in [Procs -> [Regions -> KernelPool \cup {None}]]
  BY <1>1 DEF MemType
<1>3. /\ n.taken = m.taken
      /\ n.pte = [m.pte EXCEPT ![p] = NoPages(p)]
      /\ n.vbits = [m.vbits EXCEPT ![p] = {}]
      /\ n.pde = [m.pde EXCEPT ![p] = NoTables]
      /\ n = [taken |-> n.taken, vbits |-> n.vbits, pte |-> n.pte, pde |-> n.pde]
  <2>1. n = [m EXCEPT !.pde[p] = NoTables, !.pte[p] = NoPages(p), !.vbits[p] = {}]
    BY DEF Wiped
  <2> HIDE DEF n
  <2> QED
    BY <1>2, <2>1
<1> HIDE DEF n
<1>4. Blank(n, p) /\ Elsewhere(m, n, p)
  BY <1>1, <1>2, <1>3 DEF Blank, Elsewhere
<1>5. MemType(n)
  <2>1. \A t \in Spaces : n.pte[t] \in [Pages(t) -> PoolOf(t) \cup {None}]
    BY <1>1, <1>4, TypeParts DEF Blank, Elsewhere, NoPages
  <2>2. n.pte \in [Spaces -> Directories]
    <3>1. \A t \in Spaces : n.pte[t] \in Directories
      BY <2>1 DEF Directories
    <3>2. n.pte = [t \in Spaces |-> n.pte[t]]
      BY <1>2, <1>3
    <3> QED
      BY <3>1, <3>2
  <2>3. n.vbits \in [Spaces -> SUBSET Nat] /\ \A t \in Spaces : n.vbits[t] \subseteq Pages(t)
    BY <1>1, <1>2, <1>3, TypeParts
  <2>4. NoTables \in [Regions -> KernelPool \cup {None}]
    BY DEF NoTables
  <2>5. n.pde \in [Procs -> [Regions -> KernelPool \cup {None}]]
    BY <1>2, <1>3, <2>4
  <2> QED
    BY <1>1, <1>3, <2>1, <2>2, <2>3, <2>5 DEF MemType
<1>6. \A x \in Places : Holds(n, V)[x] = Holds(m, U)[x]
  <2> SUFFICES ASSUME NEW t \in Spaces, NEW i \in -2..KPages + HeapPages
               PROVE  Holds(n, V)[<<t, i>>] = Holds(m, U)[<<t, i>>]
    BY Pairs
  <2>1. CASE t # p
    <3>1. t # Kernel => t \in Procs
      BY DEF Spaces
    <3> QED
      <4>1. n.pte[t] = m.pte[t] /\ (t # Kernel => n.pde[t] = m.pde[t])
        BY <1>4, <2>1, <3>1 DEF Elsewhere
      <4>2. V \in SUBSET Spaces /\ (t \in V <=> t \in U)
        BY <1>1, <2>1
      <4> HIDE DEF V
      <4> QED
        BY <4>1, <4>2, HoldsAt
  <2>2. CASE t = p
    <3>1. i < 0 => -1 - i \in Regions
      BY DEF Regions
    <3>2. /\ i \in Pages(p) => n.pte[p][i] = None
          /\ i < 0 => n.pde[p][-1 - i] = None
      BY <1>4, <3>1 DEF Blank, NoPages, NoTables
    <3> QED
      BY <1>1, <2>2, <3>2, HoldsAt
  <2> QED
    BY <2>1, <2>2
<1>7. Once(Holds(n, V), n.taken)
  BY <1>1, <1>3, <1>6 DEF Once
<1>8. ASSUME NEW t \in V, NEW v \in Pages(t) PROVE v \in n.vbits[t] <=> IsMapped(n, t, v) \/ Waiting(t, v)
  <2>1. CASE t = p
    BY <1>1, <1>4, <2>1 DEF Blank, NoPages, IsMapped, Waiting
  <2>2. CASE t # p
    BY <1>4, <2>2 DEF Sound, BitsRight, Elsewhere, IsMapped
  <2> QED
    BY <2>1, <2>2
<1> QED
  BY <1>4, <1>5, <1>7, <1>8 DEF Sound, BitsRight, n

-----------------------------------------------------------------------------
(* Lists of blocks. *)

LEMMA TailList ==
    ASSUME NEW T, NEW list \in Seq(T), list # <<>>, IsInjective(list)
    PROVE  /\ Tail(list) \in Seq(T) /\ IsInjective(Tail(list))
           /\ Head(list) \in Range(list) /\ Head(list) \in T
           /\ Range(Tail(list)) = Range(list) \ {Head(list)}
<1>1. /\ Len(list) \in Nat /\ Len(list) > 0 /\ DOMAIN list = 1..Len(list)
      /\ Tail(list) \in Seq(T) /\ Len(Tail(list)) = Len(list) - 1
      /\ DOMAIN Tail(list) = 1..Len(list) - 1
      /\ \A i \in 1..Len(list) - 1 : Tail(list)[i] = list[i + 1]
      /\ Head(list) = list[1]
  OBVIOUS
<1>2. ASSUME NEW i \in 1..Len(list) - 1, NEW j \in 1..Len(list) - 1,
             Tail(list)[i] = Tail(list)[j]
      PROVE  i = j
  <2>1. i + 1 \in 1..Len(list) /\ j + 1 \in 1..Len(list) /\ list[i + 1] = list[j + 1]
    BY <1>1, <1>2
  <2>2. i + 1 = j + 1
    BY <1>1, <2>1 DEF IsInjective
  <2> QED
    BY <2>2
<1>3. ASSUME NEW x \in Range(Tail(list)) PROVE x \in Range(list) \ {Head(list)}
  <2>1. PICK i \in 1..Len(list) - 1 : x = list[i + 1]
    BY <1>1 DEF Range
  <2>2. i + 1 \in 1..Len(list) /\ 1 \in 1..Len(list) /\ i + 1 # 1
    BY <1>1
  <2> QED
    BY <1>1, <2>1, <2>2 DEF Range, IsInjective
<1>4. ASSUME NEW x \in Range(list), x # Head(list) PROVE x \in Range(Tail(list))
  <2>1. PICK i \in 1..Len(list) : x = list[i]
    BY <1>1 DEF Range
  <2>2. i - 1 \in 1..Len(list) - 1 /\ (i - 1) + 1 = i
    BY <1>1, <1>4, <2>1
  <2>3. x = Tail(list)[i - 1]
    BY <1>1, <2>1, <2>2
  <2> QED
    BY <1>1, <2>2, <2>3 DEF Range
<1>5. Head(list) \in Range(list) /\ Head(list) \in T
  BY <1>1 DEF Range
<1>6. IsInjective(Tail(list))
  BY <1>1, <1>2 DEF IsInjective
<1>7. Range(Tail(list)) = Range(list) \ {Head(list)}
  BY <1>3, <1>4
<1> QED
  BY <1>1, <1>5, <1>6, <1>7

LEMMA AppendList ==
    ASSUME NEW T, NEW list \in Seq(T), IsInjective(list), NEW b \in T, b \notin Range(list)
    PROVE  /\ Append(list, b) \in Seq(T) /\ IsInjective(Append(list, b))
           /\ Range(Append(list, b)) = Range(list) \cup {b}
<1> DEFINE new == Append(list, b)
<1>1. /\ Len(list) \in Nat /\ DOMAIN list = 1..Len(list)
      /\ new \in Seq(T) /\ DOMAIN new = 1..Len(list) + 1
      /\ \A i \in 1..Len(list) : new[i] = list[i]
      /\ new[Len(list) + 1] = b
  OBVIOUS
<1> HIDE DEF new
<1>2. \A i \in 1..Len(list) + 1 : i \in 1..Len(list) \/ i = Len(list) + 1
  BY <1>1
<1>3. \A i \in 1..Len(list) : list[i] # b /\ i \in 1..Len(list) + 1
  BY <1>1 DEF Range
<1>4. Len(list) + 1 \in 1..Len(list) + 1
  BY <1>1
<1>5. IsInjective(new)
  <2>1. ASSUME NEW i \in 1..Len(list) + 1, NEW j \in 1..Len(list) + 1, new[i] = new[j]
        PROVE  i = j
    <3>1. CASE i \in 1..Len(list) /\ j \in 1..Len(list)
      BY <1>1, <2>1, <3>1 DEF IsInjective
    <3>2. CASE i = Len(list) + 1 \/ j = Len(list) + 1
      BY <1>1, <1>2, <1>3, <2>1, <3>2
    <3> QED
      BY <1>2, <3>1, <3>2
  <2> QED
    BY <1>1, <2>1 DEF IsInjective
<1>6. Range(new) = Range(list) \cup {b}
  BY <1>1, <1>2, <1>3, <1>4 DEF Range
<1> QED
  BY <1>1, <1>5, <1>6 DEF new

\* The blocks of a new arena, without the first.
LEMMA BlocksList ==
    ASSUME NEW v \in Nat
    PROVE  /\ Head(Blocks(v)) = <<v, 0>>
           /\ Tail(Blocks(v)) \in Seq(Nat \X Nat) /\ IsInjective(Tail(Blocks(v)))
           /\ Range(Tail(Blocks(v))) = ArenaBlocks(v) \ {<<v, 0>>}
<1> DEFINE list == Blocks(v)
<1>1. /\ list \in Seq(Nat \X Nat) /\ Len(list) = BlocksPerArena
      /\ DOMAIN list = 1..BlocksPerArena
      /\ \A i \in 1..BlocksPerArena : list[i] = <<v, i - 1>>
  <2>1. \A i \in 1..BlocksPerArena : <<v, i - 1>> \in Nat \X Nat
    BY Constants
  <2> QED
    BY <2>1, Constants DEF Blocks
<1> HIDE DEF list
<1>2. list # <<>> /\ Head(list) = <<v, 0>>
  <2>1. list # <<>> /\ Head(list) = list[1]
    BY <1>1, Constants
  <2>2. 1 \in 1..BlocksPerArena /\ 1 - 1 = 0
    BY Constants
  <2> QED
    BY <1>1, <2>1, <2>2
<1>3. IsInjective(list)
  <2>1. ASSUME NEW i \in 1..BlocksPerArena, NEW j \in 1..BlocksPerArena, list[i] = list[j]
        PROVE  i = j
    <3>1. i - 1 = j - 1
      BY <1>1, <2>1
    <3> QED
      BY <3>1, Constants
  <2> QED
    BY <1>1, <2>1 DEF IsInjective
<1>4. Range(list) = ArenaBlocks(v)
  <2>1. ASSUME NEW i \in 1..BlocksPerArena PROVE list[i] \in ArenaBlocks(v)
    BY <1>1, Constants DEF ArenaBlocks
  <2>2. ASSUME NEW b \in ArenaBlocks(v) PROVE \E i \in 1..BlocksPerArena : b = list[i]
    <3>1. PICK j \in 0..BlocksPerArena - 1 : b = <<v, j>>
      BY DEF ArenaBlocks
    <3>2. j + 1 \in 1..BlocksPerArena /\ (j + 1) - 1 = j
      BY Constants
    <3> QED
      BY <1>1, <3>1, <3>2
  <2> QED
    BY <1>1, <2>1, <2>2 DEF Range
<1> QED
  BY <1>1, <1>2, <1>3, <1>4, TailList DEF list

\* What is left of a list without the blocks of an arena.
LEMMA OthersList ==
    ASSUME NEW T, NEW list \in Seq(T), IsInjective(list), NEW v
    PROVE  /\ InOtherArenas(list, v) \in Seq(T) /\ IsInjective(InOtherArenas(list, v))
           /\ Range(InOtherArenas(list, v)) = {b \in Range(list) : b[1] # v}
<1> DEFINE keep == {i \in 1..Len(list) : list[i][1] # v}
           size == Cardinality(keep)
           new == [n \in 1..size |-> list[Nth(keep, n)]]
<1>1. Len(list) \in Nat /\ DOMAIN list = 1..Len(list) /\ \A i \in 1..Len(list) : list[i] \in T
  OBVIOUS
<1>2. keep \in SUBSET Nat /\ IsFiniteSet(keep) /\ size \in Nat
  <2>1. keep \in SUBSET Nat /\ keep \in SUBSET (1..Len(list)) /\ IsFiniteSet(1..Len(list))
    BY <1>1, FS_Interval
  <2> HIDE DEF keep
  <2> QED
    BY <2>1, FS_Subset, FS_CardinalityType
<1>3. \A n \in 1..size : Nth(keep, n) \in keep /\ Rank(keep, Nth(keep, n)) = n
  <2> HIDE DEF keep
  <2> QED
    BY <1>2, NthElement
<1>4. \A i \in keep : Rank(keep, i) \in 1..size /\ Nth(keep, Rank(keep, i)) = i
  <2> HIDE DEF keep
  <2>1. \A i \in keep : Rank(keep, i) \in 1..size
    BY <1>2, Ranks
  <2>2. ASSUME NEW i \in keep PROVE Nth(keep, Rank(keep, i)) = i
    <3>1. /\ Nth(keep, Rank(keep, i)) \in keep
          /\ Rank(keep, Nth(keep, Rank(keep, i))) = Rank(keep, i)
      BY <1>3, <2>1
    <3>2. \A x, y \in keep : Rank(keep, x) = Rank(keep, y) => x = y
      BY <1>2, Ranks
    <3> QED
      BY <3>1, <3>2
  <2> QED
    BY <2>1, <2>2
<1>5. InOtherArenas(list, v) = new
  BY DEF InOtherArenas
<1>6. \A i \in keep : i \in 1..Len(list) /\ list[i][1] # v
  OBVIOUS
<1>7. \A i \in 1..Len(list) : list[i][1] # v => i \in keep
  OBVIOUS
<1> HIDE DEF keep, size
<1>8. DOMAIN new = 1..size /\ \A n \in 1..size : new[n] = list[Nth(keep, n)] /\ new[n] \in T
  BY <1>1, <1>3, <1>6
<1>9. new \in Seq(T)
  BY <1>2, <1>8
<1> HIDE DEF new
<1>10. IsInjective(new)
  <2>1. ASSUME NEW a \in 1..size, NEW b \in 1..size, new[a] = new[b] PROVE a = b
    <3>1. Nth(keep, a) = Nth(keep, b)
      BY <1>1, <1>3, <1>6, <1>8, <2>1 DEF IsInjective
    <3> QED
      BY <1>3, <3>1
  <2> QED
    BY <1>8, <2>1 DEF IsInjective
<1>11. Range(new) = {b \in Range(list) : b[1] # v}
  <2>1. ASSUME NEW n \in 1..size PROVE new[n] \in {b \in Range(list) : b[1] # v}
    BY <1>1, <1>3, <1>6, <1>8 DEF Range
  <2>2. ASSUME NEW b \in Range(list), b[1] # v PROVE b \in Range(new)
    <3>1. PICK i \in 1..Len(list) : b = list[i]
      BY <1>1 DEF Range
    <3>2. i \in keep
      BY <1>7, <2>2, <3>1
    <3>3. new[Rank(keep, i)] = b /\ Rank(keep, i) \in 1..size
      BY <1>4, <1>8, <3>1, <3>2
    <3> QED
      BY <1>8, <3>3 DEF Range
  <2>3. Range(new) = {new[n] : n \in 1..size}
    BY <1>8 DEF Range
  <2> QED
    BY <2>1, <2>2, <2>3
<1> QED
  BY <1>5, <1>9, <1>10, <1>11

-----------------------------------------------------------------------------
(* The heap of a space. *)

LEMMA Headers ==
    /\ None \notin Header
    /\ \A h \in Header : h.large \in BOOLEAN /\ h.cnt \in Nat /\ h.own \in BOOLEAN
    /\ \A l \in BOOLEAN, c \in Nat : [large |-> l, cnt |-> c, own |-> TRUE] \in Header
BY MemoryAssumption DEF Header

LEMMA CountChanged ==
    ASSUME NEW h \in Header, NEW c \in Nat
    PROVE  /\ [h EXCEPT !.cnt = c] \in Header
           /\ [h EXCEPT !.cnt = c].large = h.large /\ [h EXCEPT !.cnt = c].cnt = c
           /\ [h EXCEPT !.cnt = c].own = h.own
BY DEF Header

LEMMA BlockPairs ==
    ASSUME NEW s \in Spaces, NEW b \in BlocksIn(s)
    PROVE  /\ b[1] \in Pages(s) /\ b[1] \in Nat /\ b \in ArenaBlocks(b[1]) /\ b \in Nat \X Nat
           /\ b = <<b[1], b[2]>>
<1>1. b[1] \in Pages(s) /\ b[2] \in 0..BlocksPerArena - 1 /\ b = <<b[1], b[2]>>
  BY DEF BlocksIn
<1>2. b[1] \in Nat /\ b[2] \in Nat
  BY <1>1, PagesAreNumbers, Constants
<1> QED
  BY <1>1, <1>2 DEF ArenaBlocks

LEMMA ArenaSize ==
    ASSUME NEW s \in Spaces, NEW v \in Pages(s)
    PROVE  /\ IsFiniteSet(ArenaBlocks(v)) /\ Cardinality(ArenaBlocks(v)) = BlocksPerArena
           /\ ArenaBlocks(v) \subseteq BlocksIn(s) /\ <<v, 0>> \in ArenaBlocks(v)
           /\ \A b \in ArenaBlocks(v) : b[1] = v
<1>1. IsFiniteSet(0..BlocksPerArena - 1) /\ Cardinality(0..BlocksPerArena - 1) = BlocksPerArena
  <2>1. 0 \in Int /\ BlocksPerArena - 1 \in Int /\ ~(0 > BlocksPerArena - 1)
        /\ BlocksPerArena - 1 - 0 + 1 = BlocksPerArena
    BY Constants
  <2> QED
    BY <2>1, FS_Interval
<1>2. IsFiniteSet({v}) /\ Cardinality({v}) = 1
  BY FS_Singleton
<1>3. Cardinality({v}) * Cardinality(0..BlocksPerArena - 1) = BlocksPerArena
  BY <1>1, <1>2, Constants
<1>4. IsFiniteSet(ArenaBlocks(v)) /\ Cardinality(ArenaBlocks(v)) = BlocksPerArena
  BY <1>1, <1>2, <1>3, FS_Product DEF ArenaBlocks
<1>5. /\ ArenaBlocks(v) \subseteq BlocksIn(s) /\ <<v, 0>> \in ArenaBlocks(v)
      /\ \A b \in ArenaBlocks(v) : b[1] = v
  BY Constants DEF ArenaBlocks, BlocksIn
<1> QED
  BY <1>4, <1>5

\* What Partition says of one arena.
LEMMA Arena ==
    ASSUME NEW s \in Spaces, NEW ar, NEW F, NEW L, Partition(s, ar, F, L), NEW v \in Pages(s),
           ar[v] # None
    PROVE  /\ ar[v] \in Header /\ ar[v].large \in BOOLEAN /\ ar[v].cnt \in Nat
           /\ ar[v].own \in BOOLEAN /\ ArenaRight(F, L, v, ar[v])
           /\ InArena(F, v) \subseteq ArenaBlocks(v) /\ InArena(L, v) \subseteq ArenaBlocks(v)
           /\ IsFiniteSet(InArena(F, v)) /\ IsFiniteSet(InArena(L, v))
<1>1. ar[v] \in Header
  BY DEF Partition
<1>2. InArena(F, v) \subseteq ArenaBlocks(v) /\ InArena(L, v) \subseteq ArenaBlocks(v)
  <2>1. \A b \in F \cup L : b \in ArenaBlocks(b[1])
    BY BlockPairs DEF Partition
  <2> QED
    BY <2>1 DEF InArena
<1>3. IsFiniteSet(InArena(F, v)) /\ IsFiniteSet(InArena(L, v))
  BY <1>2, ArenaSize, FS_Subset
<1> QED
  BY <1>1, <1>2, <1>3, Headers DEF Partition

\* The count of an arena is the number of its blocks that are not in use.
LEMMA CountSplit ==
    ASSUME NEW s \in Spaces, NEW ar, NEW F, NEW L, Partition(s, ar, F, L), NEW v \in Pages(s),
           ar[v] # None, ~ar[v].large
    PROVE  Cardinality(InArena(L, v)) + ar[v].cnt = BlocksPerArena
<1>1. /\ ar[v].own \in BOOLEAN /\ ArenaRight(F, L, v, ar[v])
      /\ IsFiniteSet(InArena(F, v)) /\ IsFiniteSet(InArena(L, v))
      /\ InArena(F, v) \subseteq ArenaBlocks(v) /\ InArena(L, v) \subseteq ArenaBlocks(v)
  BY Arena
<1>2. CASE ~ar[v].own
  BY <1>1, <1>2 DEF ArenaRight
<1>3. CASE ar[v].own
  <2>1. ArenaBlocks(v) \subseteq F \cup L /\ Cardinality(InArena(F, v)) = ar[v].cnt
    BY <1>1, <1>3 DEF ArenaRight
  <2>2. ArenaBlocks(v) = InArena(F, v) \cup InArena(L, v)
    BY <1>1, <2>1, ArenaSize DEF InArena
  <2>3. InArena(F, v) \cap InArena(L, v) = {}
    BY DEF InArena, Partition
  <2>4. Cardinality(InArena(F, v) \cup InArena(L, v))
            = Cardinality(InArena(F, v)) + Cardinality(InArena(L, v))
    <3>1. /\ Cardinality(InArena(F, v)) \in Nat /\ Cardinality(InArena(L, v)) \in Nat
          /\ Cardinality({}) = 0
      BY <1>1, FS_CardinalityType, FS_EmptySet
    <3>2. Cardinality(InArena(F, v) \cup InArena(L, v))
            = Cardinality(InArena(F, v)) + Cardinality(InArena(L, v)) - Cardinality({})
      BY <1>1, <2>3, FS_Union
    <3> QED
      BY <3>1, <3>2
  <2>5. Cardinality(ArenaBlocks(v)) = BlocksPerArena
    BY ArenaSize
  <2>6. Cardinality(InArena(F, v)) \in Nat /\ Cardinality(InArena(L, v)) \in Nat
    BY <1>1, FS_CardinalityType
  <2> QED
    BY <2>1, <2>2, <2>4, <2>5, <2>6
<1> QED
  BY <1>1, <1>2, <1>3

\* Header w of the arenas ar becomes h, or its count becomes c.
Headed(s, ar, new, w, h) ==
    /\ new \in [Pages(s) -> Header \cup {None}] /\ new[w] = h
    /\ \A v \in Pages(s) : v # w => new[v] = ar[v]
Counted(s, ar, new, w, c) ==
    \E h \in Header : /\ (h.large <=> ar[w].large) /\ (h.own <=> ar[w].own) /\ h.cnt = c
                      /\ Headed(s, ar, new, w, h)

\* Only blocks of arena w have moved: F and L have become G and M.
Moved(s, F, L, G, M, w) ==
    /\ G \subseteq BlocksIn(s) /\ M \subseteq BlocksIn(s) /\ G \cap M = {}
    /\ \A c \in BlocksIn(s) : c[1] # w => (c \in G <=> c \in F) /\ (c \in M <=> c \in L)

LEMMA PartitionAt ==
    ASSUME NEW s \in Spaces, NEW ar, NEW F, NEW L, Partition(s, ar, F, L),
           NEW w \in Pages(s), NEW new, NEW h, Headed(s, ar, new, w, h),
           NEW G, NEW M, Moved(s, F, L, G, M, w),
           h = None => InArena(G, w) = {} /\ InArena(M, w) = {},
           h # None => ArenaRight(G, M, w, h)
    PROVE  Partition(s, new, G, M)
<1>0. /\ new \in [Pages(s) -> Header \cup {None}] /\ new[w] = h
      /\ \A v \in Pages(s) : v # w => new[v] = ar[v]
      /\ G \in SUBSET BlocksIn(s) /\ M \in SUBSET BlocksIn(s) /\ G \cap M = {}
      /\ \A c \in BlocksIn(s) : c[1] # w => (c \in G <=> c \in F) /\ (c \in M <=> c \in L)
  BY DEF Headed, Moved
<1>1. /\ F \subseteq BlocksIn(s) /\ L \subseteq BlocksIn(s)
      /\ \A b \in F \cup L : ar[b[1]] # None
      /\ \A v \in Pages(s) : ar[v] # None => ArenaRight(F, L, v, ar[v])
  BY DEF Partition
<1>2. ASSUME NEW c \in G \cup M PROVE new[c[1]] # None
  <2>1. c \in BlocksIn(s) /\ c[1] \in Pages(s)
    BY <1>0, BlockPairs
  <2>2. CASE c[1] = w
    BY <1>0, <2>2 DEF InArena
  <2>3. CASE c[1] # w
    BY <1>0, <1>1, <2>1, <2>3
  <2> QED
    BY <2>2, <2>3
<1>3. ASSUME NEW v \in Pages(s), new[v] # None PROVE ArenaRight(G, M, v, new[v])
  <2>1. CASE v = w
    BY <1>0, <1>3, <2>1
  <2>2. CASE v # w
    <3>1. InArena(G, v) = InArena(F, v) /\ InArena(M, v) = InArena(L, v)
      BY <1>0, <1>1, <2>2 DEF InArena
    <3>2. \A c \in ArenaBlocks(v) : c \in BlocksIn(s) /\ c[1] = v
      BY ArenaSize
    <3>3. ArenaBlocks(v) \subseteq F \cup L => ArenaBlocks(v) \subseteq G \cup M
      BY <1>0, <2>2, <3>2
    <3>4. new[v] = ar[v] /\ ArenaRight(F, L, v, ar[v])
      BY <1>0, <1>1, <1>3, <2>2
    <3> QED
      BY <3>1, <3>3, <3>4 DEF ArenaRight
  <2> QED
    BY <2>1, <2>2
<1> QED
  BY <1>0, <1>2, <1>3 DEF Partition

LEMMA SetHeader ==
    ASSUME NEW s \in Spaces, NEW ar \in [Pages(s) -> Header \cup {None}], NEW w \in Pages(s),
           NEW h \in Header \cup {None}
    PROVE  Headed(s, ar, [ar EXCEPT ![w] = h], w, h)
BY DEF Headed

LEMMA SetCount ==
    ASSUME NEW s \in Spaces, NEW ar \in [Pages(s) -> Header \cup {None}], NEW w \in Pages(s),
           ar[w] # None, NEW c \in Nat
    PROVE  Counted(s, ar, [ar EXCEPT ![w].cnt = c], w, c)
<1> DEFINE h == [ar[w] EXCEPT !.cnt = c]
<1>1. ar[w] \in Header
  OBVIOUS
<1>2. h \in Header /\ h.large = ar[w].large /\ h.own = ar[w].own /\ h.cnt = c
  BY <1>1, CountChanged
<1>3. [ar EXCEPT ![w].cnt = c] = [ar EXCEPT ![w] = h]
  OBVIOUS
<1> HIDE DEF h
<1>4. Headed(s, ar, [ar EXCEPT ![w] = h], w, h)
  BY <1>2, SetHeader
<1>5. Headed(s, ar, [ar EXCEPT ![w].cnt = c], w, h)
  BY <1>3, <1>4, Zenon
<1> QED
  BY <1>2, <1>5, Zenon DEF Counted

\* A block is taken from the list of free ones.
LEMMA BlockTaken ==
    ASSUME NEW s \in Spaces, NEW ar, NEW F, NEW L, Partition(s, ar, F, L), NEW b \in F,
           NEW new, Counted(s, ar, new, b[1], ar[b[1]].cnt - 1)
    PROVE  Partition(s, new, F \ {b}, L \cup {b})
<1> DEFINE w == b[1]
           G == F \ {b}
           M == L \cup {b}
<1>1. w \in Pages(s) /\ b \in BlocksIn(s) /\ ar[w] # None
  BY BlockPairs DEF Partition
<1>2. ar[w] \in Header /\ ar[w].large \in BOOLEAN /\ ar[w].cnt \in Nat
      /\ IsFiniteSet(InArena(F, w))
  BY <1>1, Arena
<1>3. b \in InArena(F, w)
  BY DEF InArena
<1>4. ~ar[w].large /\ ar[w].own /\ ArenaRight(F, L, w, ar[w])
  BY <1>1, <1>3, Arena DEF ArenaRight
<1>5. /\ ArenaBlocks(w) \subseteq F \cup L /\ Cardinality(InArena(F, w)) = ar[w].cnt
  BY <1>4 DEF ArenaRight
<1>6. InArena(G, w) = InArena(F, w) \ {b} /\ b \in InArena(M, w)
  BY DEF InArena
<1>7. /\ \A c \in BlocksIn(s) : c[1] # w => (c \in G <=> c \in F) /\ (c \in M <=> c \in L)
      /\ G \in SUBSET BlocksIn(s) /\ M \in SUBSET BlocksIn(s)
      /\ G \cap M = {} /\ G \cup M = F \cup L
  BY DEF Partition
<1>8. PICK h \in Header : (h.large <=> ar[w].large) /\ (h.own <=> ar[w].own) /\ h.cnt = ar[w].cnt - 1
                          /\ Headed(s, ar, new, w, h)
  BY DEF Counted
<1> HIDE DEF w, G, M
<1>9. Cardinality(InArena(G, w)) = h.cnt
  <2>1. Cardinality(InArena(F, w) \ {b}) = Cardinality(InArena(F, w)) - 1
    BY <1>2, <1>3, FS_RemoveElement
  <2> QED
    BY <1>5, <1>6, <1>8, <2>1
<1>10. ArenaRight(G, M, w, h)
  BY <1>4, <1>5, <1>6, <1>7, <1>8, <1>9 DEF ArenaRight
<1>11. h # None /\ Moved(s, F, L, G, M, w)
  BY <1>7, <1>8, Headers DEF Moved
<1>12. Partition(s, new, G, M)
  BY <1>1, <1>8, <1>10, <1>11, PartitionAt
<1> QED
  BY <1>12 DEF G, M

\* A new arena of which the first block is in use.
LEMMA ArenaCut ==
    ASSUME NEW s \in Spaces, NEW ar, NEW L, Partition(s, ar, {}, L), NEW w \in Pages(s),
           ar[w] = None, NEW new, NEW h \in Header, ~h.large, h.own, h.cnt = BlocksPerArena - 1,
           Headed(s, ar, new, w, h)
    PROVE  Partition(s, new, ArenaBlocks(w) \ {<<w, 0>>}, L \cup {<<w, 0>>})
<1> DEFINE b == <<w, 0>>
           G == ArenaBlocks(w) \ {b}
           M == L \cup {b}
<1>1. /\ IsFiniteSet(ArenaBlocks(w)) /\ Cardinality(ArenaBlocks(w)) = BlocksPerArena
      /\ ArenaBlocks(w) \subseteq BlocksIn(s) /\ b \in ArenaBlocks(w)
      /\ \A c \in ArenaBlocks(w) : c[1] = w
  BY ArenaSize
<1>2. L \subseteq BlocksIn(s) /\ \A c \in L : c[1] # w
  BY DEF Partition
<1> HIDE DEF b
<1>3. /\ G \in SUBSET BlocksIn(s) /\ M \in SUBSET BlocksIn(s) /\ G \cap M = {}
      /\ \A c \in BlocksIn(s) : c[1] # w => (c \in G <=> c \in {}) /\ (c \in M <=> c \in L)
      /\ InArena(G, w) = G /\ b \in InArena(M, w) /\ ArenaBlocks(w) \subseteq G \cup M
  BY <1>1, <1>2 DEF InArena
<1>4. Cardinality(G) = h.cnt
  BY <1>1, FS_RemoveElement
<1> HIDE DEF G, M
<1>5. ArenaRight(G, M, w, h)
  BY <1>3, <1>4 DEF ArenaRight
<1>6. h # None /\ Moved(s, {}, L, G, M, w)
  BY <1>3, Headers DEF Moved
<1>7. Partition(s, new, G, M)
  BY <1>5, <1>6, PartitionAt
<1> QED
  BY <1>7 DEF G, M, b

\* A large allocation.
LEMMA LargeMade ==
    ASSUME NEW s \in Spaces, NEW ar, NEW F, NEW L, Partition(s, ar, F, L), NEW w \in Pages(s),
           ar[w] = None, NEW new, NEW h \in Header, h.large, h.cnt # 0,
           Headed(s, ar, new, w, h)
    PROVE  Partition(s, new, F, L \cup {<<w, 0>>})
<1> DEFINE b == <<w, 0>>
           M == L \cup {b}
<1>1. b \in BlocksIn(s) /\ b[1] = w
  BY ArenaSize
<1>2. /\ F \in SUBSET BlocksIn(s) /\ L \in SUBSET BlocksIn(s) /\ F \cap L = {}
      /\ \A c \in F \cup L : c[1] # w
  BY DEF Partition
<1> HIDE DEF b
<1>3. /\ M \in SUBSET BlocksIn(s) /\ F \cap M = {}
      /\ \A c \in BlocksIn(s) : c[1] # w => (c \in M <=> c \in L)
      /\ InArena(F, w) = {} /\ InArena(M, w) \subseteq {b}
  BY <1>1, <1>2 DEF InArena
<1> HIDE DEF M
<1>4. ArenaRight(F, M, w, h)
  BY <1>3 DEF ArenaRight, b
<1>5. h # None /\ Moved(s, F, L, F, M, w)
  BY <1>2, <1>3, Headers DEF Moved
<1>6. Partition(s, new, F, M)
  BY <1>4, <1>5, PartitionAt
<1> QED
  BY <1>6 DEF M, b

\* A block is given back that is not the last in use of its arena.
LEMMA BlockFreed ==
    ASSUME NEW s \in Spaces, NEW ar, NEW F, NEW L, Partition(s, ar, F, L), NEW b \in L,
           ~ar[b[1]].large, ar[b[1]].own, ar[b[1]].cnt + 1 # BlocksPerArena,
           NEW new, Counted(s, ar, new, b[1], ar[b[1]].cnt + 1)
    PROVE  Partition(s, new, F \cup {b}, L \ {b})
<1> DEFINE w == b[1]
           G == F \cup {b}
           M == L \ {b}
<1>1. w \in Pages(s) /\ b \in BlocksIn(s) /\ ar[w] # None /\ b \notin F
  BY BlockPairs DEF Partition
<1>2. ar[w] \in Header /\ ar[w].cnt \in Nat /\ IsFiniteSet(InArena(F, w))
  BY <1>1, Arena
<1>3. /\ ArenaBlocks(w) \subseteq F \cup L /\ Cardinality(InArena(F, w)) = ar[w].cnt
  <2>1. ArenaRight(F, L, w, ar[w])
    BY <1>1, Arena
  <2> QED
    BY <2>1 DEF ArenaRight
<1>4. InArena(G, w) = InArena(F, w) \cup {b} /\ b \notin InArena(F, w)
  BY <1>1 DEF InArena
<1>5. /\ \A c \in BlocksIn(s) : c[1] # w => (c \in G <=> c \in F) /\ (c \in M <=> c \in L)
      /\ G \in SUBSET BlocksIn(s) /\ M \in SUBSET BlocksIn(s)
      /\ G \cap M = {} /\ G \cup M = F \cup L
  BY <1>1 DEF Partition
<1>6. PICK h \in Header : (h.large <=> ar[w].large) /\ (h.own <=> ar[w].own) /\ h.cnt = ar[w].cnt + 1
                          /\ Headed(s, ar, new, w, h)
  BY DEF Counted
<1>7. ~ar[w].large /\ ar[w].own /\ ar[w].cnt + 1 # BlocksPerArena
  OBVIOUS
<1> HIDE DEF w, G, M
<1>8. Cardinality(InArena(G, w)) = h.cnt
  <2>1. Cardinality(InArena(F, w) \cup {b}) = Cardinality(InArena(F, w)) + 1
    BY <1>2, <1>4, FS_AddElement
  <2> QED
    BY <1>3, <1>4, <1>6, <2>1
<1>9. InArena(M, w) # {}
  <2>1. SUFFICES ASSUME InArena(M, w) = {} PROVE FALSE
    OBVIOUS
  <2>2. InArena(G, w) \subseteq ArenaBlocks(w)
    <3>1. \A c \in G : c \in ArenaBlocks(c[1])
      BY <1>5, BlockPairs
    <3> QED
      BY <3>1 DEF InArena
  <2>3. ArenaBlocks(w) \subseteq InArena(G, w)
    BY <1>1, <1>3, <1>5, <2>1, ArenaSize DEF InArena
  <2>4. Cardinality(InArena(G, w)) = BlocksPerArena
    <3>1. InArena(G, w) = ArenaBlocks(w)
      BY <2>2, <2>3
    <3> QED
      BY <1>1, <3>1, ArenaSize
  <2> QED
    BY <1>6, <1>7, <1>8, <2>4
<1>10. ArenaRight(G, M, w, h)
  BY <1>3, <1>5, <1>6, <1>7, <1>8, <1>9 DEF ArenaRight
<1>11. h # None /\ Moved(s, F, L, G, M, w)
  BY <1>5, <1>6, Headers DEF Moved
<1>12. Partition(s, new, G, M)
  BY <1>1, <1>6, <1>10, <1>11, PartitionAt
<1> QED
  BY <1>12 DEF G, M

\* The last block in use of an arena, or a large allocation, is given back.
LEMMA ArenaFreed ==
    ASSUME NEW s \in Spaces, NEW ar, NEW F, NEW L, Partition(s, ar, F, L), NEW b \in L,
           ar[b[1]].large \/ (ar[b[1]].own /\ ar[b[1]].cnt + 1 = BlocksPerArena),
           NEW new, Headed(s, ar, new, b[1], None)
    PROVE  Partition(s, new, {c \in F \cup {b} : c[1] # b[1]}, L \ {b})
<1> DEFINE w == b[1]
           G == {c \in F \cup {b} : c[1] # w}
           M == L \ {b}
<1>1. w \in Pages(s) /\ b \in BlocksIn(s) /\ ar[w] # None /\ b \notin F
  BY BlockPairs DEF Partition
<1>2. /\ ar[w] \in Header /\ ar[w].cnt \in Nat /\ IsFiniteSet(InArena(F, w))
      /\ ArenaRight(F, L, w, ar[w])
      /\ InArena(F, w) \subseteq ArenaBlocks(w) /\ InArena(L, w) \subseteq ArenaBlocks(w)
  BY <1>1, Arena
<1>3. /\ \A c \in BlocksIn(s) : c[1] # w => (c \in G <=> c \in F) /\ (c \in M <=> c \in L)
      /\ G \in SUBSET BlocksIn(s) /\ M \in SUBSET BlocksIn(s) /\ G \cap M = {}
      /\ InArena(G, w) = {}
  BY <1>1 DEF Partition, InArena
<1>4. ar[w].large \/ (ar[w].own /\ ar[w].cnt + 1 = BlocksPerArena)
  OBVIOUS
<1>5. b \in InArena(L, w) /\ InArena(M, w) = InArena(L, w) \ {b}
  BY DEF InArena
<1> HIDE DEF w, G, M
<1>6. InArena(L, w) \subseteq {b}
  <2>1. CASE ar[w].large
    BY <1>2, <1>5, <2>1 DEF ArenaRight
  <2>2. CASE ~ar[w].large
    <3>1. ar[w].cnt + 1 = BlocksPerArena /\ Cardinality(InArena(F, w)) = ar[w].cnt
      BY <1>2, <1>4, <2>2 DEF ArenaRight
    <3>2. b \notin InArena(F, w)
      BY <1>1 DEF InArena
    <3>3. Cardinality(InArena(F, w) \cup {b}) = BlocksPerArena
      <4>1. IsFiniteSet(InArena(F, w)) /\ ar[w].cnt \in Nat
        BY <1>2
      <4>2. Cardinality(InArena(F, w) \cup {b}) = Cardinality(InArena(F, w)) + 1
        BY <3>2, <4>1, FS_AddElement
      <4> QED
        BY <3>1, <4>1, <4>2
    <3>4. /\ IsFiniteSet(ArenaBlocks(w)) /\ Cardinality(ArenaBlocks(w)) = BlocksPerArena
          /\ InArena(F, w) \cup {b} \in SUBSET ArenaBlocks(w)
      <4>1. b \in ArenaBlocks(w)
        BY <1>2, <1>5
      <4> QED
        BY <1>1, <1>2, <4>1, ArenaSize
    <3>5. ArenaBlocks(w) = InArena(F, w) \cup {b}
      BY <3>3, <3>4, FS_Subset
    <3>6. InArena(F, w) \cap InArena(L, w) = {}
      BY DEF InArena, Partition
    <3> QED
      BY <1>2, <3>5, <3>6
  <2> QED
    BY <2>1, <2>2
<1>7. InArena(M, w) = {}
  BY <1>5, <1>6
<1>8. Headed(s, ar, new, w, None) /\ Moved(s, F, L, G, M, w)
  BY <1>3 DEF Moved, w
<1>9. Partition(s, new, G, M)
  BY <1>1, <1>3, <1>7, <1>8, PartitionAt
<1> QED
  BY <1>9 DEF G, M, w

-----------------------------------------------------------------------------
(* The pages of arenas. *)

LEMMA ArenasStay ==
    ASSUME NEW m, NEW n, NEW s \in Spaces, NEW ar, ArenasMapped(m, s, ar), NEW K,
           Apart(s, ar, K),
           \A v \in Pages(s) : IsMapped(m, s, v) /\ v \notin K => IsMapped(n, s, v)
    PROVE  ArenasMapped(n, s, ar)
<1>1. ASSUME NEW v \in Pages(s), ar[v] # None
      PROVE  ArenaPages(ar, v) \subseteq Pages(s) /\ \A w \in ArenaPages(ar, v) : IsMapped(n, s, w)
  BY <1>1 DEF ArenasMapped, Apart
<1> QED
  BY <1>1 DEF ArenasMapped

\* A page that is mapped now is in an arena, or was mapped and in none before.
Covered(m, n, s, ar, new) ==
    \A v \in Pages(s) : IsMapped(n, s, v) =>
        InArenas(s, new, v) \/ (IsMapped(m, s, v) /\ ~InArenas(s, ar, v))

\* An arena's pages do not depend on the number of its free blocks.
LEMMA CountedPages ==
    ASSUME NEW s \in Spaces, NEW ar, NEW new, NEW w \in Pages(s), ar[w] # None, ~ar[w].large,
           NEW c, Counted(s, ar, new, w, c)
    PROVE  /\ \A m : ArenasMapped(m, s, ar) => ArenasMapped(m, s, new)
           /\ \A K : Apart(s, ar, K) => Apart(s, new, K)
           /\ \A m : Covered(m, m, s, ar, new)
<1>1. PICK h \in Header : (h.large <=> ar[w].large) /\ Headed(s, ar, new, w, h)
  BY DEF Counted
<1>2. h # None
  BY Headers
<1>3. \A v \in Pages(s) : new[v] # None <=> ar[v] # None
  BY <1>1, <1>2 DEF Headed
<1>4. \A v \in Pages(s) : ArenaPages(new, v) = ArenaPages(ar, v)
  BY <1>1 DEF Headed, ArenaPages
<1>5. \A m : ArenasMapped(m, s, ar) => ArenasMapped(m, s, new)
  BY <1>3, <1>4 DEF ArenasMapped
<1>6. \A K : Apart(s, ar, K) => Apart(s, new, K)
  BY <1>3, <1>4 DEF Apart
<1>7. \A m : Covered(m, m, s, ar, new)
  BY <1>3, <1>4 DEF Covered, InArenas
<1> QED
  BY <1>5, <1>6, <1>7

HeaderPages(h, w) == w..w + (IF h.large THEN h.cnt ELSE 1) - 1

\* An arena begins in a page that was not mapped.
LEMMA NoArenaYet ==
    ASSUME NEW s \in Spaces, NEW m, NEW ar, NEW F, NEW L, Partition(s, ar, F, L),
           ArenasMapped(m, s, ar), NEW w \in Pages(s), ~IsMapped(m, s, w)
    PROVE  ar[w] = None
<1>1. SUFFICES ASSUME ar[w] # None PROVE FALSE
  OBVIOUS
<1>2. ar[w].large \in BOOLEAN /\ ar[w].cnt \in Nat
  BY <1>1, Arena
<1>3. ar[w].large => ar[w].cnt # 0
  BY <1>1, Arena DEF ArenaRight
<1>4. w \in Nat
  BY PagesAreNumbers
<1>5. w \in ArenaPages(ar, w)
  BY <1>2, <1>3, <1>4 DEF ArenaPages
<1> QED
  BY <1>1, <1>5 DEF ArenasMapped

LEMMA ArenaAdded ==
    ASSUME NEW s \in Spaces, NEW m, NEW n, NEW ar, ArenasMapped(m, s, ar), NEW w \in Pages(s),
           ar[w] = None, NEW h \in Header, NEW new, Headed(s, ar, new, w, h),
           Grown(m, n, s, HeaderPages(h, w))
    PROVE  /\ ArenasMapped(n, s, new)
           /\ \A K : Apart(s, ar, K) /\ K \cap HeaderPages(h, w) = {} => Apart(s, new, K)
           /\ Covered(m, n, s, ar, new)
<1>1. /\ h # None /\ new[w] = h /\ \A v \in Pages(s) : v # w => new[v] = ar[v]
      /\ ArenaPages(new, w) = HeaderPages(h, w)
  BY Headers DEF Headed, ArenaPages, HeaderPages
<1>2. \A v \in Pages(s) : v # w => ArenaPages(new, v) = ArenaPages(ar, v)
  BY <1>1 DEF ArenaPages
<1> DEFINE run == HeaderPages(h, w)
<1>3. /\ run \subseteq Pages(s) /\ \A v \in run : ~IsMapped(m, s, v)
      /\ \A v \in Pages(s) : IsMapped(n, s, v) <=> IsMapped(m, s, v) \/ v \in run
  BY DEF Grown
<1> HIDE DEF run
<1>4. ASSUME NEW v \in Pages(s), new[v] # None
      PROVE  ArenaPages(new, v) \subseteq Pages(s) /\ \A u \in ArenaPages(new, v) : IsMapped(n, s, u)
  <2>1. CASE v = w
    BY <1>1, <1>3, <2>1 DEF run
  <2>2. CASE v # w
    BY <1>1, <1>2, <1>3, <1>4, <2>2 DEF ArenasMapped
  <2> QED
    BY <2>1, <2>2
<1>5. ASSUME NEW v \in Pages(s), ar[v] # None PROVE ArenaPages(ar, v) \cap run = {}
  BY <1>3, <1>5 DEF ArenasMapped
<1>6. ASSUME NEW u \in Pages(s), NEW v \in Pages(s), new[u] # None, new[v] # None, u # v
      PROVE  ArenaPages(new, u) \cap ArenaPages(new, v) = {}
  <2>1. CASE u = w
    BY <1>1, <1>2, <1>5, <1>6, <2>1 DEF run
  <2>2. CASE v = w
    BY <1>1, <1>2, <1>5, <1>6, <2>2 DEF run
  <2>3. CASE u # w /\ v # w
    BY <1>1, <1>2, <1>6, <2>3 DEF ArenasMapped
  <2> QED
    BY <2>1, <2>2, <2>3
<1>7. ASSUME NEW K, Apart(s, ar, K), K \cap run = {} PROVE Apart(s, new, K)
  BY <1>1, <1>2, <1>7 DEF Apart, run
<1>8. Covered(m, n, s, ar, new)
  <2>1. ASSUME NEW v \in Pages(s), IsMapped(n, s, v)
        PROVE  InArenas(s, new, v) \/ (IsMapped(m, s, v) /\ ~InArenas(s, ar, v))
    <3>1. CASE v \in run
      BY <1>1, <3>1 DEF InArenas, run
    <3>2. CASE InArenas(s, ar, v)
      <4>1. PICK u \in Pages(s) : ar[u] # None /\ v \in ArenaPages(ar, u)
        BY <3>2 DEF InArenas
      <4>2. u # w
        BY <4>1
      <4> QED
        BY <1>1, <1>2, <4>1, <4>2 DEF InArenas
    <3> QED
      BY <1>3, <2>1, <3>1, <3>2
  <2> QED
    BY <2>1 DEF Covered
<1> QED
  BY <1>4, <1>6, <1>7, <1>8 DEF ArenasMapped, run

LEMMA ArenaGone ==
    ASSUME NEW s \in Spaces, NEW m, NEW n, NEW ar, ArenasMapped(m, s, ar), NEW w \in Pages(s),
           ar[w] # None, NEW new, Headed(s, ar, new, w, None),
           Shrunk(m, n, s, ArenaPages(ar, w))
    PROVE  /\ ArenasMapped(n, s, new)
           /\ \A K : Apart(s, ar, K) => Apart(s, new, K)
           /\ Covered(m, n, s, ar, new)
<1>1. new[w] = None /\ \A v \in Pages(s) : v # w => new[v] = ar[v]
  BY DEF Headed
<1>2. \A v \in Pages(s) : v # w => ArenaPages(new, v) = ArenaPages(ar, v)
  BY <1>1 DEF ArenaPages
<1>3. \A v \in Pages(s) : IsMapped(n, s, v) <=> IsMapped(m, s, v) /\ v \notin ArenaPages(ar, w)
  BY DEF Shrunk
<1>4. ASSUME NEW v \in Pages(s), new[v] # None
      PROVE  ArenaPages(new, v) \subseteq Pages(s) /\ \A u \in ArenaPages(new, v) : IsMapped(n, s, u)
  BY <1>1, <1>2, <1>3, <1>4 DEF ArenasMapped
<1>5. ASSUME NEW u \in Pages(s), NEW v \in Pages(s), new[u] # None, new[v] # None, u # v
      PROVE  ArenaPages(new, u) \cap ArenaPages(new, v) = {}
  BY <1>1, <1>2, <1>5 DEF ArenasMapped
<1>6. ASSUME NEW K, Apart(s, ar, K) PROVE Apart(s, new, K)
  BY <1>1, <1>2, <1>6 DEF Apart
<1>7. Covered(m, n, s, ar, new)
  <2>1. ASSUME NEW v \in Pages(s), IsMapped(n, s, v), InArenas(s, ar, v)
        PROVE  InArenas(s, new, v)
    <3>1. PICK u \in Pages(s) : ar[u] # None /\ v \in ArenaPages(ar, u)
      BY <2>1 DEF InArenas
    <3>2. u # w
      BY <1>3, <2>1, <3>1
    <3> QED
      BY <1>1, <1>2, <3>1, <3>2 DEF InArenas
  <2> QED
    BY <1>3, <2>1 DEF Covered
<1> QED
  BY <1>4, <1>5, <1>6, <1>7 DEF ArenasMapped

-----------------------------------------------------------------------------
(* The calls of the heap. *)

\* A state in which nothing has gone wrong yet, and all of its invariant but
\* that a frame is given out once.
Fine == MemInv /\ broken = "no"
Other ==
    /\ MemType(mem) /\ BitsRight(mem, Users) /\ ProcInv /\ BootInv /\ HeapInv
    /\ KernelArenas /\ EmptyHeaps /\ LostInv /\ ExitInv

LEMMA FineParts ==
    ASSUME Fine
    PROVE  /\ Sound(mem, Users) /\ Users \in SUBSET Spaces /\ Kernel \in Users
           /\ ProcInv /\ BootInv /\ HeapInv /\ KernelArenas /\ EmptyHeaps /\ LostInv /\ ExitInv
<1>1. Users \in SUBSET Spaces /\ Kernel \in Users
  BY Constants DEF Users
<1> QED
  BY <1>1 DEF Fine, MemInv, Sound

LEMMA StaysFine ==
    ASSUME broken' = "no", Other', Once(Holds(mem, Users), mem.taken)'
    PROVE  MemInv'
BY DEF MemInv, Other

\* The memory does not depend on main's allocation otherwise.
LEMMA SoundNext ==
    ASSUME NEW U, Users' = U, main' = main, Sound(mem', U)
    PROVE  /\ MemType(mem)' /\ BitsRight(mem, Users)'
           /\ Once(Holds(mem, Users), mem.taken)'
<1>1. \A s, v : Waiting(s, v)' <=> Waiting(s, v)
  BY DEF Waiting
<1>2. MemType(mem') /\ Once(Holds(mem', U), mem'.taken) /\ BitsRight(mem', U)
  BY DEF Sound
<1>3. BitsRight(mem, Users)'
  BY <1>1, <1>2 DEF BitsRight
<1> QED
  BY <1>2, <1>3

HeapsElsewhere(s) ==
    /\ DOMAIN arena' = Spaces /\ DOMAIN free_list' = Spaces /\ DOMAIN live' = Spaces
    /\ \A t \in Spaces : t # s =>
          arena'[t] = arena[t] /\ free_list'[t] = free_list[t] /\ live'[t] = live[t]

\* The pages of the kernel that are in no arena stay as they are.
Kept(n, new) ==
    \A K \in SUBSET Pages(Kernel) :
        Apart(Kernel, arena[Kernel], K) /\ (\A v \in K : IsMapped(mem, Kernel, v)) =>
            Apart(Kernel, new, K) /\ \A v \in K : IsMapped(n, Kernel, v)

\* The heap and the pages of one space change.
HeapChange(s) ==
    /\ Elsewhere(mem, mem', s) /\ HeapsElsewhere(s)
    /\ HeapRight(mem', s, arena'[s], free_list'[s], live'[s])
    /\ s = Kernel => /\ Kept(mem', arena'[Kernel])
                     /\ Covered(mem, mem', Kernel, arena[Kernel], arena'[Kernel])

LEMMA HeapStep ==
    ASSUME Fine, NEW s \in Users, s = Kernel \/ proc[s].state = "alive",
           UNCHANGED <<proc, ptt, forks, lost>>,
           main' = main \/ main' = [main EXCEPT !.pc = "out"], s = Kernel => main'.pc = "out",
           MemType(mem)', BitsRight(mem, Users)', HeapChange(s)
    PROVE  Other'
<1>0. /\ ProcInv /\ BootInv /\ HeapInv /\ KernelArenas /\ EmptyHeaps /\ LostInv /\ ExitInv
      /\ s \in Spaces
  BY FineParts
<1>1. /\ Users' = Users /\ \A p : KernelPagesOf(p)' = KernelPagesOf(p)
      /\ \A p : BitsOf(p)' = BitsOf(p)
  BY DEF Users, KernelPagesOf, BitsOf
<1>2. /\ Elsewhere(mem, mem', s) /\ HeapsElsewhere(s)
      /\ s # Kernel => /\ mem'.pte[Kernel] = mem.pte[Kernel]
                       /\ arena'[Kernel] = arena[Kernel] /\ free_list'[Kernel] = free_list[Kernel]
  BY Constants DEF HeapChange, Elsewhere, HeapsElsewhere
<1>3. ASSUME NEW K \in SUBSET Pages(Kernel), Apart(Kernel, arena[Kernel], K),
             \A v \in K : IsMapped(mem, Kernel, v)
      PROVE  Apart(Kernel, arena'[Kernel], K) /\ \A v \in K : IsMapped(mem', Kernel, v)
  <2>1. CASE s = Kernel
    BY <1>3, <2>1 DEF HeapChange, Kept
  <2>2. CASE s # Kernel
    BY <1>2, <1>3, <2>2 DEF IsMapped
  <2> QED
    BY <2>1, <2>2
<1>4. ASSUME NEW p \in Procs, proc[p].state # "none"
      PROVE  /\ \A v \in KernelPagesOf(p) : IsMapped(mem', Kernel, v)
             /\ Apart(Kernel, arena'[Kernel], KernelPagesOf(p))
  <2>1. /\ KernelPagesOf(p) \in SUBSET Pages(Kernel)
        /\ \A v \in KernelPagesOf(p) : IsMapped(mem, Kernel, v)
        /\ Apart(Kernel, arena[Kernel], KernelPagesOf(p))
    BY <1>0, <1>4 DEF ProcInv, KernelArenas
  <2> QED
    BY <1>3, <2>1
<1>5. ProcInv'
  <2>1. ASSUME NEW p \in Procs, proc[p].state \in {"none", "ready", "starting"}
        PROVE  Blank(mem', p)
    <3>1. Blank(mem, p) /\ p # s /\ p \in Spaces
      BY <1>0, <2>1, Constants DEF ProcInv, Spaces
    <3> QED
      BY <1>2, <3>1 DEF Blank, Elsewhere
  <2>2. /\ proc \in [Procs -> [state : {"none", "ready", "starting", "alive", "hanging"},
                              pcb : Nat, bits : Nat, pgdir : Nat]]
        /\ \A p \in Procs : proc[p].state \in {"ready", "starting"} => p = InitProc
        /\ \A p \in Procs : proc[p].state # "none" => KernelPagesOf(p) \subseteq Pages(Kernel)
        /\ \A p \in Procs : proc[p].state # "none" /\ proc[p].state # "hanging" =>
               {proc[p].pcb, proc[p].pgdir} \cap BitsOf(p) = {}
        /\ \A p, q \in Procs :
              p # q /\ proc[p].state # "none" /\ proc[q].state # "none" =>
                  KernelPagesOf(p) \cap KernelPagesOf(q) = {}
    BY <1>0 DEF ProcInv
  <2> QED
    BY <1>1, <1>4, <2>1, <2>2 DEF ProcInv
<1>6. BootInv'
  <2>1. /\ main \in [pc : {"out", "scan", "set"}, vaddr : Nat, frame : Nat]
        /\ InitAlone /\ (proc[InitProc].state = "starting" => ptt \in KernelPool /\ UserRoom)
    BY <1>0 DEF BootInv
  <2>2. main' \in [pc : {"out", "scan", "set"}, vaddr : Nat, frame : Nat]
    BY <2>1
  <2>3. InitAlone'
    BY <2>1 DEF InitAlone, Starting
  <2>4. CASE main'.pc = "out"
    BY <2>1, <2>2, <2>3, <2>4 DEF BootInv, UserRoom
  <2>5. CASE main'.pc # "out"
    <3>1. main' = main /\ s # Kernel
      BY <2>1, <2>5
    <3>2. /\ main.pc # "out" => /\ main.vaddr \in Pages(Kernel)
                                /\ ~IsMapped(mem', Kernel, main.vaddr)
                                /\ free_list'[Kernel] = <<>>
          /\ main.pc = "set" => /\ main.frame \in KernelPool
                                /\ \A v \in Pages(Kernel) : mem'.pte[Kernel][v] # main.frame
      BY <1>0, <1>2, <3>1 DEF BootInv, IsMapped
    <3> QED
      BY <2>1, <2>2, <2>3, <3>1, <3>2 DEF BootInv, UserRoom
  <2> QED
    BY <2>4, <2>5
<1>7. HeapInv'
  <2>1. ASSUME NEW t \in Spaces, t # s
        PROVE  HeapRight(mem', t, arena'[t], free_list'[t], live'[t])
    <3>1. HeapRight(mem, t, arena[t], free_list[t], live[t])
      BY <1>0 DEF HeapInv
    <3>2. \A v : IsMapped(mem', t, v) <=> IsMapped(mem, t, v)
      BY <1>2, <2>1 DEF Elsewhere, IsMapped
    <3>3. ArenasMapped(mem', t, arena[t])
      BY <3>1, <3>2 DEF HeapRight, ArenasMapped
    <3>4. arena'[t] = arena[t] /\ free_list'[t] = free_list[t] /\ live'[t] = live[t]
      BY <1>2, <2>1 DEF HeapsElsewhere
    <3> QED
      BY <3>1, <3>3, <3>4 DEF HeapRight
  <2>2. HeapRight(mem', s, arena'[s], free_list'[s], live'[s])
    BY DEF HeapChange
  <2> QED
    BY <1>2, <2>1, <2>2 DEF HeapInv, HeapsElsewhere
<1>8. KernelArenas'
  BY <1>1, <1>4 DEF KernelArenas
<1>9. EmptyHeaps'
  <2>1. ASSUME NEW p \in Procs, proc[p].state = "hanging" PROVE arena'[p] = arena[p]
    BY <1>2, <2>1, Constants DEF HeapsElsewhere, Spaces
  <2> QED
    BY <1>0, <2>1 DEF EmptyHeaps
<1>10. LostInv'
  <2>1. Left' = Left /\ \A v : OfProcess(v)' <=> OfProcess(v)
    BY <1>1 DEF Left, OfProcess
  <2>2. /\ Left \in SUBSET Pages(Kernel) /\ IdlePage \notin lost
        /\ \A v \in Left : IsMapped(mem, Kernel, v) /\ ~OfProcess(v)
        /\ Apart(Kernel, arena[Kernel], Left)
    BY <1>0 DEF LostInv
  <2>3. Apart(Kernel, arena'[Kernel], Left) /\ \A v \in Left : IsMapped(mem', Kernel, v)
    BY <1>3, <2>2
  <2>4. ASSUME NEW v \in Pages(Kernel), IsMapped(mem', Kernel, v)
        PROVE  v \in Left \/ OfProcess(v) \/ InArenas(Kernel, arena'[Kernel], v)
    <3>1. \A u \in Pages(Kernel) : IsMapped(mem, Kernel, u) =>
              u \in Left \/ OfProcess(u) \/ InArenas(Kernel, arena[Kernel], u)
      BY <1>0 DEF LostInv
    <3>2. CASE s = Kernel
      BY <2>4, <3>1, <3>2 DEF HeapChange, Covered
    <3>3. CASE s # Kernel
      BY <1>2, <2>4, <3>1, <3>3 DEF IsMapped
    <3> QED
      BY <3>2, <3>3
  <2>5. IdlePage' = IdlePage
    BY DEF IdlePage
  <2> QED
    BY <2>1, <2>2, <2>3, <2>4, <2>5 DEF LostInv
<1>11. ExitInv'
  BY <1>0 DEF ExitInv, Children
<1> QED
  BY <1>5, <1>6, <1>7, <1>8, <1>9, <1>10, <1>11 DEF Other

\* Nothing but the heap and the pages of one space change.
LEMMA HeapCall ==
    ASSUME Fine, NEW s \in Users, s = Kernel \/ proc[s].state = "alive",
           s = Kernel => main.pc = "out",
           UNCHANGED <<proc, main, ptt, forks, lost, broken>>, Sound(mem', Users), HeapChange(s)
    PROVE  MemInv'
<1>1. Users' = Users /\ broken' = "no"
  BY DEF Users, Fine
<1>2. /\ MemType(mem)' /\ BitsRight(mem, Users)'
      /\ Once(Holds(mem, Users), mem.taken)'
  BY <1>1, SoundNext
<1>3. Other'
  BY <1>2, HeapStep
<1> QED
  BY <1>1, <1>2, <1>3, StaysFine

LEMMA HeapParts ==
    ASSUME HeapInv, NEW s \in Spaces
    PROVE  /\ DOMAIN arena = Spaces /\ DOMAIN free_list = Spaces /\ DOMAIN live = Spaces
           /\ free_list[s] \in Seq(Nat \X Nat) /\ IsInjective(free_list[s])
           /\ Partition(s, arena[s], Range(free_list[s]), live[s])
           /\ ArenasMapped(mem, s, arena[s])
           /\ arena[s] \in [Pages(s) -> Header \cup {None}]
           /\ live[s] \subseteq BlocksIn(s) /\ Range(free_list[s]) \subseteq BlocksIn(s)
<1>1. /\ DOMAIN arena = Spaces /\ DOMAIN free_list = Spaces /\ DOMAIN live = Spaces
      /\ HeapRight(mem, s, arena[s], free_list[s], live[s])
  BY DEF HeapInv
<1> QED
  BY <1>1 DEF HeapRight, Partition

LEMMA TakeBlockFields ==
    ASSUME NEW s \in Spaces, NEW blocks, NEW headers, TakeBlock(s, blocks, headers),
           DOMAIN headers = Spaces, headers[s] \in [Pages(s) -> Header \cup {None}],
           DOMAIN free_list = Spaces, DOMAIN live = Spaces,
           Head(blocks)[1] \in Pages(s), headers[s][Head(blocks)[1]] # None,
           headers[s][Head(blocks)[1]].cnt - 1 \in Nat,
           \A t \in Spaces : t # s => headers[t] = arena[t]
    PROVE  /\ free_list'[s] = Tail(blocks) /\ live'[s] = live[s] \cup {Head(blocks)}
           /\ Counted(s, headers[s], arena'[s], Head(blocks)[1],
                      headers[s][Head(blocks)[1]].cnt - 1)
           /\ HeapsElsewhere(s)
<1> DEFINE b == Head(blocks)
           w == b[1]
           c == headers[s][w].cnt - 1
           new == [headers[s] EXCEPT ![w].cnt = c]
<1>1. arena' = [headers EXCEPT ![s] = new]
  BY DEF TakeBlock
<1>2. /\ free_list' = [free_list EXCEPT ![s] = Tail(blocks)]
      /\ live' = [live EXCEPT ![s] = live[s] \cup {b}]
  BY DEF TakeBlock
<1>3. Counted(s, headers[s], new, w, c)
  BY SetCount
<1> HIDE DEF new, c, w, b
<1>4. arena'[s] = new /\ DOMAIN arena' = Spaces /\ \A t \in Spaces : t # s => arena'[t] = arena[t]
  BY <1>1
<1>5. /\ free_list'[s] = Tail(blocks) /\ live'[s] = live[s] \cup {b}
      /\ DOMAIN free_list' = Spaces /\ DOMAIN live' = Spaces
      /\ \A t \in Spaces : t # s => free_list'[t] = free_list[t] /\ live'[t] = live[t]
  BY <1>2
<1>6. Counted(s, headers[s], arena'[s], w, c)
  BY <1>3, <1>4
<1> QED
  BY <1>4, <1>5, <1>6 DEF HeapsElsewhere, b, w, c

\* sys_malloc with a block in the list.
LEMMA MallocFromList ==
    ASSUME Fine, NEW s \in Users, s = Kernel \/ proc[s].state = "alive",
           s = Kernel => main.pc = "out",
           UNCHANGED <<proc, main, ptt, forks, lost, broken, mem>>,
           free_list[s] # <<>>, TakeBlock(s, free_list[s], arena)
    PROVE  MemInv'
<1> DEFINE list == free_list[s]
           b == Head(list)
           w == b[1]
           ar == arena[s]
           c == ar[w].cnt - 1
<1>0. s \in Spaces /\ HeapInv /\ Sound(mem, Users)
  BY FineParts DEF Users
<1>1. /\ DOMAIN arena = Spaces /\ DOMAIN free_list = Spaces /\ DOMAIN live = Spaces
      /\ list \in Seq(Nat \X Nat) /\ IsInjective(list)
      /\ Partition(s, ar, Range(list), live[s]) /\ ArenasMapped(mem, s, ar)
      /\ ar \in [Pages(s) -> Header \cup {None}] /\ Range(list) \subseteq BlocksIn(s)
  BY <1>0, HeapParts
<1>2. /\ Tail(list) \in Seq(Nat \X Nat) /\ IsInjective(Tail(list)) /\ b \in Range(list)
      /\ Range(Tail(list)) = Range(list) \ {b}
  BY <1>1, TailList
<1>3. w \in Pages(s) /\ ar[w] # None
  BY <1>0, <1>1, <1>2, BlockPairs DEF Partition
<1>4. ~ar[w].large /\ c \in Nat
  <2>1. b \in InArena(Range(list), w)
    BY <1>2 DEF InArena
  <2>2. ar[w].cnt \in Nat /\ IsFiniteSet(InArena(Range(list), w))
    BY <1>0, <1>1, <1>3, Arena
  <2>0. ArenaRight(Range(list), live[s], w, ar[w])
    BY <1>0, <1>1, <1>3, Arena
  <2>3. ~ar[w].large
    BY <2>0, <2>1 DEF ArenaRight
  <2>4. Cardinality(InArena(Range(list), w)) = ar[w].cnt
    BY <2>0, <2>1, <2>3 DEF ArenaRight
  <2>5. ar[w].cnt # 0
    BY <2>1, <2>2, <2>4, FS_EmptySet
  <2> QED
    BY <2>2, <2>3, <2>5
<1>5. /\ free_list'[s] = Tail(list) /\ live'[s] = live[s] \cup {b}
      /\ Counted(s, ar, arena'[s], w, c) /\ HeapsElsewhere(s)
  BY <1>0, <1>1, <1>3, <1>4, TakeBlockFields
<1> HIDE DEF list, ar
<1>6. Partition(s, arena'[s], Range(list) \ {b}, live[s] \cup {b})
  BY <1>0, <1>1, <1>2, <1>5, BlockTaken
<1> HIDE DEF b, w, c
<1>7. /\ ArenasMapped(mem, s, arena'[s]) /\ \A K : Apart(s, ar, K) => Apart(s, arena'[s], K)
      /\ Covered(mem, mem, s, ar, arena'[s])
  <2>1. /\ w \in Pages(s) /\ ar[w] # None /\ ~ar[w].large /\ ArenasMapped(mem, s, ar)
        /\ Counted(s, ar, arena'[s], w, c)
    BY <1>1, <1>3, <1>4, <1>5
  <2>2. \A m : ArenasMapped(m, s, ar) => ArenasMapped(m, s, arena'[s])
    BY <1>0, <2>1, CountedPages
  <2>3. \A K : Apart(s, ar, K) => Apart(s, arena'[s], K)
    BY <1>0, <2>1, CountedPages
  <2>4. \A m : Covered(m, m, s, ar, arena'[s])
    BY <1>0, <2>1, CountedPages
  <2> QED
    BY <2>1, <2>2, <2>3, <2>4
<1>8. HeapRight(mem', s, arena'[s], free_list'[s], live'[s])
  BY <1>2, <1>5, <1>6, <1>7 DEF HeapRight
<1>9. Elsewhere(mem, mem', s) /\ Sound(mem', Users)
  BY <1>0 DEF Elsewhere
<1>10. HeapChange(s)
  <2>1. s = Kernel => Kept(mem', arena'[Kernel])
    BY <1>7 DEF Kept, ar
  <2>2. Covered(mem, mem', s, ar, arena'[s])
    BY <1>7
  <2> QED
    BY <1>5, <1>8, <1>9, <2>1, <2>2 DEF HeapChange, ar
<1> QED
  BY <1>9, <1>10, HeapCall

\* A new arena in a page that was just allocated, its first block taken.
LEMMA NewArena ==
    ASSUME HeapInv, NEW s \in Spaces, NEW m, m.pte = mem.pte, NEW v \in Pages(s),
           free_list[s] = <<>>, Grown(m, mem', s, Run(v, 1)),
           TakeBlock(s, Blocks(v),
                     [arena EXCEPT ![s][v] = [large |-> FALSE, cnt |-> BlocksPerArena, own |-> TRUE]])
    PROVE  /\ HeapsElsewhere(s) /\ HeapRight(mem', s, arena'[s], free_list'[s], live'[s])
           /\ \A K : Apart(s, arena[s], K) /\ (\A w \in K : IsMapped(mem, s, w)) =>
                  Apart(s, arena'[s], K)
           /\ Covered(mem, mem', s, arena[s], arena'[s])
<1> DEFINE ar == arena[s]
           cut == [large |-> FALSE, cnt |-> BlocksPerArena, own |-> TRUE]
           headers == [arena EXCEPT ![s] = [ar EXCEPT ![v] = cut]]
<1>1. /\ DOMAIN arena = Spaces /\ DOMAIN free_list = Spaces /\ DOMAIN live = Spaces
      /\ Partition(s, ar, Range(free_list[s]), live[s]) /\ ArenasMapped(mem, s, ar)
      /\ ar \in [Pages(s) -> Header \cup {None}]
  BY HeapParts
<1>2. v \in Nat /\ v \in Run(v, 1) /\ ~IsMapped(mem, s, v)
  <2>1. v \in Nat
    BY PagesAreNumbers
  <2>2. v \in Run(v, 1)
    BY <2>1 DEF Run
  <2>3. ~IsMapped(m, s, v)
    BY <2>2 DEF Grown
  <2> QED
    BY <2>1, <2>2, <2>3 DEF IsMapped
<1>3. ar[v] = None
  BY <1>1, <1>2, NoArenaYet
<1>4. ArenasMapped(m, s, ar)
  BY <1>1 DEF ArenasMapped, IsMapped
<1>5. cut \in Header /\ cut.cnt = BlocksPerArena /\ ~cut.large /\ cut.own
  BY Constants, Headers
<1> HIDE DEF cut
<1>6. Headed(s, ar, headers[s], v, cut)
  <2>1. Headed(s, ar, [ar EXCEPT ![v] = cut], v, cut)
    BY <1>1, <1>5, SetHeader
  <2>2. headers[s] = [ar EXCEPT ![v] = cut]
    BY <1>1
  <2> QED
    BY <2>1, <2>2
<1>7. DOMAIN headers = Spaces /\ \A t \in Spaces : t # s => headers[t] = arena[t]
  BY <1>1
<1>8. TakeBlock(s, Blocks(v), headers)
  BY DEF cut
<1>9. /\ Head(Blocks(v)) = <<v, 0>> /\ <<v, 0>>[1] = v
      /\ Tail(Blocks(v)) \in Seq(Nat \X Nat) /\ IsInjective(Tail(Blocks(v)))
      /\ Range(Tail(Blocks(v))) = ArenaBlocks(v) \ {<<v, 0>>}
  BY <1>2, BlocksList
<1> HIDE DEF headers, ar
<1>10. /\ headers[s] \in [Pages(s) -> Header \cup {None}] /\ headers[s][v] = cut
       /\ headers[s][v] # None /\ headers[s][v].cnt - 1 \in Nat
       /\ headers[s][v].cnt = BlocksPerArena /\ ~headers[s][v].large
       /\ headers[s][v].own
  BY <1>5, <1>6, Constants, Headers DEF Headed
<1>11. /\ free_list'[s] = Tail(Blocks(v)) /\ live'[s] = live[s] \cup {<<v, 0>>}
       /\ Counted(s, headers[s], arena'[s], v, BlocksPerArena - 1)
       /\ HeapsElsewhere(s)
  <2>1. /\ Head(Blocks(v))[1] \in Pages(s) /\ headers[s][Head(Blocks(v))[1]] # None
        /\ headers[s][Head(Blocks(v))[1]].cnt - 1 \in Nat
    BY <1>9, <1>10
  <2>2. /\ free_list'[s] = Tail(Blocks(v)) /\ live'[s] = live[s] \cup {Head(Blocks(v))}
        /\ Counted(s, headers[s], arena'[s], Head(Blocks(v))[1],
                   headers[s][Head(Blocks(v))[1]].cnt - 1)
        /\ HeapsElsewhere(s)
    BY <1>1, <1>7, <1>8, <1>10, <2>1, TakeBlockFields
  <2> QED
    BY <1>9, <1>10, <2>2
<1>12. PICK h \in Header : /\ ~h.large /\ h.own /\ h.cnt = BlocksPerArena - 1
                           /\ Headed(s, ar, arena'[s], v, h)
  <2>1. PICK h \in Header : /\ (h.large <=> headers[s][v].large)
                            /\ (h.own <=> headers[s][v].own) /\ h.cnt = BlocksPerArena - 1
                            /\ Headed(s, headers[s], arena'[s], v, h)
    BY <1>11 DEF Counted
  <2>2. Headed(s, ar, arena'[s], v, h)
    BY <1>6, <2>1 DEF Headed
  <2> QED
    BY <1>10, <2>1, <2>2
<1>13. Partition(s, arena'[s], ArenaBlocks(v) \ {<<v, 0>>}, live[s] \cup {<<v, 0>>})
  <2>1. Range(free_list[s]) = {}
    BY DEF Range
  <2>2. Partition(s, ar, {}, live[s])
    BY <1>1, <2>1
  <2> QED
    BY <1>3, <1>12, <2>2, ArenaCut
<1>14. HeaderPages(h, v) = Run(v, 1)
  BY <1>12 DEF HeaderPages, Run
<1>15. Grown(m, mem', s, HeaderPages(h, v))
  BY <1>14
<1>16. /\ ArenasMapped(mem', s, arena'[s])
       /\ \A K : Apart(s, ar, K) /\ K \cap HeaderPages(h, v) = {} => Apart(s, arena'[s], K)
       /\ Covered(m, mem', s, ar, arena'[s])
  BY <1>3, <1>4, <1>12, <1>15, ArenaAdded
<1>17. ASSUME NEW K, Apart(s, ar, K), \A w \in K : IsMapped(mem, s, w)
       PROVE  Apart(s, arena'[s], K)
  <2>1. \A w \in HeaderPages(h, v) : ~IsMapped(mem, s, w)
    BY <1>15 DEF Grown, IsMapped
  <2> QED
    BY <1>16, <1>17, <2>1
<1>18. HeapRight(mem', s, arena'[s], free_list'[s], live'[s])
  BY <1>9, <1>11, <1>13, <1>16 DEF HeapRight
<1>19. Covered(mem, mem', s, ar, arena'[s])
  BY <1>16 DEF Covered, IsMapped
<1> QED
  BY <1>11, <1>17, <1>18, <1>19 DEF ar

\* The caller's heap is there, and main does not have its lock.
LEMMA Caller ==
    ASSUME Fine, NEW s \in Spaces, Locked(s), HasHeap(s)
    PROVE  /\ s \in Users /\ (s = Kernel \/ proc[s].state = "alive")
           /\ s = Kernel => main.pc = "out"
           /\ \A v : ~Waiting(s, v)
           /\ Sound(mem, Users) /\ Users \in SUBSET Spaces /\ HeapInv
<1>1. s = Kernel \/ proc[s].state = "alive"
  BY DEF HasHeap
<1>2. s \in Users
  BY <1>1 DEF Users
<1>3. (s = Kernel => main.pc = "out") /\ \A v : ~Waiting(s, v)
  BY DEF Locked, Waiting
<1> QED
  BY <1>1, <1>2, <1>3, FineParts

\* Pages that are mapped are not among those of a new arena.
LEMMA KeptByNewPages ==
    ASSUME NEW n, NEW run, Grown(mem, n, Kernel, run), NEW new,
           \A K : Apart(Kernel, arena[Kernel], K) /\ (\A w \in K : IsMapped(mem, Kernel, w)) =>
                  Apart(Kernel, new, K)
    PROVE  Kept(n, new)
<1>1. \A v \in Pages(Kernel) : IsMapped(mem, Kernel, v) => IsMapped(n, Kernel, v)
  BY DEF Grown
<1> QED
  BY <1>1 DEF Kept

LEMMA SysMalloc ==
    ASSUME Fine, NEW s \in Spaces, sys_malloc(s)
    PROVE  MemInv'
<1>1. /\ s \in Users /\ (s = Kernel \/ proc[s].state = "alive")
      /\ s = Kernel => main.pc = "out"
      /\ \A x : ~Waiting(s, x)
      /\ Sound(mem, Users) /\ Users \in SUBSET Spaces /\ HeapInv
  BY Caller DEF sys_malloc
<1>2. UNCHANGED <<proc, main, ptt, forks, lost, broken>>
  BY DEF sys_malloc, bootVars, history
<1>3. CASE free_list[s] # <<>>
  <2>1. TakeBlock(s, free_list[s], arena) /\ UNCHANGED mem
    BY <1>3 DEF sys_malloc
  <2> QED
    BY <1>1, <1>2, <1>3, <2>1, MallocFromList
<1>4. CASE free_list[s] = <<>>
  <2> DEFINE r == malloc_page(mem, s, 1)
             v == r.vaddr
  <2>1. /\ Room(mem, s, 1) /\ mem' = r.mem
        /\ TakeBlock(s, Blocks(v),
                     [arena EXCEPT ![s][v] = [large |-> FALSE, cnt |-> BlocksPerArena, own |-> TRUE]])
    BY <1>4 DEF sys_malloc
  <2>2. v \in Pages(s) /\ Sound(r.mem, Users) /\ Grown(mem, r.mem, s, Run(v, 1))
    BY <1>1, <2>1, Malloc, 1 \in Nat \ {0}
  <2> HIDE DEF r, v
  <2>3. Sound(mem', Users) /\ Grown(mem, mem', s, Run(v, 1)) /\ Elsewhere(mem, mem', s)
    BY <2>1, <2>2 DEF Grown
  <2>4. /\ HeapsElsewhere(s) /\ HeapRight(mem', s, arena'[s], free_list'[s], live'[s])
        /\ \A K : Apart(s, arena[s], K) /\ (\A w \in K : IsMapped(mem, s, w)) =>
               Apart(s, arena'[s], K)
        /\ Covered(mem, mem', s, arena[s], arena'[s])
    BY <1>1, <1>4, <2>1, <2>2, <2>3, NewArena
  <2>5. s = Kernel => Kept(mem', arena'[Kernel])
    BY <2>3, <2>4, KeptByNewPages
  <2>6. HeapChange(s)
    BY <2>3, <2>4, <2>5 DEF HeapChange
  <2> QED
    BY <1>1, <1>2, <2>3, <2>6, HeapCall
<1> QED
  BY <1>3, <1>4

LEMMA SysMallocLarge ==
    ASSUME Fine, NEW s \in Spaces, NEW cnt \in LargeSizes,
           sys_malloc_large(s, cnt)
    PROVE  MemInv'
<1> DEFINE r == malloc_page(mem, s, cnt)
           v == r.vaddr
           h == [large |-> TRUE, cnt |-> cnt, own |-> TRUE]
           ar == arena[s]
<1>1. /\ s \in Users /\ (s = Kernel \/ proc[s].state = "alive")
      /\ s = Kernel => main.pc = "out"
      /\ \A x : ~Waiting(s, x)
      /\ Sound(mem, Users) /\ Users \in SUBSET Spaces /\ HeapInv
  BY Caller DEF sys_malloc_large
<1>2. /\ Room(mem, s, cnt) /\ mem' = r.mem /\ UNCHANGED free_list
      /\ UNCHANGED <<proc, main, ptt, forks, lost, broken>>
      /\ arena' = [arena EXCEPT ![s] = [ar EXCEPT ![v] = h]]
      /\ live' = [live EXCEPT ![s] = live[s] \cup {<<v, 0>>}]
  BY DEF sys_malloc_large, bootVars, history
<1>3. cnt \in Nat \ {0}
  BY MemoryAssumption
<1>4. v \in Pages(s) /\ v + cnt \in Pages(s) /\ Sound(r.mem, Users) /\ Grown(mem, r.mem, s, Run(v, cnt))
  BY <1>1, <1>2, <1>3, Malloc
<1>5. h \in Header /\ h.large /\ h.cnt = cnt
  BY <1>3, Headers
<1> HIDE DEF r, v, h, ar
<1>6. Sound(mem', Users) /\ Grown(mem, mem', s, Run(v, cnt)) /\ Elsewhere(mem, mem', s)
  BY <1>2, <1>4 DEF Grown
<1>7. /\ DOMAIN arena = Spaces /\ DOMAIN free_list = Spaces /\ DOMAIN live = Spaces
      /\ Partition(s, ar, Range(free_list[s]), live[s]) /\ ArenasMapped(mem, s, ar)
      /\ ar \in [Pages(s) -> Header \cup {None}]
      /\ free_list[s] \in Seq(Nat \X Nat) /\ IsInjective(free_list[s])
  BY <1>1, HeapParts DEF ar
<1>8. Headed(s, ar, arena'[s], v, h)
  <2>1. Headed(s, ar, [ar EXCEPT ![v] = h], v, h)
    BY <1>4, <1>5, <1>7, SetHeader
  <2>2. arena'[s] = [ar EXCEPT ![v] = h]
    BY <1>2, <1>7
  <2> QED
    BY <2>1, <2>2
<1>9. HeapsElsewhere(s) /\ live'[s] = live[s] \cup {<<v, 0>>}
  BY <1>2, <1>7 DEF HeapsElsewhere
<1>10. ar[v] = None
  <2>1. v \in Run(v, cnt)
    BY <1>3, <1>4, Interval
  <2>2. ~IsMapped(mem, s, v)
    BY <1>6, <2>1 DEF Grown
  <2> QED
    BY <1>4, <1>7, <2>2, NoArenaYet
<1>11. Partition(s, arena'[s], Range(free_list[s]), live[s] \cup {<<v, 0>>})
  <2>1. h.cnt # 0
    BY <1>3, <1>5
  <2> QED
    BY <1>4, <1>5, <1>7, <1>8, <1>10, <2>1, LargeMade
<1>12. Grown(mem, mem', s, HeaderPages(h, v))
  <2>1. HeaderPages(h, v) = Run(v, cnt)
    BY <1>5 DEF HeaderPages, Run
  <2> QED
    BY <1>6, <2>1
<1>13. /\ ArenasMapped(mem', s, arena'[s])
       /\ \A K : Apart(s, ar, K) /\ K \cap HeaderPages(h, v) = {} => Apart(s, arena'[s], K)
       /\ Covered(mem, mem', s, ar, arena'[s])
  BY <1>4, <1>5, <1>7, <1>8, <1>10, <1>12, ArenaAdded
<1>14. HeapRight(mem', s, arena'[s], free_list'[s], live'[s])
  BY <1>2, <1>7, <1>9, <1>11, <1>13 DEF HeapRight
<1>15. ASSUME NEW K, Apart(s, ar, K), \A w \in K : IsMapped(mem, s, w)
       PROVE  Apart(s, arena'[s], K)
  <2>1. \A w \in HeaderPages(h, v) : ~IsMapped(mem, s, w)
    BY <1>12 DEF Grown
  <2> QED
    BY <1>13, <1>15, <2>1
<1>16. HeapChange(s)
  <2>1. s = Kernel => Kept(mem', arena'[Kernel])
    BY <1>12, <1>15, KeptByNewPages DEF ar
  <2> QED
    BY <1>6, <1>9, <1>13, <1>14, <2>1 DEF HeapChange, ar
<1> QED
  BY <1>1, <1>2, <1>6, <1>16, HeapCall

\* The pages of an arena are given back.
LEMMA ArenaReturned ==
    ASSUME Fine, NEW s \in Users, s = Kernel \/ proc[s].state = "alive",
           s = Kernel => main.pc = "out",
           UNCHANGED <<proc, main, ptt, forks, lost, broken>>,
           NEW b \in live[s], NEW cnt, Run(b[1], cnt) = ArenaPages(arena[s], b[1]),
           arena[s][b[1]].large \/ (arena[s][b[1]].own /\ arena[s][b[1]].cnt + 1 = BlocksPerArena),
           mem' = mfree_page(mem, s, b[1], cnt),
           arena' = [arena EXCEPT ![s][b[1]] = None],
           live' = [live EXCEPT ![s] = live[s] \ {b}],
           NEW list, free_list'[s] = list, DOMAIN free_list' = Spaces,
           \A t \in Spaces : t # s => free_list'[t] = free_list[t],
           list \in Seq(Nat \X Nat), IsInjective(list),
           Range(list) = {c \in Range(free_list[s]) \cup {b} : c[1] # b[1]}
    PROVE  MemInv'
<1> DEFINE w == b[1]
           ar == arena[s]
           F == Range(free_list[s])
<1>0. /\ s \in Spaces /\ Users \in SUBSET Spaces /\ HeapInv /\ Sound(mem, Users)
      /\ \A v : ~Waiting(s, v)
  BY FineParts DEF Users, Waiting
<1>1. /\ DOMAIN arena = Spaces /\ DOMAIN free_list = Spaces /\ DOMAIN live = Spaces
      /\ Partition(s, ar, F, live[s]) /\ ArenasMapped(mem, s, ar)
      /\ ar \in [Pages(s) -> Header \cup {None}] /\ live[s] \subseteq BlocksIn(s)
  BY <1>0, HeapParts
<1>2. w \in Pages(s) /\ ar[w] # None
  BY <1>0, <1>1, BlockPairs DEF Partition
<1>3. /\ arena' = [arena EXCEPT ![s] = [ar EXCEPT ![w] = None]]
      /\ mem' = mfree_page(mem, s, w, cnt) /\ Run(w, cnt) = ArenaPages(ar, w)
      /\ ar[w].large \/ (ar[w].own /\ ar[w].cnt + 1 = BlocksPerArena)
      /\ Range(list) = {c \in F \cup {b} : c[1] # b[1]}
  OBVIOUS
<1> HIDE DEF ar, F
<1>4. Headed(s, ar, arena'[s], b[1], None)
  <2>1. Headed(s, ar, [ar EXCEPT ![w] = None], w, None)
    <3> HIDE DEF w
    <3> QED
      BY <1>0, <1>1, <1>2, SetHeader
  <2>2. arena'[s] = [ar EXCEPT ![w] = None]
    BY <1>0, <1>1, <1>3
  <2> QED
    BY <2>1, <2>2
<1>5. Partition(s, arena'[s], Range(list), live[s] \ {b})
  <2>1. Partition(s, arena'[s], {c \in F \cup {b} : c[1] # b[1]}, live[s] \ {b})
    BY <1>0, <1>1, <1>3, <1>4, ArenaFreed
  <2> QED
    BY <1>3, <2>1
<1> HIDE DEF w
<1>6. Sound(mem', Users) /\ Shrunk(mem, mem', s, ArenaPages(ar, w))
  <2>1. Run(w, cnt) \subseteq Pages(s)
    BY <1>1, <1>2, <1>3 DEF ArenasMapped
  <2>2. Sound(mem', Users) /\ Shrunk(mem, mem', s, Run(w, cnt))
    BY <1>0, <1>3, <2>1, Mfree
  <2> QED
    BY <1>3, <2>2
<1>7. /\ ArenasMapped(mem', s, arena'[s]) /\ \A K : Apart(s, ar, K) => Apart(s, arena'[s], K)
      /\ Covered(mem, mem', s, ar, arena'[s])
  <2>1. /\ Headed(s, ar, arena'[s], w, None) /\ w \in Pages(s) /\ ar[w] # None
        /\ ArenasMapped(mem, s, ar) /\ Shrunk(mem, mem', s, ArenaPages(ar, w))
    BY <1>1, <1>2, <1>4, <1>6 DEF w
  <2>2. ArenasMapped(mem', s, arena'[s])
    BY <1>0, <2>1, ArenaGone
  <2>3. \A K : Apart(s, ar, K) => Apart(s, arena'[s], K)
    BY <1>0, <2>1, ArenaGone
  <2>4. Covered(mem, mem', s, ar, arena'[s])
    BY <1>0, <2>1, ArenaGone
  <2> QED
    BY <2>2, <2>3, <2>4
<1>8. /\ HeapsElsewhere(s) /\ live'[s] = live[s] \ {b} /\ free_list'[s] = list
  BY <1>0, <1>1, <1>3 DEF HeapsElsewhere
<1>9. HeapRight(mem', s, arena'[s], free_list'[s], live'[s])
  BY <1>5, <1>7, <1>8 DEF HeapRight
<1>10. Elsewhere(mem, mem', s)
  BY <1>6 DEF Shrunk
<1>11. ASSUME s = Kernel PROVE Kept(mem', arena'[Kernel])
  <2>1. ASSUME NEW K \in SUBSET Pages(Kernel), Apart(Kernel, arena[Kernel], K),
               \A v \in K : IsMapped(mem, Kernel, v)
        PROVE  Apart(Kernel, arena'[Kernel], K) /\ \A v \in K : IsMapped(mem', Kernel, v)
    <3>1. Apart(Kernel, ar, K)
      BY <1>11, <2>1 DEF ar
    <3>2. K \cap ArenaPages(ar, w) = {}
      BY <1>2, <1>11, <3>1 DEF Apart
    <3>3. Apart(Kernel, arena'[Kernel], K)
      BY <1>7, <1>11, <3>1
    <3>4. ASSUME NEW v \in K PROVE IsMapped(mem', Kernel, v)
      BY <1>6, <1>11, <2>1, <3>2 DEF Shrunk
    <3> QED
      BY <3>3, <3>4
  <2> QED
    BY <2>1 DEF Kept
<1>12. HeapChange(s)
  BY <1>7, <1>8, <1>9, <1>10, <1>11 DEF HeapChange, ar
<1> QED
  BY <1>6, <1>12, HeapCall

\* A block is given back while others of its arena are in use.
LEMMA BlockReturned ==
    ASSUME Fine, NEW s \in Users, s = Kernel \/ proc[s].state = "alive",
           s = Kernel => main.pc = "out",
           UNCHANGED <<proc, main, ptt, forks, lost, broken, mem>>,
           NEW b \in live[s], ~arena[s][b[1]].large, arena[s][b[1]].own,
           arena[s][b[1]].cnt + 1 # BlocksPerArena,
           arena' = [arena EXCEPT ![s][b[1]].cnt = arena[s][b[1]].cnt + 1],
           live' = [live EXCEPT ![s] = live[s] \ {b}],
           free_list' = [free_list EXCEPT ![s] = Append(free_list[s], b)]
    PROVE  MemInv'
<1> DEFINE w == b[1]
           ar == arena[s]
           list == free_list[s]
           c == ar[w].cnt + 1
<1>0. s \in Spaces /\ HeapInv /\ Sound(mem, Users)
  BY FineParts DEF Users
<1>1. /\ DOMAIN arena = Spaces /\ DOMAIN free_list = Spaces /\ DOMAIN live = Spaces
      /\ Partition(s, ar, Range(list), live[s]) /\ ArenasMapped(mem, s, ar)
      /\ ar \in [Pages(s) -> Header \cup {None}] /\ live[s] \subseteq BlocksIn(s)
      /\ list \in Seq(Nat \X Nat) /\ IsInjective(list)
  BY <1>0, HeapParts
<1>2. /\ w \in Pages(s) /\ ar[w] # None /\ ~ar[w].large /\ b \in Nat \X Nat
      /\ b \notin Range(list)
  BY <1>0, <1>1, BlockPairs DEF Partition
<1>3. c \in Nat
  BY <1>0, <1>1, <1>2, Arena
<1>4. arena' = [arena EXCEPT ![s] = [ar EXCEPT ![w].cnt = c]]
  OBVIOUS
<1>5. Counted(s, ar, arena'[s], w, c)
  <2>1. Counted(s, ar, [ar EXCEPT ![w].cnt = c], w, c)
    <3> HIDE DEF w, c, ar
    <3> QED
      BY <1>0, <1>1, <1>2, <1>3, SetCount
  <2>2. arena'[s] = [ar EXCEPT ![w].cnt = c]
    BY <1>0, <1>1, <1>4
  <2> QED
    BY <2>1, <2>2
<1>6. Partition(s, arena'[s], Range(list) \cup {b}, live[s] \ {b})
  <2> HIDE DEF ar, list
  <2>1. ar[b[1]].own /\ ar[b[1]].cnt + 1 # BlocksPerArena
    BY DEF ar
  <2> QED
    BY <1>0, <1>1, <1>2, <1>5, <2>1, BlockFreed
<1> HIDE DEF w, c, ar, list
<1>7. /\ Append(list, b) \in Seq(Nat \X Nat) /\ IsInjective(Append(list, b))
      /\ Range(Append(list, b)) = Range(list) \cup {b}
  BY <1>1, <1>2, AppendList
<1>8. /\ ArenasMapped(mem, s, arena'[s]) /\ \A K : Apart(s, ar, K) => Apart(s, arena'[s], K)
      /\ Covered(mem, mem, s, ar, arena'[s])
  <2>1. /\ w \in Pages(s) /\ ar[w] # None /\ ~ar[w].large /\ ArenasMapped(mem, s, ar)
        /\ Counted(s, ar, arena'[s], w, c)
    BY <1>1, <1>2, <1>5
  <2>2. \A m : ArenasMapped(m, s, ar) => ArenasMapped(m, s, arena'[s])
    BY <1>0, <2>1, CountedPages
  <2>3. \A K : Apart(s, ar, K) => Apart(s, arena'[s], K)
    BY <1>0, <2>1, CountedPages
  <2>4. \A m : Covered(m, m, s, ar, arena'[s])
    BY <1>0, <2>1, CountedPages
  <2> QED
    BY <2>1, <2>2, <2>3, <2>4
<1>9. /\ HeapsElsewhere(s) /\ live'[s] = live[s] \ {b} /\ free_list'[s] = Append(list, b)
  <2>1. DOMAIN arena' = Spaces /\ \A t \in Spaces : t # s => arena'[t] = arena[t]
    BY <1>1, <1>4
  <2>2. /\ DOMAIN free_list' = Spaces /\ \A t \in Spaces : t # s => free_list'[t] = free_list[t]
        /\ free_list'[s] = Append(list, b)
    BY <1>0, <1>1 DEF list
  <2>3. /\ DOMAIN live' = Spaces /\ \A t \in Spaces : t # s => live'[t] = live[t]
        /\ live'[s] = live[s] \ {b}
    BY <1>0, <1>1
  <2> QED
    BY <2>1, <2>2, <2>3 DEF HeapsElsewhere
<1>10. HeapRight(mem', s, arena'[s], free_list'[s], live'[s])
  BY <1>6, <1>7, <1>8, <1>9 DEF HeapRight
<1>11. Elsewhere(mem, mem', s) /\ Sound(mem', Users)
  BY <1>0 DEF Elsewhere
<1>12. HeapChange(s)
  <2>1. s = Kernel => Kept(mem', arena'[Kernel])
    BY <1>8 DEF Kept, ar
  <2>2. Covered(mem, mem', s, ar, arena'[s])
    BY <1>8
  <2> QED
    BY <1>9, <1>10, <1>11, <2>1, <2>2 DEF HeapChange, ar
<1> QED
  BY <1>11, <1>12, HeapCall

LEMMA SysFree ==
    ASSUME Fine, NEW s \in Spaces, NEW b \in live[s], sys_free(s, b)
    PROVE  MemInv'
<1> DEFINE w == b[1]
           ar == arena[s]
           list == free_list[s]
<1>1. /\ s \in Users /\ (s = Kernel \/ proc[s].state = "alive")
      /\ s = Kernel => main.pc = "out"
      /\ \A x : ~Waiting(s, x)
      /\ Sound(mem, Users) /\ Users \in SUBSET Spaces /\ HeapInv
  BY Caller DEF sys_free
<1>2. /\ UNCHANGED <<proc, main, ptt, forks, lost, broken>>
      /\ live' = [live EXCEPT ![s] = live[s] \ {b}] /\ (ar[w].large \/ ar[w].own)
  BY DEF sys_free, bootVars, history
<1>3. /\ DOMAIN free_list = Spaces /\ list \in Seq(Nat \X Nat) /\ IsInjective(list)
      /\ Partition(s, ar, Range(list), live[s]) /\ live[s] \subseteq BlocksIn(s)
  BY <1>1, HeapParts
<1>4. w \in Pages(s) /\ ar[w] # None /\ b \in Nat \X Nat /\ b \notin Range(list)
  BY <1>3, BlockPairs DEF Partition
<1>5. CASE ar[w].large
  <2>1. /\ mem' = mfree_page(mem, s, w, ar[w].cnt) /\ UNCHANGED free_list
        /\ arena' = [arena EXCEPT ![s][w] = None]
    BY <1>5 DEF sys_free
  <2>2. Run(w, ar[w].cnt) = ArenaPages(ar, w)
    BY <1>5 DEF Run, ArenaPages
  <2>3. /\ free_list'[s] = list /\ DOMAIN free_list' = Spaces
        /\ \A t \in Spaces : t # s => free_list'[t] = free_list[t]
    BY <1>3, <2>1
  <2>4. Range(list) = {c \in Range(list) \cup {b} : c[1] # b[1]}
    <3>1. InArena(Range(list), w) = {}
      BY <1>3, <1>4, <1>5, Arena DEF ArenaRight
    <3> QED
      BY <3>1 DEF InArena
  <2> QED
    BY <1>1, <1>2, <1>3, <1>5, <2>1, <2>2, <2>3, <2>4, ArenaReturned
<1>6. CASE ~ar[w].large
  <2> DEFINE blocks == Append(list, b)
  <2>1. FreeBlock(s, b)
    BY <1>6 DEF sys_free
  <2>2. /\ blocks \in Seq(Nat \X Nat) /\ IsInjective(blocks)
        /\ Range(blocks) = Range(list) \cup {b}
    BY <1>3, <1>4, AppendList
  <2>3. CASE ar[w].cnt + 1 = BlocksPerArena
    <3> DEFINE others == InOtherArenas(blocks, w)
    <3>1. /\ mem' = mfree_page(mem, s, w, 1) /\ arena' = [arena EXCEPT ![s][w] = None]
          /\ free_list'[s] = others /\ DOMAIN free_list' = Spaces
          /\ \A t \in Spaces : t # s => free_list'[t] = free_list[t]
      BY <1>3, <2>1, <2>3 DEF FreeBlock
    <3>2. Run(w, 1) = ArenaPages(ar, w)
      BY <1>6 DEF Run, ArenaPages
    <3>3. /\ others \in Seq(Nat \X Nat) /\ IsInjective(others)
          /\ Range(others) = {c \in Range(blocks) : c[1] # w}
      <4> HIDE DEF blocks
      <4> QED
        BY <2>2, OthersList
    <3>4. Range(others) = {c \in Range(list) \cup {b} : c[1] # b[1]}
      BY <2>2, <3>3
    <3> HIDE DEF others
    <3> QED
      BY <1>1, <1>2, <1>6, <2>3, <3>1, <3>2, <3>3, <3>4, ArenaReturned
  <2>4. CASE ar[w].cnt + 1 # BlocksPerArena
    <3>1. /\ arena' = [arena EXCEPT ![s][w].cnt = ar[w].cnt + 1] /\ UNCHANGED mem
          /\ free_list' = [free_list EXCEPT ![s] = blocks]
      BY <2>1, <2>4 DEF FreeBlock
    <3> QED
      BY <1>1, <1>2, <1>6, <2>4, <3>1, BlockReturned
  <2> QED
    BY <2>3, <2>4
<1> QED
  BY <1>5, <1>6

LEMMA HeapsAreTyped == ASSUME HeapInv PROVE HeapTyped
<1>1. ASSUME NEW s \in Spaces
      PROVE  /\ \A v \in Pages(s) : arena[s][v] = None \/ arena[s][v].large
                                       \/ arena[s][v].cnt \in 0..BlocksPerArena
             /\ free_list[s] \in Seq(BlocksIn(s)) /\ live[s] \subseteq BlocksIn(s)
  <2> DEFINE list == free_list[s]
             T == BlocksIn(s)
  <2>1. /\ list \in Seq(Nat \X Nat) /\ Partition(s, arena[s], Range(list), live[s])
        /\ live[s] \subseteq T /\ Range(list) \subseteq T
    BY HeapParts
  <2> HIDE DEF list, T
  <2>2. list \in Seq(T)
    <3>1. \A i \in DOMAIN list : list[i] \in Range(list)
      BY DEF Range
    <3> QED
      BY <2>1, <3>1
  <2>3. ASSUME NEW v \in Pages(s), arena[s][v] # None, ~arena[s][v].large
        PROVE  arena[s][v].cnt \in 0..BlocksPerArena
    <3>1. arena[s][v].cnt \in Nat /\ IsFiniteSet(InArena(live[s], v))
      BY <2>1, <2>3, Arena
    <3>2. Cardinality(InArena(live[s], v)) + arena[s][v].cnt = BlocksPerArena
      BY <2>1, <2>3, CountSplit
    <3>3. Cardinality(InArena(live[s], v)) \in Nat
      BY <3>1, FS_CardinalityType
    <3> QED
      BY <3>1, <3>2, <3>3, Constants
  <2> QED
    BY <2>1, <2>2, <2>3 DEF list, T
<1> QED
  BY <1>1 DEF HeapTyped

\* A step that touches no page and no arena.
LEMMA Unmoved ==
    ASSUME UNCHANGED <<mem, proc, main, ptt, lost, forks, arena>>,
           free_list'[Kernel] = free_list[Kernel]
    PROVE  /\ Users' = Users /\ (BitsRight(mem, Users) => BitsRight(mem, Users)')
           /\ (ProcInv => ProcInv') /\ (BootInv => BootInv')
           /\ (KernelArenas => KernelArenas') /\ (EmptyHeaps => EmptyHeaps')
           /\ (LostInv => LostInv') /\ (ExitInv => ExitInv')
<1>1. /\ Users' = Users /\ (Starting' <=> Starting) /\ Children' = Children /\ Left' = Left
      /\ \A s, v : Waiting(s, v)' <=> Waiting(s, v)
  BY DEF Users, Starting, Children, Left, Waiting
<1>2. \A p : KernelPagesOf(p)' = KernelPagesOf(p) /\ BitsOf(p)' = BitsOf(p)
  BY DEF KernelPagesOf, BitsOf
<1>3. \A v : OfProcess(v)' <=> OfProcess(v)
  BY <1>2 DEF OfProcess
<1>4. BitsRight(mem, Users) => BitsRight(mem, Users)'
  BY <1>1 DEF BitsRight
<1>5. ProcInv => ProcInv'
  BY <1>2 DEF ProcInv
<1>6. BootInv => BootInv'
  BY <1>1 DEF BootInv, InitAlone
<1>7. (KernelArenas => KernelArenas') /\ (EmptyHeaps => EmptyHeaps')
  BY <1>2 DEF KernelArenas, EmptyHeaps
<1>8. (LostInv => LostInv') /\ (ExitInv => ExitInv')
  BY <1>1, <1>3 DEF LostInv, ExitInv
<1> QED
  BY <1>1, <1>4, <1>5, <1>6, <1>7, <1>8

\* A block that was inherited: it is appended to somebody's list.
LEMMA SysFreeInherited ==
    ASSUME Fine, NEW p \in Procs, NEW b \in live[p], sys_free_inherited(p, b)
    PROVE  MemInv'
<1>0. /\ MemType(mem) /\ BitsRight(mem, Users) /\ Once(Holds(mem, Users), mem.taken)
      /\ ProcInv /\ BootInv /\ HeapInv /\ KernelArenas /\ EmptyHeaps /\ LostInv /\ ExitInv
  BY FineParts DEF Sound
<1>1. UNCHANGED <<mem, arena, live, proc, main, ptt, forks, lost>> /\ broken' = "block"
  BY DEF sys_free_inherited, bootVars
<1>2. PICK q \in Procs : free_list' = [free_list EXCEPT ![q] = Append(free_list[q], b)]
  BY DEF sys_free_inherited
<1>3. HeapTyped
  BY <1>0, HeapsAreTyped
<1>4. /\ DOMAIN free_list = Spaces /\ p \in Spaces /\ q \in Spaces /\ q # Kernel
      /\ BlocksIn(p) = BlocksIn(q)
  BY <1>0, HeapParts, Constants DEF Spaces, BlocksIn, Pages
<1>5. /\ free_list'[q] = Append(free_list[q], b)
      /\ \A s \in Spaces : s # q => free_list'[s] = free_list[s]
  BY <1>2, <1>4
<1>6. HeapTyped'
  <2>1. b \in BlocksIn(q)
    BY <1>3, <1>4 DEF HeapTyped
  <2>2. ASSUME NEW s \in Spaces PROVE free_list'[s] \in Seq(BlocksIn(s))
    <3> DEFINE T == BlocksIn(s)
    <3>1. free_list[s] \in Seq(T)
      BY <1>3 DEF HeapTyped
    <3> HIDE DEF T
    <3>2. CASE s = q
      <4>1. b \in T
        BY <2>1, <3>2 DEF T
      <4> QED
        BY <1>5, <3>1, <3>2, <4>1 DEF T
    <3> QED
      BY <1>5, <3>1, <3>2 DEF T
  <2> QED
    BY <1>1, <1>3, <2>2 DEF HeapTyped
<1>7. free_list'[Kernel] = free_list[Kernel]
  BY <1>4, <1>5, Constants
<1>8. /\ Users' = Users /\ BitsRight(mem, Users)' /\ ProcInv' /\ BootInv'
      /\ KernelArenas' /\ EmptyHeaps' /\ LostInv' /\ ExitInv'
  BY <1>0, <1>1, <1>7, Unmoved
<1>9. MemType(mem)' /\ Once(Holds(mem, Users), mem.taken)'
  BY <1>0, <1>1, <1>8
<1> QED
  BY <1>1, <1>6, <1>8, <1>9 DEF MemInv

-----------------------------------------------------------------------------
(* The calls of processes. *)

\* A heap stays as it is when its pages stay mapped.
LEMMA HeapKept ==
    ASSUME HeapInv, NEW s \in Spaces, NEW n, NEW K, Apart(s, arena[s], K),
           \A v \in Pages(s) : IsMapped(mem, s, v) /\ v \notin K => IsMapped(n, s, v)
    PROVE  HeapRight(n, s, arena[s], free_list[s], live[s])
<1>1. HeapRight(mem, s, arena[s], free_list[s], live[s])
  BY DEF HeapInv
<1>2. ArenasMapped(n, s, arena[s])
  BY <1>1, ArenasStay DEF HeapRight
<1> QED
  BY <1>1, <1>2 DEF HeapRight

LEMMA HeapsKept ==
    ASSUME HeapInv, UNCHANGED <<arena, free_list, live>>,
           \A s \in Spaces : \E K : Apart(s, arena[s], K) /\
               \A v \in Pages(s) : IsMapped(mem, s, v) /\ v \notin K => IsMapped(mem', s, v)
    PROVE  HeapInv'
<1>2. ASSUME NEW s \in Spaces
      PROVE  HeapRight(mem', s, arena[s], free_list[s], live[s])
  BY HeapKept
<1> QED
  BY <1>2 DEF HeapInv

\* The heaps of processes that keep their pages.
LEMMA HeapsGrown ==
    ASSUME HeapInv, UNCHANGED <<arena, free_list, live>>,
           \A s \in Spaces : \A v \in Pages(s) : IsMapped(mem, s, v) => IsMapped(mem', s, v)
    PROVE  HeapInv'
<1>1. \A s \in Spaces : Apart(s, arena[s], {})
  BY DEF Apart
<1>2. \A s \in Spaces : \A v \in Pages(s) : IsMapped(mem, s, v) /\ v \notin {} => IsMapped(mem', s, v)
  OBVIOUS
<1> QED
  BY <1>1, <1>2, HeapsKept

\* While init starts, only the kernel has frames.
LEMMA LoneKernel ==
    ASSUME Fine, Starting, NEW x \in Places, Holds(mem, Users)[x] # None
    PROVE  x[1] = Kernel /\ x[2] \in Pages(Kernel) /\ Holds(mem, Users)[x] \in KernelPool
<1>1. PICK s \in Spaces, i \in -2..KPages + HeapPages : x = <<s, i>>
  BY Pairs
<1>2. ProcInv /\ BootInv /\ Users \in SUBSET Spaces /\ MemType(mem) /\ Kernel \in Users
  BY FineParts DEF Sound
<1>3. Holds(mem, Users)[x] =
          IF s \notin Users THEN None
          ELSE IF i \in Pages(s) THEN mem.pte[s][i]
          ELSE IF s # Kernel /\ i < 0 THEN mem.pde[s][-1 - i]
          ELSE None
  BY <1>1, <1>2, HoldsAt
<1>4. CASE s # Kernel
  <2>1. s \in Procs /\ proc[s].state \in {"none", "ready", "starting"}
    BY <1>2, <1>4 DEF Starting, BootInv, InitAlone, Spaces
  <2>2. /\ i \in Pages(s) => mem.pte[s][i] = None
        /\ i < 0 => mem.pde[s][-1 - i] = None
    <3>1. Blank(mem, s) /\ (i < 0 => -1 - i \in Regions)
      BY <1>2, <2>1 DEF ProcInv, Regions
    <3> QED
      BY <3>1 DEF Blank, NoPages, NoTables
  <2> QED
    BY <1>3, <1>4, <2>2
<1>5. CASE s = Kernel
  <2>1. i \in Pages(Kernel) /\ Holds(mem, Users)[x] = mem.pte[Kernel][i]
    BY <1>3, <1>5
  <2>2. mem.pte[Kernel][i] \in KernelPool \cup {None}
    BY <1>2, <2>1, TypeParts, Constants DEF PoolOf
  <2> QED
    BY <1>1, <1>5, <2>1, <2>2
<1> QED
  BY <1>4, <1>5

\* The state of init changes, and its pages.
LEMMA StartStep ==
    ASSUME Fine, Starting, NEW state \in {"starting", "alive"},
           proc' = [proc EXCEPT ![InitProc].state = state],
           UNCHANGED <<arena, free_list, live, main, forks, lost>>,
           MemType(mem'), BitsRight(mem', Users), Elsewhere(mem, mem', InitProc),
           state = "starting" => mem' = mem /\ ptt' \in KernelPool /\ UserRoom
    PROVE  Users' = Users /\ Other'
<1> DEFINE p == InitProc
<1>1. /\ p \in Procs /\ p \in Spaces /\ p # Kernel /\ Kernel \in Spaces
      /\ ProcInv /\ BootInv /\ HeapInv /\ KernelArenas /\ EmptyHeaps /\ LostInv /\ ExitInv
  BY FineParts, Constants DEF Spaces
<1>2. Blank(mem, p) /\ proc[p].state \in {"ready", "starting"}
  BY <1>1 DEF ProcInv, Starting
<1>3. /\ proc' \in [Procs -> [state : {"none", "ready", "starting", "alive", "hanging"},
                             pcb : Nat, bits : Nat, pgdir : Nat]]
      /\ proc'[p].state = state /\ proc'[p].bits = proc[p].bits
      /\ proc'[p].pcb = proc[p].pcb /\ proc'[p].pgdir = proc[p].pgdir
      /\ \A q \in Procs : q # p => proc'[q] = proc[q]
  BY <1>1 DEF ProcInv
<1> HIDE DEF p
<1>4. \A q \in Procs : /\ KernelPagesOf(q)' = KernelPagesOf(q) /\ BitsOf(q)' = BitsOf(q)
                       /\ proc'[q].state = "none" <=> proc[q].state = "none"
                       /\ proc'[q].state = "hanging" <=> proc[q].state = "hanging"
                       /\ proc'[q].pcb = proc[q].pcb /\ proc'[q].pgdir = proc[q].pgdir
                       /\ proc'[q].state \in {"none", "ready", "starting"} =>
                             /\ proc[q].state \in {"none", "ready", "starting"}
                             /\ q = p => state = "starting"
                       /\ proc'[q].state \in {"ready", "starting"} =>
                             proc[q].state \in {"ready", "starting"}
  BY <1>2, <1>3 DEF KernelPagesOf, BitsOf
<1>5. Users' = Users /\ \A v : OfProcess(v)' <=> OfProcess(v)
  <2>1. Users' = Users
    BY <1>4 DEF Users, Spaces
  <2>2. \A v : OfProcess(v)' <=> OfProcess(v)
    BY <1>4 DEF OfProcess
  <2> QED
    BY <2>1, <2>2
<1>6. mem'.pte[Kernel] = mem.pte[Kernel] /\ \A v : IsMapped(mem', Kernel, v) <=> IsMapped(mem, Kernel, v)
  BY <1>1 DEF Elsewhere, IsMapped, p
<1>7. ProcInv'
  <2>1. ASSUME NEW q \in Procs, proc'[q].state \in {"none", "ready", "starting"}
        PROVE  Blank(mem', q)
    <3>1. Blank(mem, q) /\ q \in Spaces /\ (q = p => mem' = mem)
      BY <1>1, <1>4, <2>1 DEF ProcInv, Spaces
    <3> QED
      BY <3>1 DEF Blank, Elsewhere, p
  <2> QED
    BY <1>1, <1>3, <1>4, <1>6, <2>1 DEF ProcInv
<1>8. BootInv'
  <2>1. InitAlone'
    BY <1>1, <1>3, <1>4 DEF BootInv, InitAlone, Starting, p
  <2>2. (proc[InitProc].state = "starting")' => ptt' \in KernelPool /\ UserRoom
    BY <1>3 DEF p
  <2>3. \A v \in Pages(Kernel) : IsMapped(mem', Kernel, v) <=> IsMapped(mem, Kernel, v)
    BY <1>6
  <2> QED
    BY <1>1, <1>6, <2>1, <2>2, <2>3 DEF BootInv, UserRoom
<1>9. HeapInv'
  <2>1. ASSUME NEW s \in Spaces, NEW v \in Pages(s), IsMapped(mem, s, v) PROVE IsMapped(mem', s, v)
    <3>1. s # p
      BY <1>2, <2>1 DEF Blank, NoPages, IsMapped
    <3> QED
      BY <2>1, <3>1 DEF Elsewhere, IsMapped, p
  <2> QED
    BY <1>1, <2>1, HeapsGrown
<1>10. KernelArenas' /\ EmptyHeaps'
  BY <1>1, <1>4 DEF KernelArenas, EmptyHeaps
<1>11. LostInv'
  <2>1. Left' = Left /\ IdlePage' = IdlePage
    BY DEF Left, IdlePage
  <2> QED
    BY <1>1, <1>5, <1>6, <2>1 DEF LostInv
<1>12. ExitInv'
  <2>1. Children' = Children
    BY <1>3 DEF Children, p
  <2> QED
    BY <1>1, <2>1 DEF ExitInv
<1>13. MemType(mem)' /\ BitsRight(mem, Users)'
  <2>1. \A s, v : Waiting(s, v)' <=> Waiting(s, v)
    BY DEF Waiting
  <2> QED
    BY <1>5, <2>1 DEF BitsRight
<1> QED
  BY <1>5, <1>7, <1>8, <1>9, <1>10, <1>11, <1>12, <1>13 DEF Other

LEMMA StartProcessScan ==
    ASSUME Fine, NEW p \in Procs, start_process_scan(p)
    PROVE  MemInv'
<1>1. /\ proc[p].state = "ready" /\ Room(mem, p, 1)
      /\ ptt' = Min(FreeFrames(mem, KernelPool)) /\ proc' = [proc EXCEPT ![p].state = "starting"]
      /\ UNCHANGED <<mem, arena, free_list, live, main, forks, lost, broken>>
  BY DEF start_process_scan, heapVars, history
<1>2. /\ ProcInv /\ Sound(mem, Users) /\ p \in Spaces /\ p # Kernel
  BY FineParts, Constants DEF Spaces
<1>3. p = InitProc /\ Starting
  BY <1>1, <1>2 DEF ProcInv, Starting
<1>4. ptt' \in KernelPool /\ UserRoom
  <2>1. FreeFrames(mem, KernelPool) # {} /\ Cardinality(FreeFrames(mem, UserPool)) >= 1
    BY <1>1, <1>2 DEF Room, PoolOf
  <2>2. FreeFrames(mem, UserPool) # {}
    BY <2>1, FS_EmptySet
  <2>3. FreeFrames(mem, KernelPool) \in SUBSET Nat
    BY Constants, FreeFinite DEF PoolOf
  <2>4. ptt' \in FreeFrames(mem, KernelPool)
    BY <1>1, <2>1, <2>3, MinElement
  <2> QED
    BY <2>2, <2>4 DEF FreeFrames, UserRoom
<1>5. Elsewhere(mem, mem', InitProc)
  BY <1>1 DEF Elsewhere
<1>6. MemType(mem') /\ BitsRight(mem', Users)
  BY <1>1, <1>2 DEF Sound
<1>7. Users' = Users /\ Other'
  BY <1>1, <1>3, <1>4, <1>5, <1>6, StartStep
<1>8. Once(Holds(mem, Users), mem.taken)' /\ broken' = "no"
  BY <1>1, <1>2, <1>7 DEF Sound, Fine
<1> QED
  BY <1>7, <1>8, StaysFine

\* The stack page of a process that has no pages yet, and its page table.
StackMapped(m, p, f, t) ==
    [m EXCEPT !.vbits[p] = m.vbits[p] \cup {HeapPages}, !.taken = m.taken \cup {f, t},
              !.pde[p][Region(HeapPages)] = t, !.pte[p][HeapPages] = f]

LEMMA StackPage ==
    ASSUME NEW m, NEW U \in SUBSET Spaces, Sound(m, U), NEW p \in Procs, p \in U, Blank(m, p),
           NEW f \in UserPool \ m.taken, NEW t \in KernelPool,
           NEW n, n = StackMapped(m, p, f, t)
    PROVE  /\ MemType(n) /\ BitsRight(n, U) /\ Elsewhere(m, n, p)
           /\ n.taken = m.taken \cup {f, t}
           /\ \A x \in Places : Holds(n, U)[x] = IF x = <<p, HeapPages>> THEN f
                                               ELSE IF x = <<p, -2>> THEN t ELSE Holds(m, U)[x]
           /\ t \notin m.taken => Once(Holds(n, U), n.taken)
           /\ <<p, -2>> \in Places /\ <<p, HeapPages>> \in Places
           /\ <<p, -2>> # <<p, HeapPages>>
           /\ Holds(m, U)[<<p, -2>>] = None /\ Holds(m, U)[<<p, HeapPages>>] = None
<1> DEFINE a == <<p, HeapPages>>
           b == <<p, -2>>
<1>1. MemType(m) /\ Once(Holds(m, U), m.taken) /\ p \in Spaces /\ p # Kernel
  BY Constants DEF Sound, Spaces
<1>2. m = [taken |-> m.taken, vbits |-> m.vbits, pte |-> m.pte, pde |-> m.pde]
      /\ m.pte \in [Spaces -> Directories] /\ m.vbits \in [Spaces -> SUBSET Nat]
      /\ m.pde \in [Procs -> [Regions -> KernelPool \cup {None}]]
  BY <1>1 DEF MemType
<1>3. Region(HeapPages) = 1 /\ HeapPages \in Pages(p) /\ HeapPages \in Nat /\ 1 \in Regions
  BY <1>1, Constants DEF Region, Pages, Regions
<1>4. /\ n.taken = m.taken \cup {f, t}
      /\ n.pte = [m.pte EXCEPT ![p] = [m.pte[p] EXCEPT ![HeapPages] = f]]
      /\ n.vbits = [m.vbits EXCEPT ![p] = m.vbits[p] \cup {HeapPages}]
      /\ n.pde = [m.pde EXCEPT ![p] = [m.pde[p] EXCEPT ![1] = t]]
      /\ n = [taken |-> n.taken, vbits |-> n.vbits, pte |-> n.pte, pde |-> n.pde]
  <2>1. n = [m EXCEPT !.vbits[p] = m.vbits[p] \cup {HeapPages}, !.taken = m.taken \cup {f, t},
                      !.pde[p][1] = t, !.pte[p][HeapPages] = f]
    BY <1>3 DEF StackMapped
  <2> QED
    BY <1>2, <2>1
<1>5. /\ f \in UserPool /\ f \notin m.taken /\ t \in KernelPool /\ f # t
      /\ f # None /\ t # None /\ PoolOf(p) = UserPool
  BY <1>1, FramesAreNumbers DEF PoolOf
<1>6. Elsewhere(m, n, p)
  BY <1>1, <1>2, <1>4 DEF Elsewhere
<1>7. /\ n.pte[p] = [m.pte[p] EXCEPT ![HeapPages] = f]
      /\ n.pde[p] = [m.pde[p] EXCEPT ![1] = t] /\ n.vbits[p] = m.vbits[p] \cup {HeapPages}
  BY <1>1, <1>2, <1>4
<1>8. /\ m.pte[p] \in [Pages(p) -> UserPool \cup {None}] /\ \A v \in Pages(p) : m.pte[p][v] = None
      /\ m.pde[p] \in [Regions -> KernelPool \cup {None}] /\ \A r \in Regions : m.pde[p][r] = None
      /\ m.vbits[p] = {}
  BY <1>1, <1>5, TypeParts DEF Blank, NoPages, NoTables
<1>9. /\ n.pte[p] \in [Pages(p) -> UserPool \cup {None}] /\ n.pte[p][HeapPages] = f
      /\ \A v \in Pages(p) : v # HeapPages => n.pte[p][v] = None
      /\ n.pde[p] \in [Regions -> KernelPool \cup {None}]
      /\ n.pde[p][1] = t /\ \A r \in Regions : r # 1 => n.pde[p][r] = None
  BY <1>3, <1>5, <1>7, <1>8
<1>10. MemType(n)
  <2>1. \A s \in Spaces : n.pte[s] \in [Pages(s) -> PoolOf(s) \cup {None}]
    BY <1>1, <1>5, <1>6, <1>9, TypeParts DEF Elsewhere
  <2>2. n.pte \in [Spaces -> Directories]
    <3>1. \A s \in Spaces : n.pte[s] \in Directories
      BY <2>1 DEF Directories
    <3>2. n.pte = [s \in Spaces |-> n.pte[s]]
      BY <1>2, <1>4
    <3> QED
      BY <3>1, <3>2
  <2>3. n.vbits \in [Spaces -> SUBSET Nat] /\ \A s \in Spaces : n.vbits[s] \subseteq Pages(s)
    BY <1>1, <1>2, <1>3, <1>4, TypeParts
  <2>4. n.pde \in [Procs -> [Regions -> KernelPool \cup {None}]]
    <3>1. [m.pde[p] EXCEPT ![1] = t] \in [Regions -> KernelPool \cup {None}]
      BY <1>7, <1>9
    <3> QED
      BY <1>2, <1>4, <3>1
  <2>5. n.taken \in SUBSET Frames
    BY <1>1, <1>4, <1>5, TypeParts DEF Frames
  <2> QED
    BY <1>4, <2>1, <2>2, <2>3, <2>4, <2>5 DEF MemType
<1>11. a \in Places /\ b \in Places /\ a # b
  BY <1>1, <1>3, Constants DEF Places
<1> DEFINE N == {a, b}
           F == [x \in N |-> IF x = a THEN f ELSE t]
<1>12. F[a] = f /\ F[b] = t
  BY <1>11
<1>13. ASSUME NEW x \in Places
       PROVE  Holds(n, U)[x] = IF x \in N THEN F[x] ELSE Holds(m, U)[x]
  <2>1. PICK s \in Spaces, i \in -2..KPages + HeapPages : x = <<s, i>>
    BY Pairs
  <2>2. CASE s # p
    <3>1. x \notin N
      BY <2>1, <2>2
    <3>2. n.pte[s] = m.pte[s] /\ (s # Kernel => n.pde[s] = m.pde[s])
      BY <1>6, <2>2 DEF Elsewhere, Spaces
    <3> QED
      BY <2>1, <3>1, <3>2, HoldsAt
  <2>3. CASE s = p
    <3>1. i < 0 => -1 - i \in Regions /\ (-1 - i = 1 <=> i = -2) /\ i \notin Pages(p)
      BY <1>1, PagesAreNumbers DEF Regions
    <3>2. /\ i \in Pages(p) => n.pte[p][i] = IF i = HeapPages THEN f ELSE None
          /\ i < 0 => n.pde[p][-1 - i] = IF i = -2 THEN t ELSE None
      BY <1>9, <3>1
    <3>3. /\ i \in Pages(p) => m.pte[p][i] = None
          /\ i < 0 => m.pde[p][-1 - i] = None
      BY <1>8, <3>1
    <3>4. Holds(m, U)[x] = None
      BY <1>1, <2>1, <2>3, <3>3, HoldsAt
    <3>5. Holds(n, U)[x] = IF i = HeapPages THEN f ELSE IF i = -2 THEN t ELSE None
      BY <1>1, <1>3, <2>1, <2>3, <3>1, <3>2, HoldsAt
    <3>6. (x = a <=> i = HeapPages) /\ (x = b <=> i = -2)
      BY <2>1, <2>3
    <3> QED
      BY <1>12, <3>4, <3>5, <3>6
  <2> QED
    BY <2>2, <2>3
<1>14. Holds(m, U)[a] = None /\ Holds(m, U)[b] = None /\ F[a] # None /\ F[b] # None
  <2>1. Holds(m, U)[a] = None
    BY <1>1, <1>3, <1>8, Constants, HoldsAt
  <2>2. Holds(m, U)[b] = None
    <3>1. -2 \in -2..KPages + HeapPages /\ -2 \notin Pages(p) /\ -1 - (-2) = 1
      BY <1>1, Constants, PagesAreNumbers
    <3> QED
      BY <1>1, <1>3, <1>8, <3>1, HoldsAt
  <2> QED
    BY <1>5, <1>12, <2>1, <2>2
<1>15. \A x, y \in N : F[x] = F[y] => x = y
  BY <1>5, <1>12
<1>16. {F[x] : x \in N} = {f, t}
  BY <1>12
<1>17. N \in SUBSET Places /\ None \notin m.taken
  BY <1>1, <1>11, TypeParts
<1>18. ASSUME t \notin m.taken PROVE Once(Holds(n, U), n.taken)
  <2>1. \A x \in N : Holds(m, U)[x] = None /\ F[x] # None /\ F[x] \notin m.taken
    BY <1>5, <1>12, <1>14, <1>18
  <2> HIDE DEF N, F
  <2>2. Once(Holds(n, U), m.taken \cup {F[x] : x \in N})
    BY <1>1, <1>13, <1>15, <1>17, <2>1, FramesAdded
  <2> QED
    BY <1>4, <1>16, <2>2
<1>19. \A x \in Places : Holds(n, U)[x] = IF x = a THEN f ELSE IF x = b THEN t ELSE Holds(m, U)[x]
  BY <1>12, <1>13
<1>20. \A v \in Pages(p) : IsMapped(n, p, v) <=> v = HeapPages
  BY <1>5, <1>9 DEF IsMapped
<1>21. ASSUME NEW s \in U, NEW v \in Pages(s)
       PROVE  v \in n.vbits[s] <=> IsMapped(n, s, v) \/ Waiting(s, v)
  <2>1. CASE s = p
    BY <1>1, <1>7, <1>8, <1>20, <2>1 DEF Waiting
  <2>2. CASE s # p
    BY <1>6, <2>2 DEF Sound, BitsRight, Elsewhere, IsMapped
  <2> QED
    BY <2>1, <2>2
<1> QED
  BY <1>4, <1>6, <1>10, <1>11, <1>14, <1>18, <1>19, <1>21 DEF BitsRight

LEMMA StartProcessSet ==
    ASSUME Fine, NEW p \in Procs, start_process_set(p)
    PROVE  MemInv'
<1> DEFINE f == Min(FreeFrames(mem, UserPool))
           h == Holds(mem, Users)
           g == Holds(mem', Users)
           b == <<p, -2>>
<1>1. /\ proc[p].state = "starting" /\ mem' = StackMapped(mem, p, f, ptt)
      /\ proc' = [proc EXCEPT ![p].state = "alive"]
      /\ broken' = IF ptt \in mem.taken THEN "frame" ELSE broken
      /\ UNCHANGED <<arena, free_list, live, main, ptt, forks, lost>>
  BY DEF start_process_set, heapVars, bootVars, StackMapped, SetFound
<1>2. /\ ProcInv /\ BootInv /\ Sound(mem, Users) /\ Users \in SUBSET Spaces
      /\ p \in Spaces /\ p # Kernel
  BY FineParts, Constants DEF Spaces
<1>3. p = InitProc /\ Blank(mem, p) /\ Starting /\ p \in Users
  BY <1>1, <1>2 DEF ProcInv, Starting, Users
<1>4. ptt \in KernelPool /\ UserRoom
  BY <1>1, <1>2, <1>3 DEF BootInv
<1>5. f \in UserPool \ mem.taken
  <2>1. ASSUME NEW x \in mem.taken PROVE x \notin UserPool
    <3>1. PICK y \in Places : h[y] = x
      BY <1>2 DEF Sound, Once
    <3>2. x # None
      BY <1>2, TypeParts DEF Sound
    <3>3. x \in KernelPool
      BY <1>3, <3>1, <3>2, LoneKernel
    <3> QED
      BY <3>3, FramesAreNumbers
  <2>2. FreeFrames(mem, UserPool) # {}
    BY <1>4, <2>1 DEF UserRoom, FreeFrames
  <2>3. FreeFrames(mem, UserPool) \in SUBSET Nat
    BY <1>2, FreeFinite DEF PoolOf
  <2>4. f \in FreeFrames(mem, UserPool)
    BY <2>2, <2>3, MinElement
  <2> QED
    BY <2>4 DEF FreeFrames
<1> HIDE DEF f
<1>6. /\ MemType(mem') /\ BitsRight(mem', Users) /\ Elsewhere(mem, mem', p)
      /\ mem'.taken = mem.taken \cup {f, ptt}
      /\ \A x \in Places : g[x] = IF x = <<p, HeapPages>> THEN f ELSE IF x = b THEN ptt ELSE h[x]
      /\ ptt \notin mem.taken => Once(g, mem'.taken)
      /\ b \in Places /\ <<p, HeapPages>> \in Places /\ b # <<p, HeapPages>>
      /\ h[b] = None /\ h[<<p, HeapPages>>] = None
  BY <1>1, <1>2, <1>3, <1>4, <1>5, StackPage
<1>7. Users' = Users /\ Other'
  BY <1>1, <1>3, <1>6, StartStep
<1>8. Holds(mem, Users)' = g
  BY <1>7
<1>9. CASE ptt \notin mem.taken
  <2>1. Once(Holds(mem, Users), mem.taken)' /\ broken' = "no"
    BY <1>1, <1>6, <1>8, <1>9 DEF Fine
  <2> QED
    BY <1>7, <2>1, StaysFine
<1>10. CASE ptt \in mem.taken
  <2> DEFINE a == <<p, HeapPages>>
  <2>0. /\ \A x, y \in Places : h[x] # None /\ h[x] = h[y] => x = y
        /\ \A k \in mem.taken : \E x \in Places : h[x] = k
        /\ \A x \in Places : h[x] # None => h[x] \in mem.taken
    BY <1>2 DEF Sound, Once
  <2>1. ASSUME NEW x \in Places, x # b, g[x] = ptt PROVE Clash(x, b)
    <3>1. f # ptt /\ ptt # None
      BY <1>4, <1>5, FramesAreNumbers
    <3>2. h[x] = ptt
      BY <1>6, <2>1, <3>1
    <3>3. x[1] = Kernel /\ x[2] \in Pages(Kernel)
      BY <1>3, <3>1, <3>2, LoneKernel
    <3> QED
      BY <1>3, <3>3 DEF Clash
  <2>2. ASSUME NEW x \in Places, NEW y \in Places, g[x] # None, g[x] = g[y]
        PROVE  x = y \/ Clash(x, y) \/ Clash(y, x)
    <3> HIDE DEF g, h, b, a
    <3>1. CASE x = b
      BY <1>6, <2>1, <2>2, <3>1
    <3>2. CASE y = b
      BY <1>6, <2>1, <2>2, <3>2
    <3>3. CASE x # b /\ y # b
      <4>1. \A z \in Places : z # b /\ z # a => g[z] = h[z]
        BY <1>6 DEF a
      <4>2. g[a] = f /\ \A z \in Places : h[z] # f
        BY <1>5, <1>6, <2>0, FramesAreNumbers DEF a
      <4> QED
        BY <2>0, <2>2, <3>3, <4>1, <4>2
    <3> QED
      BY <3>1, <3>2, <3>3
  <2>3. ASSUME NEW k \in mem'.taken PROVE \E x \in Places : g[x] = k
    <3> HIDE DEF g, h, b, a
    <3>1. CASE k = f
      BY <1>6, <3>1 DEF a
    <3>2. CASE k = ptt
      BY <1>6, <3>2
    <3>3. CASE k # f /\ k # ptt
      <4>1. k \in mem.taken
        BY <1>6, <3>3
      <4>2. PICK x \in Places : h[x] = k
        BY <2>0, <4>1
      <4>3. k # None
        BY <1>2, <4>1, TypeParts DEF Sound
      <4>4. x # b /\ x # a
        BY <1>6, <4>2, <4>3 DEF a
      <4> QED
        BY <1>6, <4>2, <4>4 DEF a
    <3> QED
      BY <3>1, <3>2, <3>3
  <2>4. ASSUME NEW x \in Places, g[x] # None PROVE g[x] \in mem'.taken
    BY <1>6, <2>0, <2>4
  <2>5. \A x, y : Clash(x, y)' <=> Clash(x, y)
    BY <1>1 DEF Clash
  <2>6. OnceBut(Holds(mem, Users), mem.taken)' /\ broken' = "frame"
    <3> HIDE DEF g
    <3> QED
      BY <1>1, <1>8, <1>10, <2>2, <2>3, <2>4, <2>5 DEF OnceBut
  <2> QED
    BY <1>7, <2>6 DEF MemInv, Other
<1> QED
  BY <1>9, <1>10

LEMMA NoHeap ==
    ASSUME NEW s \in Spaces, NEW m
    PROVE  HeapRight(m, s, NoPages(s), <<>>, {})
<1>1. <<>> \in Seq(Nat \X Nat) /\ IsInjective(<<>>) /\ Range(<<>>) = {}
  BY DEF IsInjective, Range
<1>2. NoPages(s) \in [Pages(s) -> Header \cup {None}] /\ \A v \in Pages(s) : NoPages(s)[v] = None
  BY DEF NoPages
<1>3. Partition(s, NoPages(s), {}, {})
  BY <1>2 DEF Partition
<1>4. ArenasMapped(m, s, NoPages(s))
  BY <1>2 DEF ArenasMapped
<1> QED
  BY <1>1, <1>3, <1>4 DEF HeapRight

LEMMA SysExit ==
    ASSUME Fine, NEW p \in Procs, sys_exit(p)
    PROVE  MemInv'
<1> DEFINE R == Released(mem, p)
           run == Run(proc[p].bits, BitmapPages - 1)
           last == proc[p].bits + BitmapPages - 1
           V == Users \ {p}
<1>1. /\ proc[p].state = "alive" /\ p # InitProc /\ lost' = lost \cup {last}
      /\ mem' = mfree_page(R, Kernel, proc[p].bits, BitmapPages - 1)
      /\ proc' = [proc EXCEPT ![p].state = "hanging"]
      /\ arena' = [arena EXCEPT ![p] = NoPages(p)]
      /\ free_list' = [free_list EXCEPT ![p] = <<>>]
      /\ live' = [live EXCEPT ![p] = {}]
      /\ UNCHANGED <<main, ptt, forks, broken>>
  BY DEF sys_exit, bootVars, BitsGivenBack
<1>2. /\ Sound(mem, Users) /\ Users \in SUBSET Spaces /\ Kernel \in Users
      /\ HeapInv /\ KernelArenas /\ EmptyHeaps /\ LostInv /\ ExitInv
  BY FineParts
<1>3. ProcInv /\ BootInv /\ p \in Spaces /\ p # Kernel /\ Kernel \in Spaces /\ p \in Users
  BY <1>1, FineParts, Constants DEF Spaces, Users
<1>4. /\ proc' \in [Procs -> [state : {"none", "ready", "starting", "alive", "hanging"},
                             pcb : Nat, bits : Nat, pgdir : Nat]]
      /\ proc'[p].state = "hanging" /\ proc'[p].bits = proc[p].bits
      /\ proc'[p].pcb = proc[p].pcb /\ proc'[p].pgdir = proc[p].pgdir
      /\ \A q \in Procs : q # p => proc'[q] = proc[q]
  BY <1>1, <1>3 DEF ProcInv
<1>5. Sound(R, V) /\ R.pte = mem.pte /\ R.pde = mem.pde /\ R.vbits = mem.vbits
  BY <1>2, <1>3, Release
<1>6. /\ run \subseteq BitsOf(p) /\ BitsOf(p) \subseteq KernelPagesOf(p)
      /\ KernelPagesOf(p) \subseteq Pages(Kernel)
      /\ {proc[p].pcb, proc[p].pgdir} \cap BitsOf(p) = {}
      /\ BitsOf(p) = run \cup {last} /\ last \notin run
      /\ \A v \in KernelPagesOf(p) : IsMapped(mem, Kernel, v)
      /\ KernelPagesOf(p) = {proc[p].pcb, proc[p].pgdir} \cup BitsOf(p)
  <2>1. proc[p].bits \in Nat
    BY <1>3 DEF ProcInv
  <2>2. run \subseteq BitsOf(p) /\ BitsOf(p) = run \cup {last} /\ last \notin run
    BY <2>1, Constants DEF Run, BitsOf
  <2> QED
    BY <1>1, <1>3, <2>2 DEF ProcInv, KernelPagesOf
<1>7. /\ V \in SUBSET Spaces /\ Kernel \in V /\ run \subseteq Pages(Kernel)
      /\ \A v \in run : ~Waiting(Kernel, v)
  <2>1. \A v \in run : ~Waiting(Kernel, v)
    BY <1>3, <1>6 DEF Waiting, BootInv
  <2> QED
    BY <1>2, <1>3, <1>6, <2>1
<1> HIDE DEF R
<1>8. Sound(mem', V) /\ Shrunk(R, mem', Kernel, run)
  <2> HIDE DEF V
  <2> QED
    BY <1>1, <1>5, <1>7, Mfree
<1> HIDE DEF run, last
<1>9. /\ \A v \in Pages(Kernel) : IsMapped(mem, Kernel, v) /\ v \notin run => IsMapped(mem', Kernel, v)
      /\ \A v \in Pages(Kernel) : IsMapped(mem', Kernel, v) => IsMapped(mem, Kernel, v) /\ v \notin run
      /\ \A v \in Pages(Kernel) : mem'.pte[Kernel][v] \in {mem.pte[Kernel][v], None}
      /\ Elsewhere(mem, mem', Kernel)
  BY <1>5, <1>8 DEF Shrunk, Elsewhere, IsMapped
<1>10. Users' = V
  BY <1>1, <1>2, <1>3, <1>4 DEF Users, Spaces
<1>11. /\ KernelPagesOf(p)' = {proc[p].pcb, proc[p].pgdir}
       /\ \A q \in Procs : q # p => KernelPagesOf(q)' = KernelPagesOf(q)
       /\ \A q \in Procs : BitsOf(q)' = BitsOf(q)
  <2>1. KernelPagesOf(p)' = {proc[p].pcb, proc[p].pgdir}
    BY <1>4 DEF KernelPagesOf
  <2>2. \A q \in Procs : BitsOf(q)' = BitsOf(q)
    BY <1>4 DEF BitsOf
  <2> QED
    BY <1>4, <2>1, <2>2 DEF KernelPagesOf
<1>12. \A q \in Procs : KernelPagesOf(q)' \subseteq KernelPagesOf(q)
  BY <1>11 DEF KernelPagesOf
<1>13. ProcInv'
  <2>1. ASSUME NEW q \in Procs, proc'[q].state \in {"none", "ready", "starting"}
        PROVE  Blank(mem', q) /\ (proc'[q].state # "none" => q = InitProc)
    <3>1. Blank(mem, q) /\ q # Kernel /\ q \in Spaces
      BY <1>3, <1>4, <2>1, Constants DEF ProcInv, Spaces
    <3> QED
      BY <1>3, <1>4, <1>9, <2>1, <3>1 DEF Blank, Elsewhere, ProcInv
  <2>2. ASSUME NEW q \in Procs, proc'[q].state # "none"
        PROVE  /\ KernelPagesOf(q)' \subseteq Pages(Kernel)
               /\ \A v \in KernelPagesOf(q)' : IsMapped(mem', Kernel, v)
               /\ proc'[q].state # "hanging" =>
                     {proc'[q].pcb, proc'[q].pgdir} \cap BitsOf(q)' = {}
    <3>1. proc[q].state # "none"
      BY <1>1, <1>4, <2>2
    <3>2. /\ KernelPagesOf(q) \subseteq Pages(Kernel)
          /\ \A v \in KernelPagesOf(q) : IsMapped(mem, Kernel, v)
          /\ proc[q].state # "hanging" => {proc[q].pcb, proc[q].pgdir} \cap BitsOf(q) = {}
          /\ q # p => KernelPagesOf(q) \cap KernelPagesOf(p) = {}
      BY <1>1, <1>3, <3>1 DEF ProcInv
    <3>3. KernelPagesOf(q)' \cap run = {}
      <4>1. CASE q = p
        BY <1>6, <1>11, <4>1
      <4>2. CASE q # p
        BY <1>6, <1>12, <3>2, <4>2
      <4> QED
        BY <4>1, <4>2
    <3>4. \A v \in KernelPagesOf(q)' : IsMapped(mem', Kernel, v)
      BY <1>9, <1>12, <3>2, <3>3
    <3>5. proc'[q].state # "hanging" => {proc'[q].pcb, proc'[q].pgdir} \cap BitsOf(q)' = {}
      BY <1>4, <1>11, <3>2
    <3> QED
      BY <1>12, <3>2, <3>4, <3>5
  <2>3. ASSUME NEW q \in Procs, NEW o \in Procs, q # o,
               proc'[q].state # "none", proc'[o].state # "none"
        PROVE  KernelPagesOf(q)' \cap KernelPagesOf(o)' = {}
    <3>1. proc[q].state # "none" /\ proc[o].state # "none"
      BY <1>1, <1>4, <2>3
    <3>2. KernelPagesOf(q) \cap KernelPagesOf(o) = {}
      BY <1>3, <2>3, <3>1 DEF ProcInv
    <3> QED
      BY <1>12, <3>2
  <2> QED
    BY <1>4, <2>1, <2>2, <2>3 DEF ProcInv
<1>14. ~Starting /\ ~Starting'
  <2>1. ~Starting
    BY <1>1, <1>3 DEF BootInv, InitAlone
  <2> QED
    BY <1>1, <1>4, <2>1, Constants DEF Starting
<1>15. /\ DOMAIN arena = Spaces /\ DOMAIN free_list = Spaces /\ DOMAIN live = Spaces
  BY <1>2, <1>3, HeapParts
<1>16. /\ DOMAIN arena' = Spaces /\ DOMAIN free_list' = Spaces /\ DOMAIN live' = Spaces
       /\ \A s \in Spaces : s # p => arena'[s] = arena[s] /\ free_list'[s] = free_list[s]
                                     /\ live'[s] = live[s]
       /\ arena'[p] = NoPages(p) /\ free_list'[p] = <<>> /\ live'[p] = {}
  BY <1>1, <1>3, <1>15
<1>17. BootInv'
  <2>1. InitAlone' /\ (proc[InitProc].state # "starting")'
    BY <1>1, <1>3, <1>4, <1>14, Constants DEF BootInv, InitAlone, Starting
  <2>2. free_list'[Kernel] = free_list[Kernel]
    BY <1>3, <1>16
  <2>3. main.pc # "out" => ~IsMapped(mem', Kernel, main.vaddr)
    BY <1>3, <1>9 DEF BootInv
  <2>4. main.pc = "set" => \A v \in Pages(Kernel) : mem'.pte[Kernel][v] # main.frame
    <3>1. main.frame \in KernelPool => main.frame # None
      BY FramesAreNumbers DEF Frames
    <3> QED
      BY <1>3, <1>9, <3>1 DEF BootInv
  <2> QED
    BY <1>1, <1>3, <2>1, <2>2, <2>3, <2>4 DEF BootInv
<1>18. HeapInv'
  <2>1. ASSUME NEW s \in Spaces PROVE HeapRight(mem', s, arena'[s], free_list'[s], live'[s])
    <3>1. CASE s = p
      BY <1>16, <3>1, NoHeap
    <3>2. CASE s = Kernel
      <4>1. Apart(Kernel, arena[Kernel], KernelPagesOf(p))
        BY <1>1, <1>2 DEF KernelArenas
      <4>2. \A v \in Pages(Kernel) : IsMapped(mem, Kernel, v) /\ v \notin KernelPagesOf(p) =>
                IsMapped(mem', Kernel, v)
        BY <1>6, <1>9
      <4>3. HeapRight(mem', Kernel, arena[Kernel], free_list[Kernel], live[Kernel])
        BY <1>2, <1>3, <4>1, <4>2, HeapKept
      <4> QED
        BY <1>3, <1>16, <3>2, <4>3
    <3>3. CASE s # p /\ s # Kernel
      <4>1. Apart(s, arena[s], {})
        BY DEF Apart
      <4>2. \A v \in Pages(s) : IsMapped(mem, s, v) /\ v \notin {} => IsMapped(mem', s, v)
        BY <1>9, <3>3 DEF Elsewhere, IsMapped
      <4>3. HeapRight(mem', s, arena[s], free_list[s], live[s])
        BY <1>2, <4>1, <4>2, HeapKept
      <4> QED
        BY <1>16, <3>3, <4>3
    <3> QED
      BY <3>1, <3>2, <3>3
  <2> QED
    BY <1>16, <2>1 DEF HeapInv
<1>19. KernelArenas'
  <2>1. ASSUME NEW q \in Procs, proc'[q].state # "none"
        PROVE  Apart(Kernel, arena'[Kernel], KernelPagesOf(q)')
    <3>1. Apart(Kernel, arena[Kernel], KernelPagesOf(q))
      BY <1>1, <1>2, <1>4, <2>1 DEF KernelArenas
    <3>2. Apart(Kernel, arena[Kernel], KernelPagesOf(q)')
      BY <1>12, <3>1 DEF Apart
    <3> QED
      BY <1>3, <1>16, <3>2
  <2> QED
    BY <2>1 DEF KernelArenas
<1>20. EmptyHeaps'
  <2>1. ASSUME NEW q \in Procs, proc'[q].state = "hanging", NEW v \in Pages(q)
        PROVE  arena'[q][v] = None
    <3>1. CASE q = p
      BY <1>16, <3>1 DEF NoPages
    <3>2. CASE q # p
      <4>1. arena[q][v] = None
        BY <1>2, <1>4, <2>1, <3>2 DEF EmptyHeaps
      <4> QED
        BY <1>16, <3>2, <4>1 DEF Spaces
    <3> QED
      BY <3>1, <3>2
  <2> QED
    BY <2>1 DEF EmptyHeaps
<1>21. /\ last \in KernelPagesOf(p) /\ last \notin Left
       /\ \A q \in Procs : proc'[q].state # "none" => last \notin KernelPagesOf(q)'
  <2>1. last \in KernelPagesOf(p) /\ OfProcess(last)
    BY <1>1, <1>6 DEF OfProcess
  <2>2. ASSUME NEW q \in Procs, proc'[q].state # "none", last \in KernelPagesOf(q)' PROVE FALSE
    <3>1. q # p
      BY <1>6, <1>11, <2>2
    <3>2. last \in KernelPagesOf(q) /\ proc[q].state # "none"
      BY <1>4, <1>11, <2>2, <3>1
    <3> QED
      BY <1>1, <1>3, <2>1, <3>1, <3>2 DEF ProcInv
  <2>3. last \notin Left
    BY <1>2, <2>1 DEF LostInv
  <2> QED
    BY <2>1, <2>2, <2>3
<1>22. LostInv'
  <2>1. Left' = Left \cup {last} /\ IdlePage' = IdlePage /\ IdlePage \in Left
    BY <1>1 DEF Left, IdlePage
  <2>2. Left' \subseteq Pages(Kernel) /\ IdlePage \notin lost'
    BY <1>1, <1>2, <1>6, <1>21, <2>1 DEF LostInv
  <2>3. ASSUME NEW v \in Left' PROVE IsMapped(mem', Kernel, v) /\ ~OfProcess(v)'
    <3>1. CASE v = last
      <4>1. v \in Pages(Kernel) /\ IsMapped(mem, Kernel, v) /\ v \notin run
        BY <1>6, <1>21, <3>1
      <4>2. ~OfProcess(v)'
        BY <1>21, <3>1 DEF OfProcess
      <4> QED
        BY <1>9, <4>1, <4>2
    <3>2. CASE v \in Left
      <4>1. v \in Pages(Kernel) /\ IsMapped(mem, Kernel, v) /\ ~OfProcess(v)
        BY <1>2, <3>2 DEF LostInv
      <4>2. v \notin run
        BY <1>1, <1>6, <4>1 DEF OfProcess
      <4>3. ~OfProcess(v)'
        BY <1>1, <1>4, <1>12, <4>1 DEF OfProcess
      <4> QED
        BY <1>9, <4>1, <4>2, <4>3
    <3> QED
      BY <2>1, <2>3, <3>1, <3>2
  <2>4. Apart(Kernel, arena'[Kernel], Left')
    <3>1. Apart(Kernel, arena[Kernel], Left) /\ Apart(Kernel, arena[Kernel], KernelPagesOf(p))
      BY <1>1, <1>2 DEF LostInv, KernelArenas
    <3>2. Apart(Kernel, arena[Kernel], Left \cup {last})
      BY <1>21, <3>1 DEF Apart
    <3> QED
      BY <1>3, <1>16, <2>1, <3>2
  <2>5. ASSUME NEW v \in Pages(Kernel), IsMapped(mem', Kernel, v)
        PROVE  v \in Left' \/ OfProcess(v)' \/ InArenas(Kernel, arena'[Kernel], v)
    <3>1. IsMapped(mem, Kernel, v) /\ v \notin run
      BY <1>9, <2>5
    <3>2. v \in Left \/ OfProcess(v) \/ InArenas(Kernel, arena[Kernel], v)
      BY <1>2, <3>1 DEF LostInv
    <3>3. CASE OfProcess(v)
      <4>1. PICK q \in Procs : proc[q].state # "none" /\ v \in KernelPagesOf(q)
        BY <3>3 DEF OfProcess
      <4>2. CASE q # p
        <5>1. proc'[q].state # "none" /\ v \in KernelPagesOf(q)'
          BY <1>4, <1>11, <4>1, <4>2
        <5> QED
          BY <5>1 DEF OfProcess
      <4>3. CASE q = p
        <5>1. v = last \/ v \in KernelPagesOf(p)'
          BY <1>6, <1>11, <3>1, <4>1, <4>3
        <5> QED
          BY <1>4, <2>1, <5>1 DEF OfProcess
      <4> QED
        BY <4>2, <4>3
    <3> QED
      BY <1>3, <1>16, <2>1, <3>2, <3>3
  <2> QED
    BY <2>2, <2>3, <2>4, <2>5 DEF LostInv
<1>23. ExitInv'
  <2>1. Children' = Children \ {p} /\ p \in Children
    BY <1>1, <1>4 DEF Children
  <2>2. IsFiniteSet(lost) /\ last \notin lost
    <3>1. IsFiniteSet(Pages(Kernel)) /\ lost \in SUBSET Pages(Kernel)
      BY <1>2, <1>3, PagesAreNumbers DEF LostInv, Left
    <3> QED
      BY <1>21, <3>1, FS_Subset DEF Left
  <2>3. Cardinality(lost') = Cardinality(lost) + 1 /\ Cardinality(lost) \in Nat
    BY <1>1, <2>2, FS_AddElement, FS_CardinalityType
  <2>4. /\ IsFiniteSet(Children \ {p}) /\ Cardinality(Children \ {p}) = Cardinality(Children) - 1
        /\ Cardinality(Children) \in Nat
    BY <1>2, <2>1, FS_RemoveElement, FS_CardinalityType DEF ExitInv
  <2> QED
    BY <1>1, <1>2, <2>1, <2>3, <2>4 DEF ExitInv
<1>24. /\ MemType(mem)' /\ BitsRight(mem, Users)' /\ Once(Holds(mem, Users), mem.taken)'
  <2> HIDE DEF V
  <2> QED
    BY <1>1, <1>8, <1>10, SoundNext
<1>25. Other' /\ broken' = "no"
  BY <1>1, <1>13, <1>17, <1>18, <1>19, <1>20, <1>22, <1>23, <1>24 DEF Other, Fine
<1> QED
  BY <1>24, <1>25, StaysFine

LEMMA ThreadExit ==
    ASSUME Fine, NEW p \in Procs, thread_exit(p)
    PROVE  MemInv'
<1> DEFINE A == mfree_page(mem, Kernel, proc[p].pgdir, 1)
           B == mfree_page(A, Kernel, proc[p].pcb, 1)
           K == KernelPagesOf(p)
<1>1. /\ proc[p].state = "hanging" /\ mem' = Wiped(B, p)
      /\ proc' = [proc EXCEPT ![p].state = "none"]
      /\ UNCHANGED <<arena, free_list, live, main, ptt, forks, lost, broken>>
  BY DEF thread_exit, heapVars, bootVars, history, Wiped
<1>2. /\ Sound(mem, Users) /\ Users \in SUBSET Spaces /\ Kernel \in Users
      /\ HeapInv /\ KernelArenas /\ EmptyHeaps /\ LostInv /\ ExitInv
  BY FineParts
<1>3. ProcInv /\ BootInv /\ p \in Spaces /\ p # Kernel /\ Kernel \in Spaces /\ p \notin Users
  BY <1>1, FineParts, Constants DEF Spaces, Users
<1>4. /\ proc' \in [Procs -> [state : {"none", "ready", "starting", "alive", "hanging"},
                             pcb : Nat, bits : Nat, pgdir : Nat]]
      /\ proc'[p].state = "none" /\ \A q \in Procs : q # p => proc'[q] = proc[q]
  BY <1>1, <1>3 DEF ProcInv
<1>5. /\ K \subseteq Pages(Kernel) /\ Run(proc[p].pgdir, 1) \subseteq K
      /\ Run(proc[p].pcb, 1) \subseteq K /\ K \subseteq Run(proc[p].pgdir, 1) \cup Run(proc[p].pcb, 1)
      /\ \A v \in K : IsMapped(mem, Kernel, v) /\ ~Waiting(Kernel, v)
  <2>1. proc[p].pgdir \in Nat /\ proc[p].pcb \in Nat /\ K = {proc[p].pcb, proc[p].pgdir}
    BY <1>1, <1>3 DEF ProcInv, KernelPagesOf
  <2>2. K \subseteq Pages(Kernel) /\ \A v \in K : IsMapped(mem, Kernel, v)
    BY <1>1, <1>3 DEF ProcInv
  <2>3. \A v \in K : ~Waiting(Kernel, v)
    BY <1>3, <2>2 DEF BootInv, Waiting
  <2> QED
    BY <2>1, <2>2, <2>3 DEF Run
<1> HIDE DEF K
<1>6. Sound(A, Users) /\ Shrunk(mem, A, Kernel, Run(proc[p].pgdir, 1))
  BY <1>2, <1>5, Mfree
<1> HIDE DEF A
<1>7. Sound(B, Users) /\ Shrunk(A, B, Kernel, Run(proc[p].pcb, 1))
  BY <1>2, <1>5, <1>6, Mfree
<1> HIDE DEF B
<1>8. Sound(mem', Users \cup {p}) /\ Blank(mem', p) /\ Elsewhere(B, mem', p)
  BY <1>1, <1>2, <1>3, <1>7, Wipe
<1>9. \A v \in Pages(Kernel) : /\ IsMapped(mem', Kernel, v) <=> IsMapped(mem, Kernel, v) /\ v \notin K
                               /\ mem'.pte[Kernel][v] \in {mem.pte[Kernel][v], None}
  <2>1. ASSUME NEW v \in Pages(Kernel)
        PROVE  IsMapped(B, Kernel, v) <=> IsMapped(mem, Kernel, v) /\ v \notin K
    BY <1>5, <1>6, <1>7 DEF Shrunk
  <2>2. \A v \in Pages(Kernel) : B.pte[Kernel][v] \in {mem.pte[Kernel][v], None}
    BY <1>6, <1>7 DEF Shrunk
  <2>3. mem'.pte[Kernel] = B.pte[Kernel]
    BY <1>3, <1>8 DEF Elsewhere
  <2> QED
    BY <2>1, <2>2, <2>3 DEF IsMapped
<1>10. ASSUME NEW t \in Spaces, t # Kernel, t # p
       PROVE  mem'.pte[t] = mem.pte[t] /\ mem'.vbits[t] = mem.vbits[t] /\ mem'.pde[t] = mem.pde[t]
  <2>1. t \in Procs
    BY <1>10 DEF Spaces
  <2> QED
    BY <1>6, <1>7, <1>8, <1>10, <2>1 DEF Shrunk, Elsewhere
<1>11. Users' = Users \cup {p}
  BY <1>1, <1>2, <1>3, <1>4 DEF Users, Spaces
<1>12. \A q \in Procs : q # p => KernelPagesOf(q)' = KernelPagesOf(q) /\ BitsOf(q)' = BitsOf(q)
  BY <1>4 DEF KernelPagesOf, BitsOf
<1>13. ProcInv'
  <2>1. ASSUME NEW q \in Procs, proc'[q].state \in {"none", "ready", "starting"}
        PROVE  Blank(mem', q) /\ (proc'[q].state # "none" => q = InitProc)
    <3>1. CASE q = p
      BY <1>4, <1>8, <3>1
    <3>2. CASE q # p
      <4>1. Blank(mem, q) /\ (proc[q].state # "none" => q = InitProc)
        BY <1>3, <1>4, <2>1, <3>2 DEF ProcInv
      <4>2. q \in Spaces /\ q # Kernel
        BY Constants DEF Spaces
      <4> QED
        BY <1>4, <1>10, <3>2, <4>1, <4>2 DEF Blank
    <3> QED
      BY <3>1, <3>2
  <2>2. ASSUME NEW q \in Procs, proc'[q].state # "none"
        PROVE  /\ KernelPagesOf(q)' \subseteq Pages(Kernel)
               /\ \A v \in KernelPagesOf(q)' : IsMapped(mem', Kernel, v)
               /\ proc'[q].state # "hanging" =>
                     {proc'[q].pcb, proc'[q].pgdir} \cap BitsOf(q)' = {}
    <3>1. q # p /\ proc'[q] = proc[q]
      BY <1>4, <2>2
    <3>2. /\ KernelPagesOf(q) \subseteq Pages(Kernel)
          /\ \A v \in KernelPagesOf(q) : IsMapped(mem, Kernel, v)
          /\ proc[q].state # "hanging" => {proc[q].pcb, proc[q].pgdir} \cap BitsOf(q) = {}
          /\ KernelPagesOf(q) \cap K = {}
      BY <1>1, <1>3, <2>2, <3>1 DEF ProcInv, K
    <3> QED
      BY <1>9, <1>12, <3>1, <3>2
  <2>3. ASSUME NEW q \in Procs, NEW o \in Procs, q # o,
               proc'[q].state # "none", proc'[o].state # "none"
        PROVE  KernelPagesOf(q)' \cap KernelPagesOf(o)' = {}
    <3>1. q # p /\ o # p /\ proc'[q] = proc[q] /\ proc'[o] = proc[o]
      BY <1>4, <2>3
    <3>2. KernelPagesOf(q) \cap KernelPagesOf(o) = {}
      BY <1>3, <2>3, <3>1 DEF ProcInv
    <3> QED
      BY <1>12, <3>1, <3>2
  <2> QED
    BY <1>4, <2>1, <2>2, <2>3 DEF ProcInv
<1>14. BootInv'
  <2>1. ~Starting
    BY <1>1, <1>3 DEF BootInv, InitAlone, Starting
  <2>2. ~Starting'
    BY <1>4, <2>1, Constants DEF Starting
  <2>3. InitAlone' /\ (proc[InitProc].state # "starting")'
    BY <1>1, <1>3, <1>4, <2>2, Constants DEF BootInv, InitAlone, Starting
  <2>4. main.pc # "out" => ~IsMapped(mem', Kernel, main.vaddr)
    BY <1>3, <1>9 DEF BootInv
  <2>5. main.pc = "set" => \A v \in Pages(Kernel) : mem'.pte[Kernel][v] # main.frame
    <3>1. main.frame \in KernelPool => main.frame # None
      BY FramesAreNumbers DEF Frames
    <3> QED
      BY <1>3, <1>9, <3>1 DEF BootInv
  <2> QED
    BY <1>1, <1>3, <2>3, <2>4, <2>5 DEF BootInv
<1>15. HeapInv'
  <2>1. ASSUME NEW s \in Spaces
        PROVE  \E L : Apart(s, arena[s], L) /\
                  \A v \in Pages(s) : IsMapped(mem, s, v) /\ v \notin L => IsMapped(mem', s, v)
    <3>1. CASE s = Kernel
      <4>1. Apart(Kernel, arena[Kernel], K)
        BY <1>1, <1>2 DEF KernelArenas, K
      <4> QED
        BY <1>9, <3>1, <4>1
    <3>2. CASE s = p
      <4>1. Apart(p, arena[p], Pages(p))
        BY <1>1, <1>2 DEF EmptyHeaps, Apart
      <4> QED
        BY <3>2, <4>1
    <3>3. CASE s # Kernel /\ s # p
      <4>1. Apart(s, arena[s], {})
        BY DEF Apart
      <4>2. \A v \in Pages(s) : IsMapped(mem, s, v) => IsMapped(mem', s, v)
        BY <1>10, <3>3 DEF IsMapped
      <4> QED
        BY <4>1, <4>2
    <3> QED
      BY <3>1, <3>2, <3>3
  <2> QED
    BY <1>1, <1>2, <2>1, HeapsKept
<1>16. KernelArenas'
  <2>1. ASSUME NEW q \in Procs, proc'[q].state # "none"
        PROVE  Apart(Kernel, arena[Kernel], KernelPagesOf(q)')
    <3>1. q # p /\ proc[q].state # "none"
      BY <1>4, <2>1
    <3> QED
      BY <1>2, <1>12, <3>1 DEF KernelArenas
  <2> QED
    BY <1>1, <2>1 DEF KernelArenas
<1>17. EmptyHeaps'
  <2>1. ASSUME NEW q \in Procs, proc'[q].state = "hanging" PROVE proc[q].state = "hanging"
    BY <1>4, <2>1
  <2> QED
    BY <1>1, <1>2, <2>1 DEF EmptyHeaps
<1>18. LostInv'
  <2>1. Left' = Left /\ IdlePage' = IdlePage
    BY <1>1 DEF Left, IdlePage
  <2>2. ASSUME NEW v, OfProcess(v)' PROVE OfProcess(v)
    BY <1>4, <1>12, <2>2 DEF OfProcess
  <2>3. ASSUME NEW v, OfProcess(v), v \notin K PROVE OfProcess(v)'
    BY <1>4, <1>12, <2>3 DEF OfProcess, K
  <2>4. ASSUME NEW v \in Left PROVE IsMapped(mem', Kernel, v) /\ ~OfProcess(v)'
    <3>1. v \in Pages(Kernel) /\ IsMapped(mem, Kernel, v) /\ ~OfProcess(v)
      BY <1>2 DEF LostInv
    <3>2. v \notin K
      BY <1>1, <3>1 DEF OfProcess, K
    <3> QED
      BY <1>9, <2>2, <3>1, <3>2
  <2>5. ASSUME NEW v \in Pages(Kernel), IsMapped(mem', Kernel, v)
        PROVE  v \in Left \/ OfProcess(v)' \/ InArenas(Kernel, arena[Kernel], v)
    <3>1. IsMapped(mem, Kernel, v) /\ v \notin K
      BY <1>9, <2>5
    <3> QED
      BY <1>2, <2>3, <3>1 DEF LostInv
  <2> QED
    BY <1>1, <1>2, <2>1, <2>4, <2>5 DEF LostInv
<1>19. ExitInv'
  <2>1. Children' = Children
    BY <1>1, <1>4 DEF Children
  <2> QED
    BY <1>1, <1>2, <2>1 DEF ExitInv
<1>20. /\ MemType(mem)' /\ BitsRight(mem, Users)' /\ Once(Holds(mem, Users), mem.taken)'
  BY <1>1, <1>8, <1>11, SoundNext
<1>21. Other' /\ broken' = "no"
  BY <1>1, <1>13, <1>14, <1>15, <1>16, <1>17, <1>18, <1>19, <1>20 DEF Other, Fine
<1> QED
  BY <1>20, <1>21, StaysFine

-----------------------------------------------------------------------------
(* The allocation of main. *)

\* Only main and the reserved pages of the kernel change.
LEMMA MainStep ==
    ASSUME Fine, UNCHANGED <<arena, free_list, live, proc, ptt, forks, lost>>,
           mem'.pte = mem.pte, mem'.pde = mem.pde,
           \A t \in Spaces : t # Kernel => mem'.vbits[t] = mem.vbits[t]
    PROVE  /\ Users' = Users /\ ProcInv' /\ HeapInv' /\ KernelArenas' /\ EmptyHeaps'
           /\ LostInv' /\ ExitInv' /\ InitAlone'
           /\ \A v : IsMapped(mem', Kernel, v) <=> IsMapped(mem, Kernel, v)
<1>1. /\ ProcInv /\ BootInv /\ HeapInv /\ KernelArenas /\ EmptyHeaps /\ LostInv /\ ExitInv
  BY FineParts
<1>2. \A q \in Procs : KernelPagesOf(q)' = KernelPagesOf(q) /\ BitsOf(q)' = BitsOf(q)
  BY DEF KernelPagesOf, BitsOf
<1>3. \A s, v : IsMapped(mem', s, v) <=> IsMapped(mem, s, v)
  BY DEF IsMapped
<1>4. ProcInv'
  <2>1. ASSUME NEW q \in Procs, Blank(mem, q) PROVE Blank(mem', q)
    BY <2>1, Constants DEF Blank, Spaces
  <2> QED
    BY <1>1, <1>2, <1>3, <2>1 DEF ProcInv
<1>5. HeapInv'
  BY <1>1, <1>3, HeapsGrown
<1>6. KernelArenas' /\ EmptyHeaps'
  BY <1>1, <1>2 DEF KernelArenas, EmptyHeaps
<1>7. LostInv'
  <2>1. \A v : OfProcess(v)' <=> OfProcess(v)
    BY <1>2 DEF OfProcess
  <2>2. Left' = Left /\ IdlePage' = IdlePage
    BY DEF Left, IdlePage
  <2> QED
    BY <1>1, <1>3, <2>1, <2>2 DEF LostInv
<1>8. ExitInv'
  <2>1. Children' = Children
    BY DEF Children
  <2> QED
    BY <1>1, <2>1 DEF ExitInv
<1>9. Users' = Users /\ InitAlone'
  BY <1>1 DEF Users, BootInv, InitAlone, Starting
<1> QED
  BY <1>3, <1>4, <1>5, <1>6, <1>7, <1>8, <1>9

LEMMA MainVaddrGet ==
    ASSUME Fine, main_vaddr_get
    PROVE  MemInv'
<1> DEFINE v == vaddr_get(mem, Kernel, 1)
           set == mem.vbits[Kernel] \cup {v}
<1>1. /\ main.pc = "out" /\ free_list[Kernel] = <<>> /\ Room(mem, Kernel, 1)
      /\ mem' = WithBits(mem, Kernel, set)
      /\ main' = [main EXCEPT !.pc = "scan", !.vaddr = v]
      /\ UNCHANGED <<arena, free_list, live, proc, ptt, forks, lost, broken>>
  BY DEF main_vaddr_get, Locked, heapVars, history, WithBits
<1>2. /\ BootInv /\ Sound(mem, Users) /\ Users \in SUBSET Spaces
      /\ Kernel \in Users /\ Kernel \in Spaces
  BY FineParts, Constants
<1>3. v \in Pages(Kernel) /\ v \in Nat /\ v \notin mem.vbits[Kernel]
  <2>1. FreeRuns(mem, Kernel, 1) # {} /\ FreeRuns(mem, Kernel, 1) \in SUBSET Nat
    BY <1>1, <1>2, PagesAreNumbers DEF Room, FreeRuns
  <2>2. v \in FreeRuns(mem, Kernel, 1)
    BY <2>1, MinElement DEF vaddr_get
  <2> HIDE DEF v
  <2>3. v \in Pages(Kernel) /\ v..v + 1 - 1 \cap mem.vbits[Kernel] = {}
    BY <2>2 DEF FreeRuns
  <2>4. v \in Nat
    BY <1>2, <2>3, PagesAreNumbers
  <2> QED
    BY <2>3, <2>4
<1>4. ~IsMapped(mem, Kernel, v)
  BY <1>2, <1>3 DEF Sound, BitsRight
<1>5. MemType(mem) /\ set \subseteq Pages(Kernel)
  BY <1>2, <1>3, TypeParts DEF Sound
<1>6. /\ MemType(mem') /\ mem'.taken = mem.taken /\ mem'.pte = mem.pte /\ mem'.pde = mem.pde
      /\ mem'.vbits[Kernel] = set
      /\ \A t \in Spaces : t # Kernel => mem'.vbits[t] = mem.vbits[t]
      /\ \A U : Holds(mem', U) = Holds(mem, U)
  <2> HIDE DEF set
  <2> QED
    BY <1>1, <1>2, <1>5, Reserved
<1>7. /\ Users' = Users /\ ProcInv' /\ HeapInv' /\ KernelArenas' /\ EmptyHeaps'
      /\ LostInv' /\ ExitInv' /\ InitAlone'
      /\ \A w : IsMapped(mem', Kernel, w) <=> IsMapped(mem, Kernel, w)
  BY <1>1, <1>6, MainStep
<1>8. /\ main' \in [pc : {"out", "scan", "set"}, vaddr : Nat, frame : Nat]
      /\ main'.pc = "scan" /\ main'.vaddr = v
  BY <1>1, <1>2, <1>3 DEF BootInv
<1>9. BootInv'
  <2> HIDE DEF v
  <2> QED
    BY <1>1, <1>2, <1>3, <1>4, <1>7, <1>8 DEF BootInv, UserRoom
<1>10. BitsRight(mem, Users)'
  <2> HIDE DEF v
  <2>1. ASSUME NEW s \in Users, NEW w \in Pages(s)
        PROVE  w \in mem'.vbits[s] <=> IsMapped(mem', s, w) \/ Waiting(s, w)'
    <3>1. w \in mem.vbits[s] <=> IsMapped(mem, s, w) \/ Waiting(s, w)
      BY <1>2 DEF Sound, BitsRight
    <3>2. ~Waiting(s, w) /\ (Waiting(s, w)' <=> s = Kernel /\ w = v)
      BY <1>1, <1>8 DEF Waiting
    <3>3. IsMapped(mem', s, w) <=> IsMapped(mem, s, w)
      BY <1>6 DEF IsMapped
    <3>4. CASE s = Kernel
      BY <1>6, <3>1, <3>2, <3>3, <3>4
    <3>5. CASE s # Kernel
      <4>1. s \in Spaces
        BY <1>2
      <4> QED
        BY <1>6, <3>1, <3>2, <3>3, <3>5, <4>1
    <3> QED
      BY <3>4, <3>5
  <2> QED
    BY <1>7, <2>1 DEF BitsRight
<1>11. Once(Holds(mem, Users), mem.taken)'
  BY <1>2, <1>6, <1>7 DEF Sound
<1>12. Other' /\ broken' = "no"
  BY <1>1, <1>6, <1>7, <1>9, <1>10 DEF Other, Fine
<1> QED
  BY <1>11, <1>12, StaysFine

LEMMA MainPallocScan ==
    ASSUME Fine, main_palloc_scan
    PROVE  MemInv'
<1> DEFINE f == Min(FreeFrames(mem, KernelPool))
<1>1. /\ main.pc = "scan" /\ FreeFrames(mem, KernelPool) # {}
      /\ main' = [main EXCEPT !.pc = "set", !.frame = f]
      /\ UNCHANGED <<mem, arena, free_list, live, proc, ptt, forks, lost, broken>>
  BY DEF main_palloc_scan, heapVars, history
<1>2. f \in FreeFrames(mem, KernelPool) /\ f \in Nat
  <2>1. FreeFrames(mem, KernelPool) \in SUBSET Nat
    BY Constants, FreeFinite DEF PoolOf
  <2> QED
    BY <1>1, <2>1, MinElement
<1> HIDE DEF f
<1>3. /\ BootInv /\ Sound(mem, Users) /\ Users \in SUBSET Spaces
      /\ Kernel \in Users /\ Kernel \in Spaces
  BY FineParts, Constants
<1>4. /\ main' \in [pc : {"out", "scan", "set"}, vaddr : Nat, frame : Nat]
      /\ main'.pc = "set" /\ main'.vaddr = main.vaddr /\ main'.frame = f
  BY <1>1, <1>2, <1>3 DEF BootInv
<1>5. f \in KernelPool /\ f \notin mem.taken /\ f # None
  <2>1. f \in KernelPool \ mem.taken
    BY <1>2 DEF FreeFrames
  <2> QED
    BY <2>1, FramesAreNumbers
<1>6. /\ Users' = Users /\ ProcInv' /\ HeapInv' /\ KernelArenas' /\ EmptyHeaps'
      /\ LostInv' /\ ExitInv' /\ InitAlone'
  BY <1>1, MainStep
<1>7. ASSUME NEW w \in Pages(Kernel) PROVE mem.pte[Kernel][w] # f
  <2>1. w \in -2..KPages + HeapPages
    BY <1>3, PagesAreNumbers
  <2>2. <<Kernel, w>> \in Places /\ Holds(mem, Users)[<<Kernel, w>>] = mem.pte[Kernel][w]
    BY <1>3, <2>1, HoldsAt
  <2> QED
    BY <1>3, <1>5, <2>2 DEF Sound, Once
<1>8. BootInv'
  BY <1>1, <1>3, <1>4, <1>5, <1>6, <1>7 DEF BootInv, UserRoom
<1>9. \A s, v : Waiting(s, v)' <=> Waiting(s, v)
  BY <1>1, <1>4 DEF Waiting
<1>10. BitsRight(mem, Users)' /\ MemType(mem)' /\ Once(Holds(mem, Users), mem.taken)'
  BY <1>1, <1>3, <1>6, <1>9 DEF Sound, BitsRight
<1>11. Other' /\ broken' = "no"
  BY <1>1, <1>6, <1>8, <1>10 DEF Other, Fine
<1> QED
  BY <1>10, <1>11, StaysFine

\* A reserved page of the kernel gets a frame.
PageMapped(m, v, f) == [m EXCEPT !.taken = m.taken \cup {f}, !.pte[Kernel][v] = f]

PageAdded(k, n, U, v, f) ==
    /\ MemType(n) /\ Elsewhere(k, n, Kernel)
    /\ n.taken = k.taken \cup {f} /\ n.vbits = k.vbits
    /\ \A w \in Pages(Kernel) : IsMapped(n, Kernel, w) <=> IsMapped(k, Kernel, w) \/ w = v
    /\ <<Kernel, v>> \in Places /\ Holds(k, U)[<<Kernel, v>>] = None
    /\ \A x \in Places : Holds(n, U)[x] = IF x = <<Kernel, v>> THEN f ELSE Holds(k, U)[x]
    /\ Once(Holds(k, U), k.taken) /\ f \notin k.taken => Once(Holds(n, U), n.taken)

LEMMA KernelPage ==
    ASSUME NEW k, NEW U \in SUBSET Spaces, MemType(k), Kernel \in U, NEW v \in Pages(Kernel),
           ~IsMapped(k, Kernel, v), NEW f \in KernelPool, NEW n, n = PageMapped(k, v, f)
    PROVE  PageAdded(k, n, U, v, f)
<1> DEFINE a == <<Kernel, v>>
<1>1. Kernel \in Spaces
  BY Constants
<1>2. k = [taken |-> k.taken, vbits |-> k.vbits, pte |-> k.pte, pde |-> k.pde]
      /\ k.pte \in [Spaces -> Directories] /\ k.vbits \in [Spaces -> SUBSET Nat]
      /\ k.pde \in [Procs -> [Regions -> KernelPool \cup {None}]]
  BY <1>1 DEF MemType
<1>3. /\ n.taken = k.taken \cup {f} /\ n.vbits = k.vbits /\ n.pde = k.pde
      /\ n.pte = [k.pte EXCEPT ![Kernel] = [k.pte[Kernel] EXCEPT ![v] = f]]
      /\ n = [taken |-> n.taken, vbits |-> n.vbits, pte |-> n.pte, pde |-> n.pde]
  <2>1. n = [k EXCEPT !.taken = k.taken \cup {f}, !.pte[Kernel][v] = f]
    BY DEF PageMapped
  <2> QED
    BY <1>2, <2>1
<1>4. f \in KernelPool /\ f # None /\ PoolOf(Kernel) = KernelPool
  BY FramesAreNumbers DEF PoolOf
<1>5. k.pte[Kernel] \in [Pages(Kernel) -> KernelPool \cup {None}] /\ k.pte[Kernel][v] = None
  BY <1>1, <1>4, TypeParts DEF IsMapped
<1>6. /\ n.pte[Kernel] \in [Pages(Kernel) -> KernelPool \cup {None}] /\ n.pte[Kernel][v] = f
      /\ \A w \in Pages(Kernel) : w # v => n.pte[Kernel][w] = k.pte[Kernel][w]
      /\ \A t \in Spaces : t # Kernel => n.pte[t] = k.pte[t]
  <2>1. n.pte[Kernel] = [k.pte[Kernel] EXCEPT ![v] = f]
    BY <1>1, <1>2, <1>3
  <2>2. \A t \in Spaces : t # Kernel => n.pte[t] = k.pte[t]
    BY <1>2, <1>3
  <2> QED
    BY <1>4, <1>5, <2>1, <2>2
<1>7. MemType(n)
  <2>1. \A s \in Spaces : n.pte[s] \in [Pages(s) -> PoolOf(s) \cup {None}]
    BY <1>1, <1>4, <1>6, TypeParts
  <2>2. n.pte \in [Spaces -> Directories]
    <3>1. \A s \in Spaces : n.pte[s] \in Directories
      BY <2>1 DEF Directories
    <3>2. n.pte = [s \in Spaces |-> n.pte[s]]
      BY <1>2, <1>3
    <3> QED
      BY <3>1, <3>2
  <2>3. n.taken \in SUBSET Frames
    BY <1>1, <1>3, <1>4, TypeParts DEF Frames
  <2>4. \A s \in Spaces : n.vbits[s] \subseteq Pages(s)
    BY <1>1, <1>3, TypeParts
  <2> QED
    BY <1>2, <1>3, <2>1, <2>2, <2>3, <2>4 DEF MemType
<1>8. v \in -2..KPages + HeapPages
  BY <1>1, PagesAreNumbers
<1>9. a \in Places /\ Holds(k, U)[a] = None
  BY <1>1, <1>5, <1>8, HoldsAt
<1>10. ASSUME NEW x \in Places
       PROVE  Holds(n, U)[x] = IF x = a THEN f ELSE Holds(k, U)[x]
  <2>1. PICK s \in Spaces, i \in -2..KPages + HeapPages : x = <<s, i>>
    BY Pairs
  <2>2. CASE s # Kernel
    <3>1. x # a
      BY <2>1, <2>2
    <3>2. n.pte[s] = k.pte[s] /\ n.pde = k.pde
      BY <1>3, <1>6, <2>2
    <3> QED
      BY <2>1, <3>1, <3>2, HoldsAt
  <2>3. CASE s = Kernel /\ i = v
    <3>1. x = a
      BY <2>1, <2>3
    <3> QED
      BY <1>6, <2>1, <2>3, <3>1, HoldsAt
  <2>4. CASE s = Kernel /\ i # v
    <3>1. x # a
      BY <2>1, <2>4
    <3> QED
      BY <1>6, <2>1, <2>4, <3>1, HoldsAt
  <2> QED
    BY <2>2, <2>3, <2>4
<1>11. ASSUME Once(Holds(k, U), k.taken), f \notin k.taken PROVE Once(Holds(n, U), n.taken)
  <2> DEFINE N == {a}
             F == [x \in N |-> f]
  <2>1. /\ \A x \in N : Holds(k, U)[x] = None /\ F[x] # None /\ F[x] \notin k.taken
        /\ \A x, y \in N : F[x] = F[y] => x = y
        /\ {F[x] : x \in N} = {f} /\ N \in SUBSET Places /\ None \notin k.taken
    BY <1>4, <1>9, <1>11, TypeParts
  <2>2. \A x \in Places : Holds(n, U)[x] = IF x \in N THEN F[x] ELSE Holds(k, U)[x]
    BY <1>10
  <2> HIDE DEF N, F
  <2>3. Once(Holds(n, U), k.taken \cup {F[x] : x \in N})
    BY <1>11, <2>1, <2>2, FramesAdded
  <2> QED
    BY <1>3, <2>1, <2>3
<1>12. \A w \in Pages(Kernel) : IsMapped(n, Kernel, w) <=> IsMapped(k, Kernel, w) \/ w = v
  BY <1>4, <1>6 DEF IsMapped
<1>13. Elsewhere(k, n, Kernel)
  BY <1>3, <1>6 DEF Elsewhere
<1> QED
  BY <1>3, <1>7, <1>9, <1>10, <1>11, <1>12, <1>13 DEF PageAdded

LEMMA MainPallocSet ==
    ASSUME Fine, main_palloc_set
    PROVE  MemInv'
<1> DEFINE v == main.vaddr
           f == main.frame
           a == <<Kernel, v>>
           h == Holds(mem, Users)
           g == Holds(mem', Users)
           set == mem.vbits[Kernel] \ {v}
           m == WithBits(mem, Kernel, set)
<1>1. /\ main.pc = "set" /\ mem' = PageMapped(mem, v, f)
      /\ TakeBlock(Kernel, Blocks(v), [arena EXCEPT ![Kernel][v] =
                       [large |-> FALSE, cnt |-> BlocksPerArena, own |-> TRUE]])
      /\ main' = [main EXCEPT !.pc = "out"]
      /\ broken' = IF f \in mem.taken THEN "frame" ELSE broken
      /\ UNCHANGED <<proc, ptt, forks, lost>>
  BY DEF main_palloc_set, PageMapped, SetFound
<1>2. /\ BootInv /\ HeapInv /\ Sound(mem, Users) /\ Users \in SUBSET Spaces
      /\ Kernel \in Users /\ Kernel \in Spaces /\ Users' = Users
  BY <1>1, FineParts, Constants DEF Users
<1>3. /\ v \in Pages(Kernel) /\ v \in Nat /\ ~IsMapped(mem, Kernel, v)
      /\ free_list[Kernel] = <<>> /\ f \in KernelPool
      /\ \A w \in Pages(Kernel) : mem.pte[Kernel][w] # f
      /\ main'.pc = "out" /\ main'.vaddr = v
  BY <1>1, <1>2 DEF BootInv
<1>4. v \in mem.vbits[Kernel]
  BY <1>1, <1>2, <1>3 DEF Sound, BitsRight, Waiting
<1>5. MemType(mem)
  BY <1>2 DEF Sound
<1> HIDE DEF v, f
<1>6. /\ MemType(mem') /\ Elsewhere(mem, mem', Kernel)
      /\ mem'.taken = mem.taken \cup {f} /\ mem'.vbits = mem.vbits
      /\ \A w \in Pages(Kernel) : IsMapped(mem', Kernel, w) <=> IsMapped(mem, Kernel, w) \/ w = v
      /\ a \in Places /\ h[a] = None
      /\ \A x \in Places : g[x] = IF x = a THEN f ELSE h[x]
      /\ Once(h, mem.taken) /\ f \notin mem.taken => Once(g, mem'.taken)
  <2>1. mem' = PageMapped(mem, v, f)
    BY <1>1
  <2>2. ~IsMapped(mem, Kernel, v) /\ v \in Pages(Kernel) /\ f \in KernelPool
    BY <1>3
  <2>3. PageAdded(mem, mem', Users, v, f)
    BY <1>2, <1>5, <2>1, <2>2, KernelPage
  <2> QED
    BY <2>3 DEF PageAdded
<1>7. /\ m.pte = mem.pte /\ m.pde = mem.pde /\ m.vbits[Kernel] = set
      /\ \A t \in Spaces : t # Kernel => m.vbits[t] = mem.vbits[t]
  <2>1. set \subseteq Pages(Kernel)
    BY <1>2, <1>5, TypeParts
  <2> HIDE DEF set
  <2> QED
    BY <1>2, <1>5, <2>1, Reserved
<1> HIDE DEF m
<1>8. Grown(m, mem', Kernel, Run(v, 1))
  <2>1. Run(v, 1) = {v}
    BY <1>3 DEF Run
  <2>2. Elsewhere(m, mem', Kernel)
    BY <1>6, <1>7 DEF Elsewhere
  <2>3. \A w : IsMapped(m, Kernel, w) <=> IsMapped(mem, Kernel, w)
    BY <1>7 DEF IsMapped
  <2>4. mem'.vbits[Kernel] = m.vbits[Kernel] \cup {v}
    BY <1>4, <1>6, <1>7
  <2> QED
    BY <1>3, <1>6, <2>1, <2>2, <2>3, <2>4 DEF Grown
<1>9. /\ HeapsElsewhere(Kernel)
      /\ HeapRight(mem', Kernel, arena'[Kernel], free_list'[Kernel], live'[Kernel])
      /\ \A K : Apart(Kernel, arena[Kernel], K) /\ (\A w \in K : IsMapped(mem, Kernel, w)) =>
             Apart(Kernel, arena'[Kernel], K)
      /\ Covered(mem, mem', Kernel, arena[Kernel], arena'[Kernel])
  BY <1>1, <1>2, <1>3, <1>7, <1>8, NewArena
<1>10. HeapChange(Kernel)
  <2>1. Kept(mem', arena'[Kernel])
    BY <1>6, <1>9 DEF Kept
  <2> QED
    BY <1>6, <1>9, <2>1 DEF HeapChange
<1>11. BitsRight(mem, Users)'
  <2>1. ASSUME NEW s \in Users, NEW w \in Pages(s)
        PROVE  w \in mem'.vbits[s] <=> IsMapped(mem', s, w) \/ Waiting(s, w)'
    <3>1. w \in mem.vbits[s] <=> IsMapped(mem, s, w) \/ Waiting(s, w)
      BY <1>2 DEF Sound, BitsRight
    <3>2. ~Waiting(s, w)' /\ (Waiting(s, w) <=> s = Kernel /\ w = v)
      BY <1>1, <1>3 DEF Waiting, v
    <3>3. CASE s = Kernel
      BY <1>6, <3>1, <3>2, <3>3
    <3>4. CASE s # Kernel
      <4>1. IsMapped(mem', s, w) <=> IsMapped(mem, s, w)
        BY <1>2, <1>6, <3>4 DEF Elsewhere, IsMapped
      <4> QED
        BY <1>6, <3>1, <3>2, <3>4, <4>1
    <3> QED
      BY <3>3, <3>4
  <2> QED
    BY <1>2, <2>1 DEF BitsRight
<1>12. Other'
  BY <1>1, <1>2, <1>3, <1>6, <1>10, <1>11, HeapStep
<1>13. Holds(mem, Users)' = g
  BY <1>2
<1>14. CASE f \notin mem.taken
  <2>1. Once(Holds(mem, Users), mem.taken)' /\ broken' = "no"
    BY <1>1, <1>2, <1>6, <1>13, <1>14 DEF Fine, Sound
  <2> QED
    BY <1>12, <2>1, StaysFine
<1>15. CASE f \in mem.taken
  <2>1. /\ \A x, y \in Places : h[x] # None /\ h[x] = h[y] => x = y
        /\ \A k \in mem.taken : \E x \in Places : h[x] = k
        /\ \A x \in Places : h[x] # None => h[x] \in mem.taken
    BY <1>2 DEF Sound, Once
  <2>2. f # None /\ f \notin UserPool
    BY <1>3, FramesAreNumbers
  <2>3. ASSUME NEW x \in Places, h[x] = f PROVE x[2] < 0
    <3>1. PICK s \in Spaces, i \in -2..KPages + HeapPages : x = <<s, i>>
      BY Pairs
    <3>2. h[x] = IF s \notin Users THEN None
                 ELSE IF i \in Pages(s) THEN mem.pte[s][i]
                 ELSE IF s # Kernel /\ i < 0 THEN mem.pde[s][-1 - i]
                 ELSE None
      BY <1>2, <3>1, HoldsAt
    <3>3. ASSUME i \in Pages(s) PROVE FALSE
      <4>1. mem.pte[s][i] = f
        BY <2>2, <2>3, <3>2, <3>3
      <4>2. s # Kernel
        BY <1>3, <3>3, <4>1
      <4>3. mem.pte[s][i] \in UserPool \cup {None}
        BY <1>5, <3>3, <4>2, TypeParts DEF PoolOf
      <4> QED
        BY <2>2, <4>1, <4>3
    <3>4. i < 0
      BY <2>2, <2>3, <3>2, <3>3
    <3> QED
      BY <3>1, <3>4
  <2>4. ASSUME NEW x \in Places, NEW y \in Places, g[x] # None, g[x] = g[y]
        PROVE  x = y \/ Clash(x, y)' \/ Clash(y, x)'
    <3>1. CASE x = a /\ y # a
      <4>1. h[y] = f
        BY <1>6, <2>4, <3>1
      <4>2. y[2] < 0 /\ x[1] = Kernel /\ x[2] = v
        BY <2>3, <3>1, <4>1
      <4> QED
        BY <1>3, <4>2 DEF Clash
    <3>2. CASE y = a /\ x # a
      <4>1. h[x] = f
        BY <1>6, <2>4, <3>2
      <4>2. x[2] < 0 /\ y[1] = Kernel /\ y[2] = v
        BY <2>3, <3>2, <4>1
      <4> QED
        BY <1>3, <4>2 DEF Clash
    <3>3. CASE x # a /\ y # a
      BY <1>6, <2>1, <2>4, <3>3
    <3> QED
      BY <3>1, <3>2, <3>3
  <2>5. ASSUME NEW k \in mem'.taken PROVE \E x \in Places : g[x] = k
    <3> HIDE DEF g, h, a
    <3>1. CASE k = f
      BY <1>6, <3>1
    <3>2. CASE k # f
      <4>1. k \in mem.taken
        BY <1>6, <3>2
      <4>2. PICK x \in Places : h[x] = k
        BY <2>1, <4>1
      <4>3. k # None
        BY <1>5, <4>1, TypeParts
      <4> QED
        BY <1>6, <4>2, <4>3
    <3> QED
      BY <3>1, <3>2
  <2>6. ASSUME NEW x \in Places, g[x] # None PROVE g[x] \in mem'.taken
    BY <1>6, <2>1, <2>6
  <2>7. OnceBut(Holds(mem, Users), mem.taken)' /\ broken' = "frame"
    <3> HIDE DEF g
    <3> QED
      BY <1>1, <1>13, <1>15, <2>4, <2>5, <2>6 DEF OnceBut
  <2> QED
    BY <1>12, <2>7 DEF MemInv, Other
<1> QED
  BY <1>14, <1>15

-----------------------------------------------------------------------------
(* sys_fork. *)

\* The kernel's pages run are new in n.
LEMMA GrownPages ==
    ASSUME NEW m, NEW n, NEW run, Grown(m, n, Kernel, run)
    PROVE  /\ run \subseteq Pages(Kernel) /\ \A w \in run : ~IsMapped(m, Kernel, w)
           /\ \A w \in Pages(Kernel) : IsMapped(n, Kernel, w) <=> IsMapped(m, Kernel, w) \/ w \in run
           /\ \A t \in Spaces : t # Kernel => n.pte[t] = m.pte[t] /\ n.vbits[t] = m.vbits[t]
           /\ \A p \in Procs : p # Kernel => n.pde[p] = m.pde[p]
BY DEF Grown, Elsewhere

LEMMA ElsewhereTwice ==
    ASSUME NEW k, NEW m, NEW n, NEW s, Elsewhere(k, m, s), Elsewhere(m, n, s)
    PROVE  Elsewhere(k, n, s)
BY DEF Elsewhere

\* What malloc_page does for the kernel.
Allocated(m, r, cnt, U) ==
    /\ r.vaddr \in Pages(Kernel) /\ Sound(r.mem, U)
    /\ Grown(m, r.mem, Kernel, Run(r.vaddr, cnt))

LEMMA KernelMalloc ==
    ASSUME NEW m, NEW U \in SUBSET Spaces, Sound(m, U), Kernel \in U, NEW cnt \in Nat \ {0},
           Room(m, Kernel, cnt)
    PROVE  Allocated(m, malloc_page(m, Kernel, cnt), cnt, U)
<1> DEFINE r == malloc_page(m, Kernel, cnt)
<1>1. r.vaddr \in Pages(Kernel) /\ Sound(r.mem, U) /\ Grown(m, r.mem, Kernel, Run(r.vaddr, cnt))
  BY Malloc
<1> HIDE DEF r
<1>2. Allocated(m, r, cnt, U)
  BY <1>1 DEF Allocated
<1> QED
  BY <1>2 DEF r

\* The kernel's pages of the child, and the buffer.
ChildPages(pcb, bits, pgdir) == {pcb.vaddr, pgdir.vaddr} \cup Run(bits.vaddr, BitmapPages)

LEMMA ForkPages ==
    ASSUME NEW m, NEW U \in SUBSET Spaces, NEW pcb, NEW buf, NEW bits, NEW pgdir,
           Allocated(m, pcb, 1, U), Allocated(pcb.mem, buf, 1, U),
           Allocated(buf.mem, bits, BitmapPages, U), Allocated(bits.mem, pgdir, 1, U)
    PROVE  /\ Sound(pgdir.mem, U)
           /\ pcb.vaddr \in Nat /\ bits.vaddr \in Nat /\ pgdir.vaddr \in Nat /\ buf.vaddr \in Nat
           /\ ChildPages(pcb, bits, pgdir) \subseteq Pages(Kernel) /\ \A w \in ChildPages(pcb, bits, pgdir) : ~IsMapped(m, Kernel, w)
           /\ buf.vaddr \in Pages(Kernel) /\ buf.vaddr \notin ChildPages(pcb, bits, pgdir)
           /\ ~IsMapped(m, Kernel, buf.vaddr)
           /\ {pcb.vaddr, pgdir.vaddr} \cap Run(bits.vaddr, BitmapPages) = {}
           /\ \A w \in Pages(Kernel) : IsMapped(pgdir.mem, Kernel, w) <=>
                  IsMapped(m, Kernel, w) \/ w \in ChildPages(pcb, bits, pgdir) \/ w = buf.vaddr
           /\ Elsewhere(m, pgdir.mem, Kernel)
<1> DEFINE new == ChildPages(pcb, bits, pgdir)
           A == {pcb.vaddr}
           B == {buf.vaddr}
           C == Run(bits.vaddr, BitmapPages)
           D == {pgdir.vaddr}
<1>0. Kernel \in Spaces
  BY Constants
<1>1. \A v \in Nat : Run(v, 1) = {v}
  BY DEF Run
<1>2. pcb.vaddr \in Nat /\ Sound(pcb.mem, U) /\ Grown(m, pcb.mem, Kernel, A)
  <2>1. pcb.vaddr \in Pages(Kernel) /\ Sound(pcb.mem, U)
        /\ Grown(m, pcb.mem, Kernel, Run(pcb.vaddr, 1))
    BY DEF Allocated
  <2>2. pcb.vaddr \in Nat
    BY <1>0, <2>1, PagesAreNumbers
  <2> QED
    BY <1>1, <2>1, <2>2
<1>3. buf.vaddr \in Nat /\ Sound(buf.mem, U) /\ Grown(pcb.mem, buf.mem, Kernel, B)
  <2>1. buf.vaddr \in Pages(Kernel) /\ Sound(buf.mem, U)
        /\ Grown(pcb.mem, buf.mem, Kernel, Run(buf.vaddr, 1))
    BY DEF Allocated
  <2>2. buf.vaddr \in Nat
    BY <1>0, <2>1, PagesAreNumbers
  <2> QED
    BY <1>1, <2>1, <2>2
<1>4. bits.vaddr \in Nat /\ Sound(bits.mem, U) /\ Grown(buf.mem, bits.mem, Kernel, C)
  <2>1. bits.vaddr \in Pages(Kernel) /\ Sound(bits.mem, U) /\ Grown(buf.mem, bits.mem, Kernel, C)
    BY DEF Allocated
  <2> QED
    BY <1>0, <2>1, PagesAreNumbers
<1>5. pgdir.vaddr \in Nat /\ Sound(pgdir.mem, U) /\ Grown(bits.mem, pgdir.mem, Kernel, D)
  <2>1. pgdir.vaddr \in Pages(Kernel) /\ Sound(pgdir.mem, U)
        /\ Grown(bits.mem, pgdir.mem, Kernel, Run(pgdir.vaddr, 1))
    BY DEF Allocated
  <2>2. pgdir.vaddr \in Nat
    BY <1>0, <2>1, PagesAreNumbers
  <2> QED
    BY <1>1, <2>1, <2>2
<1> HIDE DEF C
<1>6. new = A \cup C \cup D
  BY DEF C, ChildPages
<1> HIDE DEF A, B, D, new
<1>7. /\ A \subseteq Pages(Kernel) /\ \A w \in A : ~IsMapped(m, Kernel, w)
      /\ \A w \in Pages(Kernel) : IsMapped(pcb.mem, Kernel, w) <=> IsMapped(m, Kernel, w) \/ w \in A
  BY <1>2, GrownPages
<1>8. /\ B \subseteq Pages(Kernel) /\ \A w \in B : ~IsMapped(pcb.mem, Kernel, w)
      /\ \A w \in Pages(Kernel) :
            IsMapped(buf.mem, Kernel, w) <=> IsMapped(pcb.mem, Kernel, w) \/ w \in B
  BY <1>3, GrownPages
<1>9. /\ C \subseteq Pages(Kernel) /\ \A w \in C : ~IsMapped(buf.mem, Kernel, w)
      /\ \A w \in Pages(Kernel) :
            IsMapped(bits.mem, Kernel, w) <=> IsMapped(buf.mem, Kernel, w) \/ w \in C
  BY <1>4, GrownPages
<1>10. /\ D \subseteq Pages(Kernel) /\ \A w \in D : ~IsMapped(bits.mem, Kernel, w)
       /\ \A w \in Pages(Kernel) :
             IsMapped(pgdir.mem, Kernel, w) <=> IsMapped(bits.mem, Kernel, w) \/ w \in D
  BY <1>5, GrownPages
<1>11. /\ new \subseteq Pages(Kernel) /\ \A w \in new \cup B : ~IsMapped(m, Kernel, w)
       /\ B \cap new = {} /\ (A \cup D) \cap C = {}
       /\ \A w \in Pages(Kernel) : IsMapped(pgdir.mem, Kernel, w) <=>
              IsMapped(m, Kernel, w) \/ w \in new \/ w \in B
  <2>1. new \subseteq Pages(Kernel) /\ \A w \in new \cup B : ~IsMapped(m, Kernel, w)
    BY <1>6, <1>7, <1>8, <1>9, <1>10
  <2>2. B \cap new = {} /\ (A \cup D) \cap C = {}
    BY <1>6, <1>7, <1>8, <1>9, <1>10
  <2>3. \A w \in Pages(Kernel) : IsMapped(pgdir.mem, Kernel, w) <=>
              IsMapped(m, Kernel, w) \/ w \in new \/ w \in B
    BY <1>6, <1>7, <1>8, <1>9, <1>10
  <2> QED
    BY <2>1, <2>2, <2>3
<1>12. Elsewhere(m, pgdir.mem, Kernel)
  <2>1. /\ Elsewhere(m, pcb.mem, Kernel) /\ Elsewhere(pcb.mem, buf.mem, Kernel)
        /\ Elsewhere(buf.mem, bits.mem, Kernel) /\ Elsewhere(bits.mem, pgdir.mem, Kernel)
    BY <1>2, <1>3, <1>4, <1>5 DEF Grown
  <2> QED
    BY <2>1, ElsewhereTwice
<1>13. /\ buf.vaddr \in B /\ B \subseteq {buf.vaddr}
       /\ {pcb.vaddr, pgdir.vaddr} \cap Run(bits.vaddr, BitmapPages) = {}
  BY <1>11 DEF A, B, C, D
<1> QED
  BY <1>2, <1>3, <1>4, <1>5, <1>8, <1>11, <1>12, <1>13 DEF new

\* The pages of the child's body, and the release of the buffer v.
ForkedBody(m, c, body, v) ==
    mfree_page(MapPages(WithBits(m, c, body), c, body), Kernel, v, 1)

LEMMA ForkBody ==
    ASSUME NEW m, NEW U \in SUBSET Spaces, Sound(m, U), Kernel \in U, NEW c \in Procs, c \in U,
           Blank(m, c), NEW body \in SUBSET Pages(c), NEW v \in Pages(Kernel),
           ~Waiting(Kernel, v),
           Cardinality(body) <= Cardinality(FreeFrames(WithBits(m, c, body), UserPool)),
           Cardinality(MissingTables(WithBits(m, c, body), c, body)) <=
               Cardinality(FreeFrames(WithBits(m, c, body), KernelPool))
    PROVE  /\ Sound(ForkedBody(m, c, body, v), U) /\ ForkedBody(m, c, body, v).vbits[c] = body
           /\ \A w \in Pages(Kernel) : IsMapped(ForkedBody(m, c, body, v), Kernel, w) <=>
                  IsMapped(m, Kernel, w) /\ w # v
           /\ \A q \in Procs : q # c =>
                  /\ ForkedBody(m, c, body, v).pte[q] = m.pte[q]
                  /\ ForkedBody(m, c, body, v).vbits[q] = m.vbits[q]
                  /\ ForkedBody(m, c, body, v).pde[q] = m.pde[q]
<1> DEFINE k == WithBits(m, c, body)
           j == MapPages(k, c, body)
           n == ForkedBody(m, c, body, v)
<1>1. c \in Spaces /\ c # Kernel /\ MemType(m) /\ PoolOf(c) = UserPool /\ Kernel \in Spaces
  BY Constants DEF Spaces, Sound, PoolOf
<1>2. n = mfree_page(j, Kernel, v, 1)
  BY DEF ForkedBody
<1>3. Reserving(m, k, c, body)
  <2>1. /\ MemType(k) /\ k.taken = m.taken /\ k.pte = m.pte /\ k.pde = m.pde
        /\ k.vbits[c] = body /\ \A t \in Spaces : t # c => k.vbits[t] = m.vbits[t]
        /\ \A V : Holds(k, V) = Holds(m, V)
    BY <1>1, Reserved
  <2> HIDE DEF k
  <2>2. m.vbits[c] \cup body = body
    BY DEF Blank
  <2> QED
    BY <2>1, <2>2 DEF Reserving
<1>4. /\ Cardinality(body) <= Cardinality(FreeFrames(k, PoolOf(c)))
      /\ Cardinality(MissingTables(k, c, body)) <= Cardinality(FreeFrames(k, KernelPool))
      /\ body \cap m.vbits[c] = {}
  BY <1>1 DEF Blank
<1> HIDE DEF k
<1>5. Sound(j, U) /\ Grown(m, j, c, body)
  BY <1>3, <1>4, MapRun
<1> HIDE DEF j, n
<1>6. Sound(n, U) /\ Shrunk(j, n, Kernel, Run(v, 1)) /\ Run(v, 1) = {v}
  <2>1. Run(v, 1) = {v}
    BY <1>1, PagesAreNumbers DEF Run
  <2>2. Run(v, 1) \subseteq Pages(Kernel)
    BY <2>1
  <2>3. \A w \in Run(v, 1) : ~Waiting(Kernel, w)
    BY <2>1
  <2> QED
    BY <1>2, <1>5, <2>1, <2>2, <2>3, Mfree
<1>7. \A w \in Pages(Kernel) : IsMapped(n, Kernel, w) <=> IsMapped(m, Kernel, w) /\ w # v
  <2>1. \A w : IsMapped(j, Kernel, w) <=> IsMapped(m, Kernel, w)
    BY <1>1, <1>5 DEF Grown, Elsewhere, IsMapped
  <2> QED
    BY <1>6, <2>1 DEF Shrunk
<1>8. ASSUME NEW q \in Procs, q # c
      PROVE  n.pte[q] = m.pte[q] /\ n.vbits[q] = m.vbits[q] /\ n.pde[q] = m.pde[q]
  <2>1. q \in Spaces /\ q # Kernel
    BY Constants DEF Spaces
  <2>2. n.pte[q] = j.pte[q] /\ n.vbits[q] = j.vbits[q] /\ n.pde[q] = j.pde[q]
    BY <1>6, <2>1 DEF Shrunk, Elsewhere
  <2>3. j.pte[q] = m.pte[q] /\ j.vbits[q] = m.vbits[q] /\ j.pde[q] = m.pde[q]
    BY <1>5, <1>8, <2>1 DEF Grown, Elsewhere
  <2> QED
    BY <2>2, <2>3
<1>9. n.vbits[c] = body
  <2>1. j.vbits[c] = m.vbits[c] \cup body /\ m.vbits[c] = {}
    BY <1>5 DEF Grown, Blank
  <2> QED
    BY <1>1, <1>6, <2>1 DEF Shrunk, Elsewhere
<1> QED
  BY <1>6, <1>7, <1>8, <1>9 DEF n

\* The heap of the child: all blocks that are not live are in no list.
LEMMA InheritedHeap ==
    ASSUME NEW s \in Spaces, NEW t \in Spaces, Pages(s) = Pages(t), NEW ar, NEW F, NEW L,
           Partition(s, ar, F, L)
    PROVE  /\ Partition(t, Inherited(ar), {}, L)
           /\ \A v \in Pages(t) : /\ Inherited(ar)[v] = None <=> ar[v] = None
                                  /\ ar[v] # None => ArenaPages(Inherited(ar), v) = ArenaPages(ar, v)
<1> DEFINE new == Inherited(ar)
<1>1. ar \in [Pages(t) -> Header \cup {None}] /\ BlocksIn(t) = BlocksIn(s)
  BY DEF Partition, BlocksIn
<1>2. ASSUME NEW v \in Pages(t), ar[v] # None
      PROVE  /\ new[v] \in Header /\ new[v].large = ar[v].large /\ new[v].cnt = ar[v].cnt
             /\ new[v].own = FALSE /\ new[v] # None
  <2>1. new[v] = [ar[v] EXCEPT !.own = FALSE] /\ ar[v] \in Header
    BY <1>1, <1>2 DEF Inherited
  <2>2. [ar[v] EXCEPT !.own = FALSE] \in Header
    BY <2>1 DEF Header
  <2> QED
    BY <2>1, <2>2, Headers DEF Header
<1>3. \A v \in Pages(t) : ar[v] = None => new[v] = None
  BY <1>1 DEF Inherited
<1>4. new = [v \in Pages(t) |-> new[v]]
  BY <1>1 DEF Inherited
<1> HIDE DEF new
<1>5. new \in [Pages(t) -> Header \cup {None}]
  BY <1>2, <1>3, <1>4
<1>6. ASSUME NEW v \in Pages(t), new[v] # None PROVE ArenaRight({}, L, v, new[v])
  <2>1. ar[v] # None /\ v \in Pages(s)
    BY <1>3, <1>6
  <2>2. ar[v].large \in BOOLEAN /\ ArenaRight(F, L, v, ar[v])
    BY <2>1, Arena
  <2>3. InArena({}, v) = {}
    BY DEF InArena
  <2>4. CASE ar[v].large
    BY <1>2, <2>1, <2>2, <2>3, <2>4 DEF ArenaRight
  <2>5. CASE ~ar[v].large
    <3>1. Cardinality(InArena(L, v)) + ar[v].cnt = BlocksPerArena
      BY <2>1, <2>5, CountSplit
    <3> QED
      BY <1>2, <2>1, <2>2, <2>3, <2>5, <3>1 DEF ArenaRight
  <2> QED
    BY <2>2, <2>4, <2>5
<1>7. Partition(t, new, {}, L)
  <2>1. L \subseteq BlocksIn(t) /\ \A b \in L : ar[b[1]] # None
    BY <1>1 DEF Partition
  <2>2. \A b \in L : b[1] \in Pages(t)
    BY <2>1, BlockPairs
  <2> QED
    BY <1>2, <1>5, <1>6, <2>1, <2>2 DEF Partition
<1>8. \A v \in Pages(t) : ar[v] # None => ArenaPages(new, v) = ArenaPages(ar, v)
  BY <1>2 DEF ArenaPages
<1> QED
  BY <1>2, <1>3, <1>7, <1>8 DEF new

LEMMA SysFork ==
    ASSUME Fine, NEW p \in Procs, NEW c \in Procs, sys_fork(p, c)
    PROVE  MemInv'
<1> DEFINE pcb == malloc_page(mem, Kernel, 1)
           buf == malloc_page(pcb.mem, Kernel, 1)
           bits == malloc_page(buf.mem, Kernel, BitmapPages)
           pgdir == malloc_page(bits.mem, Kernel, 1)
           body == mem.vbits[p]
           blank == WithBits(pgdir.mem, c, body)
           new == ChildPages(pcb, bits, pgdir)
<1>1. /\ main.pc = "out" /\ proc[p].state = "alive" /\ proc[c].state = "none"
      /\ arena' = [arena EXCEPT ![c] = Inherited(arena[p])]
      /\ live' = [live EXCEPT ![c] = live[p]] /\ free_list' = [free_list EXCEPT ![c] = <<>>]
      /\ forks' = forks + 1 /\ UNCHANGED <<main, ptt, lost, broken>>
  BY DEF sys_fork, Locked, bootVars, history
<1>2. /\ Room(mem, Kernel, 1) /\ Room(pcb.mem, Kernel, 1)
      /\ Room(buf.mem, Kernel, BitmapPages) /\ Room(bits.mem, Kernel, 1)
  BY DEF sys_fork
<1>3. /\ Cardinality(FreeFrames(blank, KernelPool)) >= Cardinality(MissingTables(blank, c, body))
      /\ Cardinality(FreeFrames(blank, UserPool)) >= Cardinality(body)
  BY DEF sys_fork, WithBits
<1>4. proc' = [proc EXCEPT ![c] = [state |-> "alive", pcb |-> pcb.vaddr,
                                   bits |-> bits.vaddr, pgdir |-> pgdir.vaddr]]
  BY DEF sys_fork
<1>5. mem' = mfree_page(MapPages(blank, c, blank.vbits[p]), Kernel, buf.vaddr, 1)
  <2>1. mem' = mfree_page(CopyBody(blank, p, c), Kernel, buf.vaddr, 1)
    BY DEF sys_fork, WithBits
  <2> HIDE DEF blank, buf
  <2> QED
    BY <2>1 DEF CopyBody
<1>6. /\ Sound(mem, Users) /\ Users \in SUBSET Spaces /\ Kernel \in Users
      /\ HeapInv /\ KernelArenas /\ EmptyHeaps /\ LostInv /\ ExitInv
  BY FineParts
<1>7. /\ ProcInv /\ BootInv /\ Kernel \in Spaces /\ p \in Spaces /\ c \in Spaces
      /\ p # Kernel /\ c # Kernel /\ p # c /\ c \in Users /\ Pages(p) = Pages(c)
  BY <1>1, FineParts, Constants DEF Spaces, Users, Pages
<1>8. 1 \in Nat \ {0} /\ BitmapPages \in Nat \ {0}
  BY Constants
<1>9. Allocated(mem, pcb, 1, Users)
  BY <1>2, <1>6, <1>8, KernelMalloc
<1> HIDE DEF pcb
<1>10. Allocated(pcb.mem, buf, 1, Users)
  BY <1>2, <1>6, <1>8, <1>9, KernelMalloc DEF Allocated
<1> HIDE DEF buf
<1>11. Allocated(buf.mem, bits, BitmapPages, Users)
  BY <1>2, <1>6, <1>8, <1>10, KernelMalloc DEF Allocated
<1> HIDE DEF bits
<1>12. Allocated(bits.mem, pgdir, 1, Users)
  BY <1>2, <1>6, <1>8, <1>11, KernelMalloc DEF Allocated
<1> HIDE DEF pgdir
<1>13. /\ Sound(pgdir.mem, Users)
       /\ pcb.vaddr \in Nat /\ bits.vaddr \in Nat /\ pgdir.vaddr \in Nat
       /\ new \subseteq Pages(Kernel) /\ (\A w \in new : ~IsMapped(mem, Kernel, w))
       /\ buf.vaddr \in Pages(Kernel) /\ buf.vaddr \notin new
       /\ ~IsMapped(mem, Kernel, buf.vaddr)
       /\ {pcb.vaddr, pgdir.vaddr} \cap Run(bits.vaddr, BitmapPages) = {}
       /\ (\A w \in Pages(Kernel) : IsMapped(pgdir.mem, Kernel, w) <=>
              IsMapped(mem, Kernel, w) \/ w \in new \/ w = buf.vaddr)
       /\ Elsewhere(mem, pgdir.mem, Kernel)
  <2> HIDE DEF body, blank
  <2>1. /\ Allocated(mem, pcb, 1, Users) /\ Allocated(pcb.mem, buf, 1, Users)
        /\ Allocated(buf.mem, bits, BitmapPages, Users) /\ Allocated(bits.mem, pgdir, 1, Users)
        /\ Users \in SUBSET Spaces
    BY <1>6, <1>9, <1>10, <1>11, <1>12
  <2> QED
    BY <2>1, ForkPages
<1> HIDE DEF new
<1>14. /\ body \in SUBSET Pages(c) /\ Blank(mem, c) /\ Blank(pgdir.mem, c)
       /\ pgdir.mem.vbits[p] = body
  <2>1. body \subseteq Pages(c)
    BY <1>6, <1>7, TypeParts DEF Sound
  <2>2. Blank(mem, c)
    BY <1>1, <1>7 DEF ProcInv
  <2> QED
    BY <1>7, <1>13, <2>1, <2>2 DEF Elsewhere, Blank
<1>15. blank.vbits[p] = body
  <2>1. MemType(pgdir.mem)
    BY <1>13 DEF Sound
  <2>2. \A t \in Spaces : t # c => blank.vbits[t] = pgdir.mem.vbits[t]
    BY <1>7, <1>14, <2>1, Reserved
  <2> QED
    BY <1>7, <1>14, <2>2
<1>16. mem' = ForkedBody(pgdir.mem, c, body, buf.vaddr)
  BY <1>5, <1>15 DEF ForkedBody
<1> HIDE DEF body
<1>17. /\ Sound(mem', Users) /\ mem'.vbits[c] = body
       /\ \A w \in Pages(Kernel) : IsMapped(mem', Kernel, w) <=>
              IsMapped(pgdir.mem, Kernel, w) /\ w # buf.vaddr
       /\ \A q \in Procs : q # c => /\ mem'.pte[q] = pgdir.mem.pte[q]
                                    /\ mem'.vbits[q] = pgdir.mem.vbits[q]
                                    /\ mem'.pde[q] = pgdir.mem.pde[q]
  <2>1. ~Waiting(Kernel, buf.vaddr)
    BY <1>1 DEF Waiting
  <2> QED
    BY <1>3, <1>6, <1>7, <1>13, <1>14, <1>16, <2>1, ForkBody
<1> HIDE DEF blank
<1>18. /\ \A w \in Pages(Kernel) : IsMapped(mem', Kernel, w) <=>
              IsMapped(mem, Kernel, w) \/ w \in new
       /\ \A q \in Procs : q # c => /\ mem'.pte[q] = mem.pte[q]
                                    /\ mem'.vbits[q] = mem.vbits[q]
                                    /\ mem'.pde[q] = mem.pde[q]
  <2>1. \A w \in Pages(Kernel) : IsMapped(mem', Kernel, w) <=> IsMapped(mem, Kernel, w) \/ w \in new
    BY <1>13, <1>17
  <2>2. ASSUME NEW q \in Procs, q # c
        PROVE  mem'.pte[q] = mem.pte[q] /\ mem'.vbits[q] = mem.vbits[q] /\ mem'.pde[q] = mem.pde[q]
    <3>1. q \in Spaces /\ q # Kernel
      BY Constants DEF Spaces
    <3> QED
      BY <1>13, <1>17, <2>2, <3>1 DEF Elsewhere
  <2> QED
    BY <2>1, <2>2
<1>19. /\ proc' \in [Procs -> [state : {"none", "ready", "starting", "alive", "hanging"},
                              pcb : Nat, bits : Nat, pgdir : Nat]]
       /\ proc'[c].state = "alive" /\ proc'[c].bits = bits.vaddr
       /\ proc'[c].pcb = pcb.vaddr /\ proc'[c].pgdir = pgdir.vaddr
       /\ \A q \in Procs : q # c => proc'[q] = proc[q]
  <2>1. proc \in [Procs -> [state : {"none", "ready", "starting", "alive", "hanging"},
                            pcb : Nat, bits : Nat, pgdir : Nat]]
    BY <1>7 DEF ProcInv
  <2> QED
    BY <1>4, <1>13, <2>1
<1>20. /\ KernelPagesOf(c)' = new /\ BitsOf(c)' = Run(bits.vaddr, BitmapPages)
       /\ \A q \in Procs : q # c => KernelPagesOf(q)' = KernelPagesOf(q) /\ BitsOf(q)' = BitsOf(q)
  <2>1. BitsOf(c)' = Run(bits.vaddr, BitmapPages)
    BY <1>19 DEF BitsOf, Run
  <2>2. KernelPagesOf(c)' = new
    BY <1>19, <2>1 DEF KernelPagesOf, new, ChildPages
  <2>3. \A q \in Procs : q # c => KernelPagesOf(q)' = KernelPagesOf(q) /\ BitsOf(q)' = BitsOf(q)
    BY <1>19 DEF KernelPagesOf, BitsOf
  <2> QED
    BY <2>1, <2>2, <2>3
<1>21. Users' = Users
  BY <1>1, <1>6, <1>7, <1>19 DEF Users, Spaces
<1>22. ASSUME NEW q \in Procs, q # c, proc'[q].state # "none"
       PROVE  /\ KernelPagesOf(q) \subseteq Pages(Kernel)
              /\ \A v \in KernelPagesOf(q) : IsMapped(mem, Kernel, v)
              /\ proc[q].state # "hanging" => {proc[q].pcb, proc[q].pgdir} \cap BitsOf(q) = {}
              /\ KernelPagesOf(q) \cap new = {}
  <2>1. proc[q].state # "none"
    BY <1>19, <1>22
  <2>2. /\ KernelPagesOf(q) \subseteq Pages(Kernel)
        /\ \A v \in KernelPagesOf(q) : IsMapped(mem, Kernel, v)
        /\ proc[q].state # "hanging" => {proc[q].pcb, proc[q].pgdir} \cap BitsOf(q) = {}
    BY <1>7, <2>1 DEF ProcInv
  <2> QED
    BY <1>13, <2>2
<1>23. ProcInv'
  <2>1. ASSUME NEW q \in Procs, proc'[q].state \in {"none", "ready", "starting"}
        PROVE  Blank(mem', q) /\ (proc'[q].state # "none" => q = InitProc)
    <3>1. q # c /\ Blank(mem, q) /\ (proc[q].state # "none" => q = InitProc)
      BY <1>7, <1>19, <2>1 DEF ProcInv
    <3> QED
      BY <1>18, <1>19, <3>1 DEF Blank
  <2>2. ASSUME NEW q \in Procs, proc'[q].state # "none"
        PROVE  /\ KernelPagesOf(q)' \subseteq Pages(Kernel)
               /\ \A v \in KernelPagesOf(q)' : IsMapped(mem', Kernel, v)
               /\ proc'[q].state # "hanging" =>
                     {proc'[q].pcb, proc'[q].pgdir} \cap BitsOf(q)' = {}
    <3>1. CASE q = c
      BY <1>13, <1>18, <1>19, <1>20, <3>1
    <3>2. CASE q # c
      BY <1>18, <1>19, <1>20, <1>22, <2>2, <3>2
    <3> QED
      BY <3>1, <3>2
  <2>3. ASSUME NEW q \in Procs, NEW o \in Procs, q # o,
               proc'[q].state # "none", proc'[o].state # "none"
        PROVE  KernelPagesOf(q)' \cap KernelPagesOf(o)' = {}
    <3>1. CASE q = c
      BY <1>20, <1>22, <2>3, <3>1
    <3>2. CASE o = c
      BY <1>20, <1>22, <2>3, <3>2
    <3>3. CASE q # c /\ o # c
      <4>1. KernelPagesOf(q) \cap KernelPagesOf(o) = {}
        BY <1>7, <1>19, <2>3, <3>3 DEF ProcInv
      <4> QED
        BY <1>20, <3>3, <4>1
    <3> QED
      BY <3>1, <3>2, <3>3
  <2> QED
    BY <1>19, <2>1, <2>2, <2>3 DEF ProcInv
<1>24. /\ DOMAIN arena' = Spaces /\ DOMAIN free_list' = Spaces /\ DOMAIN live' = Spaces
       /\ \A s \in Spaces : s # c => arena'[s] = arena[s] /\ free_list'[s] = free_list[s]
                                     /\ live'[s] = live[s]
       /\ arena'[c] = Inherited(arena[p]) /\ free_list'[c] = <<>> /\ live'[c] = live[p]
  <2>1. DOMAIN arena = Spaces /\ DOMAIN free_list = Spaces /\ DOMAIN live = Spaces
    BY <1>6, <1>7, HeapParts
  <2> QED
    BY <1>1, <1>7, <2>1
<1>25. BootInv'
  <2>1. ~Starting /\ c # InitProc
    BY <1>1, <1>7 DEF BootInv, InitAlone, Starting
  <2>2. InitAlone' /\ (proc[InitProc].state # "starting")'
    BY <1>7, <1>19, <2>1, Constants DEF BootInv, InitAlone, Starting
  <2> QED
    BY <1>1, <1>7, <2>2 DEF BootInv
<1>26. HeapRight(mem', c, arena'[c], free_list'[c], live'[c])
  <2>1. Partition(p, arena[p], Range(free_list[p]), live[p]) /\ ArenasMapped(mem, p, arena[p])
    BY <1>6, <1>7, HeapParts
  <2> DEFINE ar == Inherited(arena[p])
  <2>2. /\ Partition(c, ar, {}, live[p])
        /\ \A v \in Pages(c) : /\ ar[v] = None <=> arena[p][v] = None
                               /\ arena[p][v] # None => ArenaPages(ar, v) = ArenaPages(arena[p], v)
    BY <1>7, <2>1, InheritedHeap
  <2> HIDE DEF ar
  <2>3. ASSUME NEW v \in Pages(p), IsMapped(mem, p, v) PROVE IsMapped(mem', c, v)
    <3>1. p \in Users /\ ~Waiting(c, v)
      BY <1>1, <1>7 DEF Users, Waiting
    <3>2. v \in body
      BY <1>6, <2>3, <3>1 DEF Sound, BitsRight, body
    <3> QED
      BY <1>7, <1>17, <3>1, <3>2 DEF Sound, BitsRight
  <2>4. ArenasMapped(mem', c, ar)
    BY <1>7, <2>1, <2>2, <2>3 DEF ArenasMapped
  <2>5. <<>> \in Seq(Nat \X Nat) /\ IsInjective(<<>>) /\ Range(<<>>) = {}
    BY DEF IsInjective, Range
  <2>6. HeapRight(mem', c, ar, <<>>, live[p])
    BY <2>2, <2>4, <2>5 DEF HeapRight
  <2> QED
    BY <1>24, <2>6 DEF ar
<1>27. HeapInv'
  <2>1. ASSUME NEW s \in Spaces, s # c PROVE HeapRight(mem', s, arena[s], free_list[s], live[s])
    <3>1. \A v \in Pages(s) : IsMapped(mem, s, v) => IsMapped(mem', s, v)
      <4>1. CASE s = Kernel
        BY <1>18, <4>1
      <4>2. CASE s # Kernel
        BY <1>18, <2>1, <4>2 DEF IsMapped, Spaces
      <4> QED
        BY <4>1, <4>2
    <3>2. Apart(s, arena[s], {})
      BY DEF Apart
    <3> QED
      BY <1>6, <3>1, <3>2, HeapKept
  <2> QED
    BY <1>24, <1>26, <2>1 DEF HeapInv
<1>28. KernelArenas'
  <2>1. ASSUME NEW q \in Procs, proc'[q].state # "none"
        PROVE  Apart(Kernel, arena[Kernel], KernelPagesOf(q)')
    <3>1. CASE q = c
      <4>1. ArenasMapped(mem, Kernel, arena[Kernel])
        BY <1>6, <1>7, HeapParts
      <4> QED
        BY <1>13, <1>20, <3>1, <4>1 DEF ArenasMapped, Apart
    <3>2. CASE q # c
      BY <1>6, <1>19, <1>20, <2>1, <3>2 DEF KernelArenas
    <3> QED
      BY <3>1, <3>2
  <2> QED
    BY <1>7, <1>24, <2>1 DEF KernelArenas
<1>29. EmptyHeaps'
  <2>1. ASSUME NEW q \in Procs, proc'[q].state = "hanging"
        PROVE  proc[q].state = "hanging" /\ arena'[q] = arena[q]
    BY <1>19, <1>24, <2>1 DEF Spaces
  <2> QED
    BY <1>6, <2>1 DEF EmptyHeaps
<1>30. LostInv'
  <2>1. Left' = Left /\ IdlePage' = IdlePage /\ lost' = lost
    BY <1>1 DEF Left, IdlePage
  <2>2. ASSUME NEW v PROVE OfProcess(v)' <=> OfProcess(v) \/ v \in new
    <3>1. ASSUME OfProcess(v)' PROVE OfProcess(v) \/ v \in new
      <4>1. PICK q \in Procs : proc'[q].state # "none" /\ v \in KernelPagesOf(q)'
        BY <3>1 DEF OfProcess
      <4> QED
        BY <1>19, <1>20, <4>1 DEF OfProcess
    <3>2. ASSUME OfProcess(v) PROVE OfProcess(v)'
      <4>1. PICK q \in Procs : proc[q].state # "none" /\ v \in KernelPagesOf(q)
        BY <3>2 DEF OfProcess
      <4>2. q # c
        BY <1>1, <4>1
      <4> QED
        BY <1>19, <1>20, <4>1, <4>2 DEF OfProcess
    <3>3. ASSUME v \in new PROVE OfProcess(v)'
      BY <1>19, <1>20, <3>3 DEF OfProcess
    <3> QED
      BY <3>1, <3>2, <3>3
  <2>3. ASSUME NEW v \in Left PROVE IsMapped(mem', Kernel, v) /\ ~OfProcess(v)'
    <3>1. v \in Pages(Kernel) /\ IsMapped(mem, Kernel, v) /\ ~OfProcess(v)
      BY <1>6 DEF LostInv
    <3> QED
      BY <1>13, <1>18, <2>2, <3>1
  <2>4. ASSUME NEW v \in Pages(Kernel), IsMapped(mem', Kernel, v)
        PROVE  v \in Left \/ OfProcess(v)' \/ InArenas(Kernel, arena[Kernel], v)
    BY <1>6, <1>18, <2>2, <2>4 DEF LostInv
  <2>5. arena'[Kernel] = arena[Kernel]
    BY <1>7, <1>24
  <2> QED
    BY <1>6, <2>1, <2>3, <2>4, <2>5 DEF LostInv
<1>31. ExitInv'
  <2>1. Children' = Children \cup {c} /\ c \notin Children
    BY <1>1, <1>7, <1>19 DEF Children, BootInv, InitAlone
  <2>2. /\ IsFiniteSet(Children \cup {c})
        /\ Cardinality(Children \cup {c}) = Cardinality(Children) + 1
        /\ Cardinality(Children) \in Nat
    BY <1>6, <2>1, FS_AddElement, FS_CardinalityType DEF ExitInv
  <2>3. Cardinality(lost) \in Nat
    <3>1. IsFiniteSet(Pages(Kernel)) /\ lost \in SUBSET Pages(Kernel)
      BY <1>6, <1>7, PagesAreNumbers DEF LostInv, Left
    <3> QED
      BY <3>1, FS_Subset, FS_CardinalityType
  <2> QED
    BY <1>1, <1>6, <2>1, <2>2, <2>3 DEF ExitInv
<1>32. /\ MemType(mem)' /\ BitsRight(mem, Users)' /\ Once(Holds(mem, Users), mem.taken)'
  BY <1>1, <1>17, <1>21, SoundNext
<1>33. Other' /\ broken' = "no"
  BY <1>1, <1>23, <1>25, <1>27, <1>28, <1>29, <1>30, <1>31, <1>32 DEF Other, Fine
<1> QED
  BY <1>32, <1>33, StaysFine

-----------------------------------------------------------------------------
(* The first allocations, made one after the other for the kernel. *)

\* The kernel has the pages below n and no process has any.
Booting(m, n) ==
    /\ Sound(m, Spaces) /\ m.vbits[Kernel] = 0..n - 1
    /\ \A p \in Procs : Blank(m, p)

LEMMA BootTaken ==
    ASSUME NEW m, NEW n \in Nat, n <= KPages, Booting(m, n)
    PROVE  IsFiniteSet(m.taken) /\ Cardinality(m.taken) <= n
<1> DEFINE f == [x \in m.taken |-> CHOOSE v \in 0..n - 1 : m.pte[Kernel][v] = x]
<1>1. MemType(m) /\ Once(Holds(m, Spaces), m.taken) /\ Kernel \in Spaces /\ None \notin m.taken
  BY Constants, TypeParts DEF Booting, Sound
<1>2. ASSUME NEW x \in m.taken PROVE \E v \in 0..n - 1 : m.pte[Kernel][v] = x
  <2>1. PICK y \in Places : Holds(m, Spaces)[y] = x
    BY <1>1 DEF Once
  <2>2. PICK s \in Spaces, i \in -2..KPages + HeapPages : y = <<s, i>>
    BY Pairs
  <2>3. x # None
    BY <1>1
  <2>4. CASE s = Kernel
    <3>1. i \in Pages(Kernel) /\ m.pte[Kernel][i] = x
      BY <1>1, <2>1, <2>2, <2>3, <2>4, HoldsAt
    <3>2. i \in m.vbits[Kernel]
      BY <1>1, <2>3, <3>1 DEF Booting, Sound, BitsRight, IsMapped
    <3> QED
      BY <3>1, <3>2 DEF Booting
  <2>5. CASE s # Kernel
    <3>1. s \in Procs /\ Blank(m, s)
      BY <2>5 DEF Booting, Spaces
    <3>2. /\ i \in Pages(s) => m.pte[s][i] = None
          /\ i < 0 => m.pde[s][-1 - i] = None
      BY <3>1 DEF Blank, NoPages, NoTables, Regions
    <3>3. Holds(m, Spaces)[<<s, i>>] = None
      BY <3>2, HoldsAt
    <3> QED
      BY <2>1, <2>2, <2>3, <3>3
  <2> QED
    BY <2>4, <2>5
<1>3. \A x \in m.taken : f[x] \in 0..n - 1 /\ m.pte[Kernel][f[x]] = x
  BY <1>2
<1>4. f \in [m.taken -> 0..n - 1]
  BY <1>3
<1>5. \A x, y \in m.taken : f[x] = f[y] => x = y
  BY <1>3
<1> HIDE DEF f
<1>6. f \in Injection(m.taken, 0..n - 1)
  BY <1>4, <1>5 DEF Injection, IsInjective
<1>7. IsFiniteSet(0..n - 1) /\ Cardinality(0..n - 1) = n
  BY FS_Interval, 0 \in Int, n - 1 \in Int
<1> QED
  BY <1>6, <1>7, FS_Injection

LEMMA BootMalloc ==
    ASSUME NEW m, NEW n \in Nat, Booting(m, n), NEW cnt \in Nat \ {0},
           n + cnt < KPages, n + cnt < KFrames, n + cnt < UINT8
    PROVE  /\ malloc_page(m, Kernel, cnt).vaddr = n
           /\ Booting(malloc_page(m, Kernel, cnt).mem, n + cnt)
<1> DEFINE r == malloc_page(m, Kernel, cnt)
           free == FreeFrames(m, KernelPool)
           runs == FreeRuns(m, Kernel, cnt)
<1>1. Kernel \in Spaces /\ Pages(Kernel) = 0..KPages - 1 /\ PoolOf(Kernel) = KernelPool
  BY Constants DEF Pages, PoolOf
<1>2. /\ n \in runs /\ runs \in SUBSET Nat
      /\ \A v \in runs : v \in Nat /\ v \notin 0..n - 1
  <2>1. n \in Pages(Kernel) /\ n + cnt \in Pages(Kernel) /\ n..n + cnt - 1 \cap 0..n - 1 = {}
    BY <1>1, Constants
  <2>2. n \in runs
    BY <2>1 DEF FreeRuns, Booting, UINT8
  <2>3. \A v \in runs : v \in Nat /\ v \in v..v + cnt - 1 /\ v..v + cnt - 1 \cap 0..n - 1 = {}
    BY <1>1, Constants DEF FreeRuns, Booting
  <2> QED
    BY <2>2, <2>3
<1>3. vaddr_get(m, Kernel, cnt) = n
  <2> HIDE DEF runs
  <2>1. Min(runs) \in runs /\ Min(runs) <= n
    BY <1>2, MinElement
  <2>2. Min(runs) \in Nat /\ Min(runs) \notin 0..n - 1
    BY <1>2, <2>1
  <2>3. Min(runs) = n
    BY <2>1, <2>2
  <2> QED
    BY <2>3 DEF vaddr_get, runs
<1>4. Cardinality(free) >= cnt
  <2> DEFINE low == 0..n + cnt - 1
             left == low \ m.taken
  <2>1. IsFiniteSet(m.taken) /\ Cardinality(m.taken) <= n
    BY BootTaken, Constants
  <2>2. IsFiniteSet(low) /\ Cardinality(low) = n + cnt
    <3>1. 0 \in Int /\ n + cnt - 1 \in Int /\ 0 <= n + cnt - 1 /\ (n + cnt - 1) - 0 + 1 = n + cnt
      OBVIOUS
    <3>2. /\ IsFiniteSet(low)
          /\ Cardinality(low) = IF 0 > n + cnt - 1 THEN 0 ELSE (n + cnt - 1) - 0 + 1
      BY <3>1, FS_Interval
    <3> HIDE DEF low
    <3> QED
      BY <3>1, <3>2
  <2>3. /\ IsFiniteSet(left)
        /\ Cardinality(left) = Cardinality(low) - Cardinality(low \cap m.taken)
    <3> HIDE DEF low
    <3> QED
      BY <2>2, FS_Difference
  <2>4. /\ Cardinality(m.taken \cap low) <= Cardinality(m.taken)
        /\ low \cap m.taken = m.taken \cap low
        /\ IsFiniteSet(m.taken \cap low)
    <3> HIDE DEF low
    <3> QED
      BY <2>1, FS_Intersection
  <2>5. /\ Cardinality(m.taken) \in Nat /\ Cardinality(m.taken \cap low) \in Nat
        /\ Cardinality(left) \in Nat
    BY <2>1, <2>3, <2>4, FS_CardinalityType
  <2>6. Cardinality(left) >= cnt
    <3> DEFINE a == Cardinality(left)
               b == Cardinality(m.taken)
               c == Cardinality(m.taken \cap low)
    <3>1. a = n + cnt - c /\ c <= b /\ b <= n /\ a \in Nat /\ b \in Nat /\ c \in Nat
      <4>1. Cardinality(low \cap m.taken) = c
        BY <2>4
      <4> HIDE DEF low, left
      <4> QED
        BY <2>1, <2>2, <2>3, <2>4, <2>5, <4>1
    <3> HIDE DEF a, b, c
    <3>2. a >= cnt
      BY <3>1
    <3> QED
      BY <3>2 DEF a
  <2>7. Min(KernelPool) = 0 /\ Max(KernelPool) = KFrames - 1
    <3>1. /\ 0 \in KernelPool /\ KFrames - 1 \in KernelPool
          /\ \A y \in KernelPool : 0 <= y /\ y <= KFrames - 1 /\ y \in Nat
      BY Constants DEF KernelPool
    <3>2. Min(KernelPool) \in KernelPool /\ Min(KernelPool) <= 0
      BY <3>1, MinElement, FramesAreNumbers
    <3>3. Max(KernelPool) \in KernelPool /\ \A y \in KernelPool : Max(KernelPool) >= y
      <4>1. \A y \in KernelPool : KFrames - 1 >= y
        BY <3>1, Constants
      <4> QED
        BY <3>1, <4>1 DEF Max
    <3> QED
      BY <3>1, <3>2, <3>3, Constants
  <2>8. left \subseteq free
    <3>1. ASSUME NEW f \in left PROVE f \in free
      <4>1. f \in KernelPool \ m.taken /\ f # KFrames - 1 /\ f - 0 < UINT8
        BY Constants DEF KernelPool, UINT8
      <4> QED
        BY <2>7, <4>1 DEF FreeFrames
    <3> QED
      BY <3>1
  <2>9. IsFiniteSet(free) /\ Cardinality(free) \in Nat
    BY <1>1, FreeFinite, FS_CardinalityType
  <2> HIDE DEF left, free
  <2>10. Cardinality(left) <= Cardinality(free)
    BY <2>8, <2>9, FS_Subset
  <2> QED
    BY <2>5, <2>6, <2>9, <2>10
<1>5. Room(m, Kernel, cnt)
  BY <1>1, <1>2, <1>4 DEF Room
<1>6. Sound(m, Spaces) /\ r.vaddr = n
  BY <1>3 DEF Booting, malloc_page
<1>7. Allocated(m, r, cnt, Spaces)
  BY <1>1, <1>5, <1>6, KernelMalloc
<1> HIDE DEF r
<1>8. Booting(r.mem, n + cnt)
  <2>1. Sound(r.mem, Spaces) /\ Grown(m, r.mem, Kernel, n..n + cnt - 1)
    BY <1>6, <1>7 DEF Allocated, Run
  <2>2. r.mem.vbits[Kernel] = 0..n - 1 \cup n..n + cnt - 1
    BY <2>1 DEF Grown, Booting
  <2>3. r.mem.vbits[Kernel] = 0..n + cnt - 1
    BY <2>2
  <2>4. ASSUME NEW p \in Procs PROVE Blank(r.mem, p)
    <3>1. Blank(m, p) /\ p # Kernel /\ p \in Spaces
      BY Constants DEF Booting, Spaces
    <3> QED
      BY <2>1, <3>1 DEF Grown, Elsewhere, Blank
  <2> QED
    BY <2>1, <2>3, <2>4 DEF Booting
<1> QED
  BY <1>6, <1>8 DEF r

EmptyMemory == [taken |-> {}, vbits |-> [s \in Spaces |-> {}],
                pte |-> [s \in Spaces |-> NoPages(s)], pde |-> [p \in Procs |-> NoTables]]

LEMMA BootEmpty == ASSUME main.pc = "out" PROVE Booting(EmptyMemory, 0)
<1> DEFINE m == EmptyMemory
<1>1. /\ m.taken = {} /\ \A s \in Spaces : m.vbits[s] = {} /\ m.pte[s] = NoPages(s)
      /\ \A p \in Procs : m.pde[p] = NoTables
  BY DEF EmptyMemory
<1>2. \A s \in Spaces : NoPages(s) \in [Pages(s) -> PoolOf(s) \cup {None}]
  BY DEF NoPages
<1>3. MemType(m)
  <2>1. [s \in Spaces |-> NoPages(s)] \in [Spaces -> Directories]
    BY <1>2 DEF Directories
  <2>2. [p \in Procs |-> NoTables] \in [Procs -> [Regions -> KernelPool \cup {None}]]
    BY DEF NoTables
  <2>3. m \in [taken : SUBSET Frames, vbits : [Spaces -> SUBSET Nat],
               pte : [Spaces -> Directories],
               pde : [Procs -> [Regions -> KernelPool \cup {None}]]]
    BY <2>1, <2>2 DEF EmptyMemory
  <2> QED
    BY <1>1, <1>2, <2>3 DEF MemType
<1> HIDE DEF m
<1>4. ASSUME NEW x \in Places PROVE Holds(m, Spaces)[x] = None
  <2>1. PICK s \in Spaces, i \in -2..KPages + HeapPages : x = <<s, i>>
    BY Pairs
  <2>2. /\ i \in Pages(s) => m.pte[s][i] = None
        /\ s # Kernel /\ i < 0 => m.pde[s][-1 - i] = None
    <3>1. i < 0 => -1 - i \in Regions
      BY DEF Regions
    <3>2. /\ i \in Pages(s) => NoPages(s)[i] = None
          /\ i < 0 => NoTables[-1 - i] = None
      BY <3>1 DEF NoPages, NoTables
    <3> QED
      BY <1>1, <3>2 DEF Spaces
  <2> QED
    BY <2>1, <2>2, HoldsAt
<1>5. Once(Holds(m, Spaces), m.taken)
  BY <1>1, <1>4 DEF Once
<1>6. Sound(m, Spaces)
  BY <1>1, <1>3, <1>5 DEF Sound, BitsRight, Waiting, IsMapped, NoPages
<1>7. \A p \in Procs : Blank(m, p)
  BY <1>1 DEF Blank, Spaces
<1>8. m.vbits[Kernel] = 0..0 - 1
  BY <1>1, Constants
<1> QED
  BY <1>6, <1>7, <1>8 DEF Booting, m

LEMMA InitInv == Init => MemInv
<1> SUFFICES ASSUME Init PROVE MemInv
  OBVIOUS
<1> DEFINE pcb == malloc_page(EmptyMemory, Kernel, 1)
           bits == malloc_page(pcb.mem, Kernel, BitmapPages)
           pgdir == malloc_page(bits.mem, Kernel, 1)
           idle == malloc_page(pgdir.mem, Kernel, 1)
           B == BitmapPages
<1>0. /\ B \in Nat \ {0} /\ KPages \in Nat /\ KFrames \in Nat /\ 1 \in Nat \ {0}
      /\ KPages > B + 3 /\ KFrames > B + 4 /\ B + 4 < UINT8 /\ UINT8 \in Nat
  BY Constants, MemoryAssumption DEF UINT8
<1> HIDE DEF B
<1>1. /\ mem = idle.mem
      /\ proc = [p \in Procs |->
              [state |-> IF p = InitProc THEN "ready" ELSE "none",
               pcb |-> pcb.vaddr, bits |-> bits.vaddr, pgdir |-> pgdir.vaddr]]
      /\ arena = [s \in Spaces |-> NoPages(s)] /\ free_list = [s \in Spaces |-> <<>>]
      /\ live = [s \in Spaces |-> {}] /\ main = [pc |-> "out", vaddr |-> 0, frame |-> 0]
      /\ forks = 0 /\ lost = {} /\ broken = "no"
  BY DEF Init, EmptyMemory
<1>2. pcb.vaddr = 0 /\ Booting(pcb.mem, 1)
  <2>1. 0 + 1 < KPages /\ 0 + 1 < KFrames /\ 0 + 1 < UINT8 /\ 0 \in Nat
    BY <1>0
  <2>2. pcb.vaddr = 0 /\ Booting(pcb.mem, 0 + 1)
    BY <1>0, <1>1, <2>1, BootEmpty, BootMalloc
  <2> QED
    BY <2>2
<1> HIDE DEF pcb
<1>3. bits.vaddr = 1 /\ Booting(bits.mem, 1 + B)
  <2>1. 1 + B < KPages /\ 1 + B < KFrames /\ 1 + B < UINT8 /\ 1 \in Nat
    BY <1>0
  <2> QED
    BY <1>0, <1>2, <2>1, BootMalloc DEF B
<1> HIDE DEF bits
<1>4. pgdir.vaddr = B + 1 /\ Booting(pgdir.mem, B + 2)
  <2>1. (1 + B) + 1 < KPages /\ (1 + B) + 1 < KFrames /\ (1 + B) + 1 < UINT8
        /\ 1 + B \in Nat
    BY <1>0
  <2>2. pgdir.vaddr = 1 + B /\ Booting(pgdir.mem, (1 + B) + 1)
    BY <1>0, <1>3, <2>1, BootMalloc
  <2>3. 1 + B = B + 1 /\ (1 + B) + 1 = B + 2
    BY <1>0
  <2> QED
    BY <2>2, <2>3
<1> HIDE DEF pgdir
<1>5. Booting(mem, B + 3)
  <2>1. (B + 2) + 1 < KPages /\ (B + 2) + 1 < KFrames /\ B + 2 \in Nat /\ (B + 2) + 1 = B + 3
    BY <1>0
  <2>2. Booting(idle.mem, (B + 2) + 1)
    BY <1>0, <1>4, <2>1, BootMalloc
  <2> QED
    BY <1>1, <2>1, <2>2
<1> HIDE DEF idle
<1>6. /\ proc \in [Procs -> [state : {"none", "ready", "starting", "alive", "hanging"},
                            pcb : Nat, bits : Nat, pgdir : Nat]]
      /\ \A p \in Procs : /\ proc[p].state = IF p = InitProc THEN "ready" ELSE "none"
                          /\ proc[p].pcb = 0 /\ proc[p].bits = 1 /\ proc[p].pgdir = B + 1
  <2>1. pcb.vaddr \in Nat /\ bits.vaddr \in Nat /\ pgdir.vaddr \in Nat
    BY <1>0, <1>2, <1>3, <1>4
  <2> QED
    BY <1>1, <1>2, <1>3, <1>4, <2>1
<1>7. Users = Spaces /\ \A s, v : ~Waiting(s, v)
  BY <1>1, <1>6 DEF Users, Spaces, Waiting
<1>8. /\ Sound(mem, Spaces) /\ mem.vbits[Kernel] = 0..B + 2 /\ \A p \in Procs : Blank(mem, p)
      /\ Kernel \in Spaces
  BY <1>0, <1>5, Constants DEF Booting
<1>9. BitsOf(InitProc) = 1..B /\ KernelPagesOf(InitProc) = 0..B + 1
  <2>1. BitsOf(InitProc) = 1..B
    BY <1>0, <1>6, Constants DEF BitsOf, B
  <2>2. KernelPagesOf(InitProc) = {0, B + 1} \cup 1..B
    BY <1>6, <2>1, Constants DEF KernelPagesOf
  <2> QED
    BY <1>0, <2>1, <2>2
<1>10. ProcInv
  <2>1. /\ KernelPagesOf(InitProc) \subseteq Pages(Kernel)
        /\ \A v \in KernelPagesOf(InitProc) : IsMapped(mem, Kernel, v)
    <3>1. 0..B + 1 \subseteq Pages(Kernel) /\ 0..B + 1 \subseteq 0..B + 2
      BY <1>0 DEF Pages
    <3> QED
      BY <1>7, <1>8, <1>9, <3>1 DEF Sound, BitsRight
  <2>2. {proc[InitProc].pcb, proc[InitProc].pgdir} \cap BitsOf(InitProc) = {}
    BY <1>0, <1>6, <1>9, Constants
  <2> QED
    BY <1>6, <1>8, <2>1, <2>2 DEF ProcInv
<1>11. BootInv
  <2>1. InitAlone /\ proc[InitProc].state # "starting"
    BY <1>6, Constants DEF InitAlone
  <2> QED
    BY <1>1, <2>1 DEF BootInv
<1>12. HeapInv
  BY <1>1, NoHeap DEF HeapInv
<1>13. \A s \in Spaces : \A v \in Pages(s) : arena[s][v] = None
  BY <1>1 DEF NoPages
<1>14. KernelArenas /\ EmptyHeaps
  BY <1>8, <1>13 DEF KernelArenas, EmptyHeaps, Apart, Spaces
<1>15. LostInv
  <2>1. Left = {B + 2} /\ IdlePage = B + 2
    BY <1>1 DEF Left, IdlePage, B
  <2>2. \A v : OfProcess(v) <=> v \in 0..B + 1
    BY <1>6, <1>9, Constants DEF OfProcess
  <2>3. B + 2 \in Pages(Kernel) /\ B + 2 \in 0..B + 2 /\ B + 2 \notin 0..B + 1
    BY <1>0 DEF Pages
  <2>4. \A v \in Pages(Kernel) : IsMapped(mem, Kernel, v) <=> v \in 0..B + 2
    BY <1>7, <1>8 DEF Sound, BitsRight
  <2>5. \A v \in 0..B + 2 : v \in 0..B + 1 \/ v = B + 2
    BY <1>0
  <2>6. Apart(Kernel, arena[Kernel], Left)
    BY <1>8, <1>13 DEF Apart
  <2> QED
    BY <1>1, <2>1, <2>2, <2>3, <2>4, <2>5, <2>6 DEF LostInv
<1>16. ExitInv
  <2>1. Children = {}
    BY <1>6 DEF Children
  <2> QED
    BY <1>1, <2>1, FS_EmptySet DEF ExitInv
<1> QED
  BY <1>1, <1>7, <1>8, <1>10, <1>11, <1>12, <1>14, <1>15, <1>16 DEF MemInv, Sound

LEMMA Stutter == MemInv /\ UNCHANGED vars => MemInv'
<1> SUFFICES ASSUME MemInv, UNCHANGED vars PROVE MemInv'
  OBVIOUS
<1>1. UNCHANGED <<mem, arena, free_list, live, proc, main, ptt, forks, lost, broken>>
  BY DEF vars, heapVars, bootVars, history
<1>2. /\ Users' = Users /\ (BitsRight(mem, Users) => BitsRight(mem, Users)')
      /\ (ProcInv => ProcInv') /\ (BootInv => BootInv')
      /\ (KernelArenas => KernelArenas') /\ (EmptyHeaps => EmptyHeaps')
      /\ (LostInv => LostInv') /\ (ExitInv => ExitInv')
  BY <1>1, Unmoved
<1>3. (HeapInv => HeapInv') /\ (HeapTyped => HeapTyped')
  BY <1>1 DEF HeapInv, HeapTyped
<1>4. /\ Once(Holds(mem, Users), mem.taken) => Once(Holds(mem, Users), mem.taken)'
      /\ OnceBut(Holds(mem, Users), mem.taken) => OnceBut(Holds(mem, Users), mem.taken)'
  <2>1. Holds(mem, Users)' = Holds(mem, Users) /\ mem' = mem
    BY <1>1, <1>2
  <2>2. \A x, y : Clash(x, y)' <=> Clash(x, y)
    BY <1>1 DEF Clash
  <2> DEFINE h == Holds(mem, Users)
  <2>3. h' = h
    BY <2>1
  <2> HIDE DEF h
  <2>4. (OnceBut(h, mem.taken) => OnceBut(h, mem.taken)') /\ (Once(h, mem.taken) => Once(h, mem.taken)')
    BY <2>1, <2>2, <2>3 DEF OnceBut, Once
  <2> QED
    BY <2>4 DEF h
<1> QED
  BY <1>1, <1>2, <1>3, <1>4 DEF MemInv

(***************************************************************************)
(* Every call of the memory manager, of fork and of exit keeps pools, page *)
(* tables, virtual bitmaps and heaps consistent, also when timer ticks     *)
(* come between the scan of a pool's bitmap and the bitmap_set: until one  *)
(* of the two steps that give a frame to two owners, or one that releases  *)
(* a block that was inherited, and in that state all that is left of it.   *)
(***************************************************************************)
THEOREM MemoryInvariant == Spec => []MemInv
<1>1. ASSUME MemInv, Next PROVE MemInv'
  <2>0. Fine
    BY <1>1 DEF Fine, Next
  <2>1. ASSUME NEW s \in Spaces, sys_malloc(s) PROVE MemInv'
    BY <2>0, <2>1, SysMalloc
  <2>2. ASSUME NEW s \in Spaces, NEW cnt \in LargeSizes, sys_malloc_large(s, cnt) PROVE MemInv'
    BY <2>0, <2>2, SysMallocLarge
  <2>3. ASSUME NEW s \in Spaces, NEW ptr \in live[s], sys_free(s, ptr) PROVE MemInv'
    BY <2>0, <2>3, SysFree
  <2>4. ASSUME NEW p \in Procs, NEW c \in Procs, sys_fork(p, c) PROVE MemInv'
    BY <2>0, <2>4, SysFork
  <2>5. ASSUME NEW p \in Procs, NEW ptr \in live[p], sys_free_inherited(p, ptr) PROVE MemInv'
    BY <2>0, <2>5, SysFreeInherited
  <2>6. ASSUME NEW p \in Procs, start_process_scan(p) PROVE MemInv'
    BY <2>0, <2>6, StartProcessScan
  <2>7. ASSUME NEW p \in Procs, start_process_set(p) PROVE MemInv'
    BY <2>0, <2>7, StartProcessSet
  <2>8. ASSUME NEW p \in Procs, sys_exit(p) PROVE MemInv'
    BY <2>0, <2>8, SysExit
  <2>9. ASSUME NEW p \in Procs, thread_exit(p) PROVE MemInv'
    BY <2>0, <2>9, ThreadExit
  <2>10. CASE main_vaddr_get
    BY <2>0, <2>10, MainVaddrGet
  <2>11. CASE main_palloc_scan
    BY <2>0, <2>11, MainPallocScan
  <2>12. CASE main_palloc_set
    BY <2>0, <2>12, MainPallocSet
  <2> QED
    BY <1>1, <2>1, <2>2, <2>3, <2>4, <2>5, <2>6, <2>7, <2>8, <2>9, <2>10, <2>11, <2>12 DEF Next
<1> QED
  BY <1>1, InitInv, Stutter, PTL DEF Spec

-----------------------------------------------------------------------------
(* What the invariant says about frames, pages and heaps. *)

\* A page in use, or a page table, has its place.
LEMMA InPlace ==
    ASSUME MemInv
    PROVE  /\ \A x \in MappedPages :
                 /\ x \in Places /\ x[2] \in Nat /\ FrameOf(x) # None
                 /\ Holds(mem, Users)[x] = FrameOf(x)
           /\ \A x \in PageTables :
                 /\ <<x[1], -1 - x[2]>> \in Places /\ x[2] \in Regions /\ TableOf(x) # None
                 /\ Holds(mem, Users)[<<x[1], -1 - x[2]>>] = TableOf(x)
<1>1. Users \in SUBSET Spaces
  BY DEF Users
<1>2. \A s \in Spaces : InUse(s) => s \in Users
  BY DEF InUse, Users
<1>3. ASSUME NEW x \in MappedPages
      PROVE  /\ x \in Places /\ x[2] \in Nat /\ FrameOf(x) # None
             /\ Holds(mem, Users)[x] = FrameOf(x)
  <2>1. PICK s \in Spaces, v \in 0..KPages + HeapPages : x = <<s, v>>
    BY DEF MappedPages
  <2>2. InUse(s) /\ v \in Pages(s) /\ FrameOf(x) # None /\ FrameOf(x) = mem.pte[s][v]
    BY <2>1 DEF MappedPages, FrameOf
  <2>3. v \in -2..KPages + HeapPages /\ v \in Nat
    BY <2>2, PagesAreNumbers
  <2> QED
    BY <1>1, <1>2, <2>1, <2>2, <2>3, HoldsAt
<1>4. ASSUME NEW x \in PageTables
      PROVE  /\ <<x[1], -1 - x[2]>> \in Places /\ x[2] \in Regions /\ TableOf(x) # None
             /\ Holds(mem, Users)[<<x[1], -1 - x[2]>>] = TableOf(x)
  <2>1. PICK p \in Procs, r \in Regions : x = <<p, r>>
    BY DEF PageTables
  <2>2. InUse(p) /\ TableOf(x) # None /\ TableOf(x) = mem.pde[p][r]
    BY <2>1 DEF PageTables, TableOf
  <2>3. p \in Spaces /\ p # Kernel
    BY Constants DEF Spaces
  <2> DEFINE i == -1 - r
  <2>4. i \in -2..KPages + HeapPages /\ i < 0 /\ -1 - i = r /\ i \notin Pages(p)
    BY <2>3, Constants, PagesAreNumbers DEF Regions
  <2> HIDE DEF i
  <2>5. <<p, i>> \in Places /\ Holds(mem, Users)[<<p, i>>] = mem.pde[p][r]
    BY <1>1, <1>2, <2>2, <2>3, <2>4, HoldsAt
  <2> QED
    BY <2>1, <2>2, <2>5 DEF i
<1> QED
  BY <1>3, <1>4

\* And what has a place is one of them.
LEMMA PlaceOwned ==
    ASSUME MemInv, NEW y \in Places, Holds(mem, Users)[y] # None
    PROVE  Holds(mem, Users)[y] \in OwnedFrames
<1>1. PICK s \in Spaces, i \in -2..KPages + HeapPages : y = <<s, i>>
  BY Pairs
<1>2. Users \in SUBSET Spaces
  BY DEF Users
<1>3. s \in Users /\ (i \in Pages(s) \/ (s # Kernel /\ i < 0))
  BY <1>1, <1>2, HoldsAt
<1>4. InUse(s)
  <2>1. CASE s = Kernel
    BY <2>1 DEF InUse
  <2>2. CASE s # Kernel
    <3>1. s \in Procs /\ proc[s].state # "hanging"
      BY <1>3, <2>2 DEF Users, Spaces
    <3>2. proc[s].state # "none"
      <4> SUFFICES ASSUME proc[s].state = "none" PROVE FALSE
        OBVIOUS
      <4>1. mem.pte[s] = NoPages(s) /\ mem.pde[s] = NoTables
        BY <3>1 DEF MemInv, ProcInv, Blank
      <4>2. i < 0 => -1 - i \in Regions
        BY DEF Regions
      <4>3. /\ i \in Pages(s) => mem.pte[s][i] = None
            /\ i < 0 => mem.pde[s][-1 - i] = None
        BY <4>1, <4>2 DEF NoPages, NoTables
      <4> QED
        BY <1>1, <1>2, <4>3, HoldsAt
    <3>3. proc[s].state \in {"none", "ready", "starting", "alive", "hanging"}
      BY <3>1 DEF MemInv, ProcInv
    <3> QED
      BY <2>2, <3>1, <3>2, <3>3 DEF InUse
  <2> QED
    BY <2>1, <2>2
<1>5. CASE i \in Pages(s)
  <2>1. Holds(mem, Users)[y] = mem.pte[s][i]
    BY <1>1, <1>2, <1>3, <1>5, HoldsAt
  <2>2. FrameOf(y) = mem.pte[s][i] /\ y[1] = s /\ y[2] = i
    BY <1>1 DEF FrameOf
  <2>3. i \in 0..KPages + HeapPages
    BY <1>5, PagesAreNumbers
  <2>4. y \in MappedPages
    BY <1>1, <1>4, <1>5, <2>1, <2>2, <2>3 DEF MappedPages
  <2> QED
    BY <2>1, <2>2, <2>4 DEF OwnedFrames
<1>6. CASE i \notin Pages(s)
  <2> DEFINE r == -1 - i
             x == <<s, r>>
  <2>1. s \in Procs /\ r \in Regions /\ Holds(mem, Users)[y] = mem.pde[s][r]
    <3>1. s # Kernel /\ i < 0
      BY <1>3, <1>6
    <3>2. r \in Regions /\ s \in Procs
      BY <3>1 DEF Regions, Spaces
    <3> QED
      BY <1>1, <1>2, <1>3, <1>6, <3>1, <3>2, HoldsAt
  <2> HIDE DEF r
  <2>2. TableOf(x) = mem.pde[s][r] /\ x[1] = s
    BY DEF TableOf
  <2>3. x \in PageTables
    BY <1>4, <2>1, <2>2 DEF PageTables
  <2> QED
    BY <2>1, <2>2, <2>3 DEF OwnedFrames
<1> QED
  BY <1>5, <1>6

\* Two places with one frame, and the frames that are marked taken.
LEMMA Places2 ==
    ASSUME MemInv
    PROVE  /\ \A x, y \in Places :
                 Holds(mem, Users)[x] # None /\ Holds(mem, Users)[x] = Holds(mem, Users)[y] =>
                     x = y \/ (broken = "frame" /\ (Clash(x, y) \/ Clash(y, x)))
           /\ \A f \in mem.taken : \E x \in Places : Holds(mem, Users)[x] = f
           /\ \A x \in Places : Holds(mem, Users)[x] # None => Holds(mem, Users)[x] \in mem.taken
<1> DEFINE h == Holds(mem, Users)
<1>1. IF broken = "frame" THEN OnceBut(h, mem.taken) ELSE Once(h, mem.taken)
  BY DEF MemInv
<1> HIDE DEF h
<1>2. /\ \A x, y \in Places : h[x] # None /\ h[x] = h[y] =>
             x = y \/ (broken = "frame" /\ (Clash(x, y) \/ Clash(y, x)))
      /\ \A f \in mem.taken : \E x \in Places : h[x] = f
      /\ \A x \in Places : h[x] # None => h[x] \in mem.taken
  <2>1. CASE broken = "frame"
    BY <1>1, <2>1 DEF OnceBut
  <2>2. CASE broken # "frame"
    BY <1>1, <2>2 DEF Once
  <2> QED
    BY <2>1, <2>2
<1> QED
  BY <1>2 DEF h

LEMMA Returned == ASSUME MemInv PROVE FramesReturned
<1>1. None \notin mem.taken
  BY TypeParts DEF MemInv
<1>2. ASSUME NEW f \in mem.taken PROVE f \in OwnedFrames
  <2>1. PICK y \in Places : Holds(mem, Users)[y] = f
    BY Places2
  <2> QED
    BY <1>1, <2>1, PlaceOwned
<1>3. ASSUME NEW v
      PROVE  /\ v \in UNION {KernelPagesOf(p) : p \in {q \in Procs : proc[q].state # "none"}} <=> OfProcess(v)
             /\ v \in UNION {ArenaPages(arena[Kernel], w) :
                               w \in {u \in Pages(Kernel) : arena[Kernel][u] # None}}
                    <=> InArenas(Kernel, arena[Kernel], v)
  BY DEF OfProcess, InArenas
<1>4. LostInv
  BY DEF MemInv
<1>5. StrayPages = lost
  <2> DEFINE A == UNION {KernelPagesOf(p) : p \in {q \in Procs : proc[q].state # "none"}}
             B == UNION {ArenaPages(arena[Kernel], v) :
                            v \in {w \in Pages(Kernel) : arena[Kernel][w] # None}}
  <2>3. StrayPages = {v \in Pages(Kernel) : mem.pte[Kernel][v] # None /\ v # IdlePage} \ (A \cup B)
    BY DEF StrayPages
  <2>4. \A v : (v \in A <=> OfProcess(v)) /\ (v \in B <=> InArenas(Kernel, arena[Kernel], v))
    BY <1>3
  <2> HIDE DEF A, B
  <2>1. ASSUME NEW v
        PROVE  v \in StrayPages <=>
                  /\ v \in Pages(Kernel) /\ IsMapped(mem, Kernel, v) /\ v # IdlePage
                  /\ ~OfProcess(v) /\ ~InArenas(Kernel, arena[Kernel], v)
    BY <2>3, <2>4 DEF IsMapped
  <2>2. ASSUME NEW v \in lost PROVE v \in StrayPages
    <3>1. v \in Left /\ v \in Pages(Kernel) /\ v # IdlePage /\ IsMapped(mem, Kernel, v) /\ ~OfProcess(v)
      BY <1>4 DEF LostInv, Left
    <3>2. ~InArenas(Kernel, arena[Kernel], v)
      BY <1>4, <3>1 DEF LostInv, Apart, InArenas
    <3> QED
      BY <2>1, <3>1, <3>2
  <2>5. ASSUME NEW v \in StrayPages PROVE v \in lost
    BY <1>4, <2>1 DEF LostInv, Left
  <2> QED
    BY <2>2, <2>5
<1>6. Cardinality(lost) + Cardinality(Children) = forks
  BY DEF MemInv, ExitInv
<1> QED
  BY <1>2, <1>5, <1>6 DEF FramesReturned, Children

LEMMA OwnedOnce == ASSUME MemInv PROVE FramesOwnedOnce
<1> DEFINE h == Holds(mem, Users)
<1>1. /\ \A x, y \in Places : h[x] # None /\ h[x] = h[y] =>
             x = y \/ (broken = "frame" /\ (Clash(x, y) \/ Clash(y, x)))
      /\ \A x \in Places : h[x] # None => h[x] \in mem.taken
  BY Places2
<1>2. /\ \A x \in MappedPages : x \in Places /\ x[2] \in Nat /\ FrameOf(x) # None /\ h[x] = FrameOf(x)
      /\ \A x \in PageTables : /\ <<x[1], -1 - x[2]>> \in Places /\ x[2] \in Regions
                               /\ TableOf(x) # None /\ h[<<x[1], -1 - x[2]>>] = TableOf(x)
  BY InPlace
<1> HIDE DEF h
<1>3. \A x, y : Clash(x, y) => x[1] = Kernel /\ x[2] \in Nat /\ y[2] < 0
                               /\ (x[2] = main.vaddr \/ y = <<InitProc, -2>>)
  BY PagesAreNumbers, Constants DEF Clash
<1>4. \A x, y \in MappedPages : FrameOf(x) = FrameOf(y) => x = y
  <2> SUFFICES ASSUME NEW x \in MappedPages, NEW y \in MappedPages, FrameOf(x) = FrameOf(y)
               PROVE  x = y
    OBVIOUS
  <2>1. /\ x \in Places /\ y \in Places /\ h[x] # None /\ h[x] = h[y]
        /\ x[2] \in Nat /\ y[2] \in Nat
    BY <1>2
  <2>2. ~Clash(x, y) /\ ~Clash(y, x)
    BY <1>3, <2>1
  <2> QED
    BY <1>1, <2>1, <2>2
<1>5. \A x, y \in PageTables : TableOf(x) = TableOf(y) => x = y
  <2> SUFFICES ASSUME NEW x \in PageTables, NEW y \in PageTables, TableOf(x) = TableOf(y)
               PROVE  x = y
    OBVIOUS
  <2> DEFINE a == <<x[1], -1 - x[2]>>
             b == <<y[1], -1 - y[2]>>
  <2>0. a \in Places /\ b \in Places /\ h[a] # None /\ h[a] = h[b]
    BY <1>2
  <2>1. x[2] \in {0, 1} /\ y[2] \in {0, 1}
    BY <1>2 DEF Regions
  <2>2. ~(a[2] \in Nat) /\ ~(b[2] \in Nat)
    BY <2>1
  <2>3. a = b
    <3> HIDE DEF a, b
    <3> QED
      BY <1>1, <1>3, <2>0, <2>2
  <2>4. x[1] = y[1] /\ -1 - x[2] = -1 - y[2]
    BY <2>3
  <2>5. x[2] = y[2]
    BY <2>1, <2>4
  <2> QED
    BY <2>4, <2>5 DEF PageTables
<1>6. ASSUME NEW x \in MappedPages, NEW y \in PageTables, FrameOf(x) = TableOf(y)
      PROVE  broken = "frame" /\ x[1] = Kernel /\ (x[2] = main.vaddr \/ y = <<InitProc, 1>>)
  <2> DEFINE b == <<y[1], -1 - y[2]>>
  <2>0. x \in Places /\ b \in Places /\ h[x] # None /\ h[x] = h[b] /\ x[2] \in Nat
    BY <1>2, <1>6
  <2>1. y[2] \in {0, 1}
    BY <1>2 DEF Regions
  <2>2. ~(b[2] \in Nat) /\ x # b
    BY <2>0, <2>1
  <2>3. broken = "frame" /\ Clash(x, b)
    <3> HIDE DEF b
    <3> QED
      BY <1>1, <1>3, <2>0, <2>2
  <2>4. ASSUME b = <<InitProc, -2>> PROVE y = <<InitProc, 1>>
    <3>1. y[1] = InitProc /\ -1 - y[2] = -2
      BY <2>4
    <3>2. y[2] = 1
      BY <2>1, <3>1
    <3> QED
      BY <3>1, <3>2 DEF PageTables
  <2> QED
    BY <1>3, <2>3, <2>4
<1>7. OwnedFrames \subseteq mem.taken
  <2>1. ASSUME NEW x \in MappedPages PROVE FrameOf(x) \in mem.taken
    BY <1>1, <1>2
  <2>2. ASSUME NEW y \in PageTables PROVE TableOf(y) \in mem.taken
    <3> DEFINE b == <<y[1], -1 - y[2]>>
    <3>1. b \in Places /\ h[b] # None /\ h[b] = TableOf(y)
      BY <1>2
    <3> HIDE DEF b
    <3> QED
      BY <1>1, <3>1
  <2> QED
    BY <2>1, <2>2 DEF OwnedFrames
<1> QED
  BY <1>4, <1>5, <1>6, <1>7 DEF FramesOwnedOnce

LEMMA MappedReserved == ASSUME MemInv PROVE MappedIffReserved
<1>1. MemType(mem) /\ BitsRight(mem, Users) /\ BootInv
  BY DEF MemInv
<1>2. ASSUME NEW s \in Spaces, InUse(s)
      PROVE  {v \in Pages(s) : mem.pte[s][v] # None} =
                 mem.vbits[s] \ (IF s = Kernel /\ main.pc # "out" THEN {main.vaddr} ELSE {})
  <2>1. s \in Users /\ mem.vbits[s] \subseteq Pages(s)
    BY <1>1, <1>2, TypeParts DEF InUse, Users
  <2>2. ASSUME NEW v \in Pages(s)
        PROVE  mem.pte[s][v] # None <=> v \in mem.vbits[s] /\ ~Waiting(s, v)
    <3>1. v \in mem.vbits[s] <=> IsMapped(mem, s, v) \/ Waiting(s, v)
      BY <1>1, <2>1 DEF BitsRight
    <3>2. Waiting(s, v) => ~IsMapped(mem, s, v)
      BY <1>1 DEF BootInv, Waiting
    <3> QED
      BY <3>1, <3>2 DEF IsMapped
  <2> QED
    BY <2>1, <2>2 DEF Waiting
<1> QED
  BY <1>2 DEF MappedIffReserved

LEMMA Partitioned == ASSUME MemInv PROVE HeapPartition
<1> SUFFICES ASSUME NEW s \in Spaces, broken # "block"
             PROVE  /\ IsInjective(free_list[s])
                    /\ Range(free_list[s]) \cap live[s] = {}
                    /\ \A b \in Range(free_list[s]) \cup live[s] :
                          arena[s][b[1]] # None /\ mem.pte[s][b[1]] # None
                    /\ \A v \in Pages(s) : arena[s][v] # None =>
                          IF arena[s][v].large
                          THEN \A w \in v..v + arena[s][v].cnt - 1 : mem.pte[s][w] # None
                          ELSE LET free == {b \in Range(free_list[s]) : b[1] = v}
                                   used == {b \in live[s] : b[1] = v}
                               IN  /\ Cardinality(free) = IF arena[s][v].own THEN arena[s][v].cnt ELSE 0
                                   /\ Cardinality(used) + arena[s][v].cnt = BlocksPerArena
                                   /\ used # {}
  BY DEF HeapPartition
<1>0. HeapInv
  BY DEF MemInv
<1> DEFINE ar == arena[s]
           F == Range(free_list[s])
           L == live[s]
<1>1. /\ IsInjective(free_list[s]) /\ Partition(s, ar, F, L) /\ ArenasMapped(mem, s, ar)
      /\ L \subseteq BlocksIn(s) /\ F \subseteq BlocksIn(s)
  BY <1>0, HeapParts
<1> HIDE DEF ar, F, L
<1>2. F \cap L = {}
  BY <1>1 DEF Partition
<1>3. ASSUME NEW v \in Pages(s), ar[v] # None
      PROVE  mem.pte[s][v] # None
  <2>1. v \in Nat /\ ar[v].cnt \in Nat
    BY <1>1, <1>3, Arena, PagesAreNumbers
  <2>2. v \in ArenaPages(ar, v)
    <3>1. CASE ar[v].large
      <4>1. ar[v].cnt # 0
        BY <1>1, <1>3, <3>1, Arena DEF ArenaRight
      <4> QED
        BY <2>1, <3>1, <4>1 DEF ArenaPages
    <3>2. CASE ~ar[v].large
      BY <2>1, <3>2 DEF ArenaPages
    <3> QED
      BY <3>1, <3>2
  <2> QED
    BY <1>1, <1>3, <2>2 DEF ArenasMapped, IsMapped
<1>4. ASSUME NEW b \in F \cup L PROVE ar[b[1]] # None /\ mem.pte[s][b[1]] # None
  <2>1. ar[b[1]] # None /\ b[1] \in Pages(s)
    BY <1>1, BlockPairs DEF Partition
  <2> QED
    BY <1>3, <2>1
<1>5. ASSUME NEW v \in Pages(s), ar[v] # None, ar[v].large, NEW w \in v..v + ar[v].cnt - 1
      PROVE  mem.pte[s][w] # None
  BY <1>1, <1>5 DEF ArenasMapped, ArenaPages, IsMapped
<1>6. ASSUME NEW v \in Pages(s), ar[v] # None, ~ar[v].large
      PROVE  /\ Cardinality(InArena(F, v)) = IF ar[v].own THEN ar[v].cnt ELSE 0
             /\ Cardinality(InArena(L, v)) + ar[v].cnt = BlocksPerArena
             /\ InArena(L, v) # {}
  <2>1. ArenaRight(F, L, v, ar[v]) /\ ar[v].own \in BOOLEAN
    BY <1>1, <1>6, Arena
  <2>2. Cardinality(InArena(L, v)) + ar[v].cnt = BlocksPerArena
    BY <1>1, <1>6, CountSplit
  <2>3. Cardinality(InArena(F, v)) = IF ar[v].own THEN ar[v].cnt ELSE 0
    BY <1>6, <2>1, FS_EmptySet DEF ArenaRight
  <2> QED
    BY <1>6, <2>1, <2>2, <2>3 DEF ArenaRight
<1> QED
  BY <1>1, <1>2, <1>4, <1>5, <1>6 DEF ar, F, L, InArena

(***************************************************************************)
(* What the lock in struct pool is for, and where it does not reach:       *)
(* however main, init, the heaps, fork and exit take frames with palloc    *)
(* and give them back, with interrupts on or off, no two pages and no two  *)
(* page tables share a frame, none of their frames is free, and a page of  *)
(* the kernel shares its frame with a page table only where the two        *)
(* allocations with interrupts on can (memory.c:226).                      *)
(***************************************************************************)
THEOREM FramesAreOwnedOnce == Spec => []FramesOwnedOnce
<1>1. MemInv => FramesOwnedOnce
  BY OwnedOnce
<1>2. Spec => []MemInv
  BY MemoryInvariant
<1> QED
  BY <1>1, <1>2, PTL

(***************************************************************************)
(* mfree_page and release_prog_resource give back every frame: one that is *)
(* marked taken in a pool's bitmap is in a page table or is one. Of the    *)
(* pages of the kernel each exit leaves one behind, the last of the vaddr  *)
(* bitmap (wait_exit.c:51), and nothing else does.                         *)
(***************************************************************************)
THEOREM FramesComeBack == Spec => []FramesReturned
<1>1. MemInv => FramesReturned
  BY Returned
<1>2. Spec => []MemInv
  BY MemoryInvariant
<1> QED
  BY <1>1, <1>2, PTL

(***************************************************************************)
(* vaddr_get and page_table_add agree: the virtual bitmap of a space, also *)
(* that of a child of fork, which is a copy, has exactly the mapped pages. *)
(***************************************************************************)
THEOREM MappedExactlyReserved == Spec => []MappedIffReserved
<1>1. MemInv => MappedIffReserved
  BY MappedReserved
<1>2. Spec => []MemInv
  BY MemoryInvariant
<1> QED
  BY <1>1, <1>2, PTL

(***************************************************************************)
(* sys_malloc and sys_free keep the heap, a child's inherited arenas too,  *)
(* up to the first release of an inherited block: a block is live or free, *)
(* once, arenas count their free blocks, are mapped, and go with their     *)
(* last block.                                                             *)
(***************************************************************************)
THEOREM HeapsArePartitioned == Spec => []HeapPartition
<1>1. MemInv => HeapPartition
  BY Partitioned
<1>2. Spec => []MemInv
  BY MemoryInvariant
<1> QED
  BY <1>1, <1>2, PTL

\* The numbers of calls, and what went wrong.
Counts ==
    /\ mallocs \in 0..MaxMallocs /\ forks \in 0..MaxForks
    /\ broken \in {"no", "frame", "block"}

LEMMA Typed == ASSUME MemInv, Counts PROVE TypeOK
<1>1. MemType(mem)
  BY DEF MemInv
<1>2. HeapTyped /\ lost \subseteq Pages(Kernel)
  BY HeapsAreTyped DEF MemInv, LostInv, Left
<1>3. \A s \in Spaces : /\ mem.vbits[s] \subseteq Pages(s)
                        /\ \A v \in Pages(s) : mem.pte[s][v] \in PoolOf(s) \cup {None}
  BY <1>1, TypeParts
<1>4. \A p \in Procs : /\ mem.pde[p] \in [Regions -> KernelPool \cup {None}]
                       /\ proc[p].state \in {"none", "ready", "starting", "alive", "hanging"}
  BY <1>1, TypeParts DEF MemInv, ProcInv
<1>5. main.pc \in {"out", "scan", "set"} /\ mem.taken \subseteq Frames
  BY <1>1, TypeParts DEF MemInv, BootInv
<1> QED
  BY <1>2, <1>3, <1>4, <1>5 DEF TypeOK, Counts, HeapTyped, BlocksIn

(***************************************************************************)
(* The types of the memory manager's state: frames come from the pool of   *)
(* their space, page tables from the kernel's, and no arena counts more    *)
(* free blocks than it was cut into.                                       *)
(***************************************************************************)
THEOREM MemoryTypes == Spec => []TypeOK
<1>1. Init => Counts
  BY MemoryAssumption DEF Init, Counts
<1>2. Counts /\ [Next]_vars => Counts'
  <2> SUFFICES ASSUME Counts, [Next]_vars PROVE Counts'
    OBVIOUS
  <2>1. MaxMallocs \in Nat /\ MaxForks \in Nat
    BY MemoryAssumption
  <2>2. ASSUME mallocs' = mallocs \/ (mallocs < MaxMallocs /\ mallocs' = mallocs + 1),
               forks' = forks \/ (forks < MaxForks /\ forks' = forks + 1),
               broken' = broken \/ broken' \in {"frame", "block"}
        PROVE  Counts'
    BY <2>1, <2>2 DEF Counts
  <2>3. CASE Next
    <3>1. ASSUME NEW s \in Spaces, sys_malloc(s) PROVE Counts'
      BY <2>2, <3>1 DEF sys_malloc, history
    <3>2. ASSUME NEW s \in Spaces, NEW cnt \in LargeSizes, sys_malloc_large(s, cnt) PROVE Counts'
      BY <2>2, <3>2 DEF sys_malloc_large, history
    <3>3. ASSUME NEW s \in Spaces, NEW ptr \in live[s], sys_free(s, ptr) PROVE Counts'
      BY <2>2, <3>3 DEF sys_free, history
    <3>4. ASSUME NEW p \in Procs, NEW c \in Procs, sys_fork(p, c) PROVE Counts'
      BY <2>2, <3>4 DEF sys_fork, history
    <3>5. ASSUME NEW p \in Procs,
                 start_process_scan(p) \/ start_process_set(p) \/ sys_exit(p) \/ thread_exit(p)
          PROVE  Counts'
      BY <2>2, <3>5 DEF start_process_scan, start_process_set, sys_exit, thread_exit, SetFound, history
    <3>6. CASE main_vaddr_get \/ main_palloc_scan \/ main_palloc_set
      BY <2>2, <3>6 DEF main_vaddr_get, main_palloc_scan, main_palloc_set, SetFound, history
    <3>7. ASSUME NEW p \in Procs, NEW ptr \in live[p], sys_free_inherited(p, ptr) PROVE Counts'
      BY <2>2, <3>7 DEF sys_free_inherited
    <3> QED
      BY <2>3, <3>1, <3>2, <3>3, <3>4, <3>5, <3>6, <3>7 DEF Next
  <2>4. CASE UNCHANGED vars
    BY <2>2, <2>4 DEF vars, history
  <2> QED
    BY <2>3, <2>4
<1>3. MemInv /\ Counts => TypeOK
  BY Typed
<1>4. Spec => []MemInv
  BY MemoryInvariant
<1> QED
  BY <1>1, <1>2, <1>3, <1>4, PTL DEF Spec

=============================================================================
