---------------------------- MODULE FileIOProofs ----------------------------
(***************************************************************************)
(* Proofs about the data of files, for any files, size of a block, number  *)
(* of direct blocks, of entries of the indirect table and of blocks, and   *)
(* about the bitmap that the blocks are taken from.                        *)
(***************************************************************************)
EXTENDS FileIO, Bitmap, FiniteSetTheorems, NaturalsInduction, WellFoundedInduction, TLAPS

(***************************************************************************)
(* The inductive invariant.  Index -1 is the indirect table of a file and  *)
(* the others are its blocks.  A file that has bytes has the blocks up to  *)
(* the one its next byte goes to, and the table if one of them is not      *)
(* direct.                                                                 *)
(***************************************************************************)
Index == -1..MaxBlocks - 1

Where(f, k) == IF k = -1 THEN i_sectors[f][Direct] ELSE BlockAt(f, k)

Uses(size) ==
    {k \in Index : size > 0 /\ IF k = -1 THEN BlocksOf(size) > Direct ELSE k < BlocksOf(size)}

IOTypeOK ==
    /\ i_sectors \in [Files -> [0..Direct -> Nat]]
    /\ i_bsize \in [Files -> Nat]
    /\ fd_pos \in [Files -> Nat \cup {Closed}]
    /\ born \in [Files -> Nat]

\* No block is used twice, and the bitmap has the bits of those in use.
Layout ==
    /\ \A f \in Files : BlocksOf(i_bsize[f]) <= MaxBlocks
    /\ \A f \in Files : \A k \in Index :
          IF k \in Uses(i_bsize[f]) THEN Where(f, k) \in Block \ Reserved ELSE Where(f, k) = 0
    /\ \A f, g \in Files : \A k \in Uses(i_bsize[f]), l \in Uses(i_bsize[g]) :
          Where(f, k) = Where(g, l) => f = g /\ k = l
    /\ Reserved \subseteq block_bitmap
    /\ \A f \in Files : \A k \in Uses(i_bsize[f]) : Where(f, k) \in block_bitmap
    /\ \A b \in block_bitmap \ Reserved :
          \E f \in Files : \E k \in Uses(i_bsize[f]) : b = Where(f, k)

IOInv == IOTypeOK /\ Layout /\ ReadReturnsWritten /\ PosInFile /\ PanicOnlyAtLimit

-----------------------------------------------------------------------------
(* The arithmetic of offsets and blocks. *)

LEMMA Constants ==
    /\ BLOCK_SIZE \in Nat \ {0} /\ Direct \in Nat \ {0} /\ Indirect \in Nat \ {0}
    /\ MaxBlocks \in Nat /\ Direct < MaxBlocks /\ Blocks \in Nat
BY FileIOAssumption DEF MaxBlocks

\* Quotient and remainder.
LEMMA Split ==
    ASSUME NEW n \in Nat
    PROVE  /\ n \div BLOCK_SIZE \in Nat /\ n % BLOCK_SIZE \in 0..BLOCK_SIZE - 1
           /\ n = (n \div BLOCK_SIZE) * BLOCK_SIZE + (n % BLOCK_SIZE)
BY Constants

LEMMA SplitOrder ==
    ASSUME NEW m \in Nat, NEW n \in Nat, m <= n
    PROVE  m \div BLOCK_SIZE <= n \div BLOCK_SIZE
BY Constants

\* A number that is not below k full blocks has a quotient of at least k.
LEMMA SplitBound ==
    ASSUME NEW n \in Nat, NEW k \in Nat
    PROVE  n \div BLOCK_SIZE >= k <=> n >= BLOCK_SIZE * k
BY Constants

LEMMA BlocksOfBounds ==
    ASSUME NEW n \in Nat
    PROVE  BlocksOf(n) \in Nat \ {0}
BY Split DEF BlocksOf
-----------------------------------------------------------------------------
(* The free blocks. *)

\* A set of numbers has a least element.
LEMMA LeastElement ==
    ASSUME NEW S \in SUBSET Nat, S # {}
    PROVE  \E m \in S : \A n \in S : m <= n
<1> DEFINE Less == {ss \in Nat \X Nat : ss[1] < ss[2]}
<1>1. IsWellFoundedOn(Less, Nat)
  BY NatLessThanWellFounded, Zenon DEF OpToRel
<1>2. PICK m \in S : \A n \in S : ~(<<n, m>> \in Less)
  <2> HIDE DEF Less
  <2> QED
    BY <1>1, WFMin
<1>3. ASSUME NEW n \in S PROVE m <= n
  <2>1. ~(<<n, m>> \in Less)
    BY <1>2
  <2>2. <<n, m>> \in Nat \X Nat /\ <<n, m>>[1] = n /\ <<n, m>>[2] = m
    OBVIOUS
  <2>3. ~(n < m)
    BY <2>1, <2>2, Zenon
  <2> QED
    BY <2>3
<1> QED
  BY <1>3

\* A finite set of numbers has an n-th element, up to the number of them: the
\* least n without one would have one after the (n - 1)-th.
LEMMA NthElement ==
    ASSUME NEW S \in SUBSET Nat, IsFiniteSet(S), NEW n \in 1..Cardinality(S)
    PROVE  \E b \in S : Cardinality({c \in S : c < b}) = n - 1
<1> DEFINE Below(b) == {c \in S : c < b}
           Bad == {i \in 1..Cardinality(S) : ~\E b \in S : Cardinality(Below(b)) = i - 1}
<1>1. Cardinality(S) \in Nat
  BY FS_CardinalityType
<1>2. SUFFICES ASSUME Bad # {} PROVE FALSE
  BY <1>2
<1>3. PICK i \in Bad : \A j \in Bad : i <= j
  <2>1. Bad \in SUBSET Nat
    BY <1>1
  <2> HIDE DEF Bad
  <2> QED
    BY <1>2, <2>1, LeastElement
<1>4. \A b \in S : IsFiniteSet(Below(b)) /\ Cardinality(Below(b)) \in Nat
  BY FS_Subset, FS_CardinalityType
<1>5. ASSUME i = 1 PROVE FALSE
  <2>1. S # {}
    BY <1>1, <1>3, FS_EmptySet
  <2>2. PICK b \in S : \A c \in S : b <= c
    BY <2>1, LeastElement
  <2>3. Below(b) = {}
    <3>1. ASSUME NEW c \in S PROVE ~(c < b)
      BY <2>2
    <3> QED
      BY <3>1
  <2>4. Cardinality(Below(b)) = i - 1
    BY <1>5, <2>3, FS_EmptySet
  <2> QED
    BY <1>3, <2>4
<1>6. ASSUME i > 1 PROVE FALSE
  <2>1. i \in 2..Cardinality(S) /\ i - 1 \notin Bad /\ i - 1 \in 1..Cardinality(S)
    BY <1>1, <1>3, <1>6
  <2>2. PICK b \in S : Cardinality(Below(b)) = i - 2
    BY <2>1
  <2> DEFINE Above == {c \in S : c > b}
  <2>3. /\ IsFiniteSet(Below(b) \cup {b})
        /\ Cardinality(Below(b) \cup {b}) = i - 1
    <3>1. b \notin Below(b) /\ IsFiniteSet(Below(b))
      BY <1>4
    <3> HIDE DEF Below
    <3> QED
      BY <1>1, <2>1, <2>2, <3>1, FS_AddElement
  <2>4. Above # {}
    <3>1. ASSUME NEW c \in S, c \notin Above PROVE c \in Below(b) \cup {b}
      BY <3>1
    <3>2. Above = {} => S = Below(b) \cup {b}
      BY <3>1
    <3> HIDE DEF Above, Below
    <3> QED
      <4>1. Above = {} => Cardinality(S) = i - 1
        BY <2>3, <3>2
      <4> QED
        BY <1>1, <2>1, <4>1
  <2>5. PICK d \in Above : \A c \in Above : d <= c
    BY <2>4, LeastElement
  <2>6. Below(d) = Below(b) \cup {b}
    <3>1. ASSUME NEW c \in S PROVE c < d <=> c < b \/ c = b
      BY <2>5
    <3> QED
      BY <3>1
  <2>7. d \in S /\ Cardinality(Below(d)) = i - 1
    BY <2>3, <2>5, <2>6
  <2> QED
    BY <1>3, <2>7
<1> QED
  BY <1>1, <1>3, <1>5, <1>6

\* block_bitmap_alloc answers free blocks, a different one each time.
LEMMA FreeBlocks ==
    ASSUME NEW n \in 1..Cardinality(Block \ block_bitmap)
    PROVE  /\ FreeBlock(n) \in Block \ block_bitmap
           /\ Cardinality({c \in Block \ block_bitmap : c < FreeBlock(n)}) = n - 1
<1>1. IsFiniteSet(Block) /\ Block \in SUBSET Nat
  BY Constants, FS_Interval DEF Block
<1>2. IsFiniteSet(Block \ block_bitmap) /\ Block \ block_bitmap \in SUBSET Nat
  BY <1>1, FS_Subset
<1>3. \E b \in Block \ block_bitmap : Cardinality({c \in Block \ block_bitmap : c < b}) = n - 1
  BY <1>2, NthElement
<1> QED
  BY <1>3 DEF FreeBlock
-----------------------------------------------------------------------------
(* The blocks a write takes. *)

\* A file without bytes has no first block, and only such a file.
LEMMA FirstBlock ==
    ASSUME IOInv, NEW f \in Files
    PROVE  /\ i_bsize[f] \in Nat
           /\ i_sectors[f][0] = 0 <=> i_bsize[f] = 0
<1>1. i_bsize[f] \in Nat
  BY DEF IOInv, IOTypeOK
<1>2. 0 \in Index /\ BlocksOf(i_bsize[f]) > 0 /\ 0 < Direct
  BY <1>1, Constants, BlocksOfBounds DEF Index
<1>3. Where(f, 0) = i_sectors[f][0]
  BY <1>2 DEF Where, BlockAt
<1>4. 0 \in Uses(i_bsize[f]) <=> i_bsize[f] > 0
  BY <1>2 DEF Uses
<1>5. IF 0 \in Uses(i_bsize[f]) THEN Where(f, 0) \in Block \ Reserved ELSE Where(f, 0) = 0
  BY <1>2 DEF IOInv, Layout
<1> QED
  BY <1>1, <1>3, <1>4, <1>5 DEF Reserved

\* A block has its turn if the file will use it and does not yet, and no two
\* have the same turn.
LEMMA Turns ==
    ASSUME IOInv, NEW f \in Files, NEW count \in Nat \ {0}
    PROVE  /\ Uses(i_bsize[f]) \subseteq Uses(i_bsize[f] + count)
           /\ \A k \in Index :
                 /\ Turn(f, count, k) \in Nat
                 /\ Turn(f, count, k) # 0 <=>
                       k \in Uses(i_bsize[f] + count) \ Uses(i_bsize[f])
           /\ \A k, l \in Index :
                 Turn(f, count, k) # 0 /\ Turn(f, count, k) = Turn(f, count, l) => k = l
<1> DEFINE size == i_bsize[f]
           has == BlocksOf(size)
           will == BlocksOf(size + count)
           first == IF size = 0 THEN 1 ELSE 0
           table == IF has <= Direct /\ will > Direct THEN 1 ELSE 0
<1>1. size \in Nat /\ (i_sectors[f][0] = 0 <=> size = 0)
  BY FirstBlock
<1>2. has \in Nat \ {0} /\ will \in Nat \ {0} /\ has <= will
  <2>1. size + count \in Nat /\ size <= size + count
    BY <1>1
  <2>2. size \div BLOCK_SIZE <= (size + count) \div BLOCK_SIZE
    BY <1>1, <2>1, SplitOrder
  <2>3. size \div BLOCK_SIZE \in Nat /\ (size + count) \div BLOCK_SIZE \in Nat
    BY <1>1, <2>1, Split
  <2> QED
    BY <2>2, <2>3 DEF BlocksOf
<1>3. size = 0 => has = 1
  <2>1. 0 \div BLOCK_SIZE = 0
    BY Constants
  <2> QED
    BY <2>1 DEF BlocksOf
<1>4. \A k : Turn(f, count, k) =
         IF k = 0 /\ first = 1 THEN 1
         ELSE IF k = -1 /\ table = 1 THEN first + 1
         ELSE IF k \in has..will - 1 THEN first + table + k - has + 1
         ELSE 0
  BY <1>1 DEF Turn
<1>5. /\ \A k \in Index : k \in Uses(size) <=>
            size > 0 /\ IF k = -1 THEN has > Direct ELSE k < has
      /\ \A k \in Index : k \in Uses(size + count) <=>
            IF k = -1 THEN will > Direct ELSE k < will
  BY <1>1 DEF Uses
<1>6. Direct \in Nat \ {0} /\ \A k \in Index : k \in Int /\ k >= -1
  BY Constants DEF Index
<1>7. Uses(size) \subseteq Index /\ Uses(size + count) \subseteq Index
  BY DEF Uses
<1> HIDE DEF has, will
<1>8. Uses(size) \subseteq Uses(size + count)
  BY <1>2, <1>5, <1>6, <1>7
<1>9. ASSUME NEW k \in Index
      PROVE  /\ Turn(f, count, k) \in Nat
             /\ Turn(f, count, k) # 0 <=> k \in Uses(size + count) \ Uses(size)
  <2>1. CASE size = 0
    BY <1>1, <1>2, <1>3, <1>4, <1>5, <1>6, <2>1
  <2>2. CASE size # 0
    BY <1>1, <1>2, <1>4, <1>5, <1>6, <2>2
  <2> QED
    BY <2>1, <2>2
<1>10. ASSUME NEW k \in Index, NEW l \in Index,
              Turn(f, count, k) # 0, Turn(f, count, k) = Turn(f, count, l)
       PROVE  k = l
  <2>1. CASE size = 0
    BY <1>2, <1>3, <1>4, <1>6, <1>10, <2>1
  <2>2. CASE size # 0
    <3>1. \A j \in Index : Turn(f, count, j) =
             IF j = -1 /\ table = 1 THEN 1
             ELSE IF j \in has..will - 1 THEN table + j - has + 1 ELSE 0
      BY <1>2, <1>4, <1>6, <2>2
    <3>2. table \in {0, 1}
      OBVIOUS
    <3> HIDE DEF table
    <3>3. CASE table = 0
      BY <1>2, <1>6, <1>10, <3>1, <3>3
    <3>4. CASE table = 1
      BY <1>2, <1>6, <1>10, <3>1, <3>4
    <3> QED
      BY <3>2, <3>3, <3>4
  <2> QED
    BY <2>1, <2>2
<1> QED
  BY <1>8, <1>9, <1>10

\* The blocks that are taken were free, and are taken once.
LEMMA NewBlocks ==
    ASSUME IOInv, NEW f \in Files, NEW count \in Nat \ {0}, HasRoom(f, count)
    PROVE  /\ \A k \in Index :
                 IF k \in Uses(i_bsize[f] + count) \ Uses(i_bsize[f])
                 THEN NewBlock(f, count, k) \in Block \ block_bitmap
                 ELSE NewBlock(f, count, k) = 0
           /\ \A k, l \in Index :
                 NewBlock(f, count, k) # 0 /\ NewBlock(f, count, k) = NewBlock(f, count, l)
                 => k = l
<1> DEFINE T(k) == Turn(f, count, k)
<1>1. \A k \in Index : T(k) \in 0..Cardinality(Block \ block_bitmap)
  <2>1. \A k \in Index : T(k) \in Nat /\ T(k) <= Cardinality(Block \ block_bitmap)
    BY Turns DEF HasRoom, Index
  <2>2. Cardinality(Block \ block_bitmap) \in Nat
    <3>1. IsFiniteSet(Block)
      BY Constants, FS_Interval DEF Block
    <3> QED
      BY <3>1, FS_Subset, FS_CardinalityType
  <2> QED
    BY <2>1, <2>2
<1>2. ASSUME NEW k \in Index, T(k) # 0
      PROVE  /\ NewBlock(f, count, k) = FreeBlock(T(k))
             /\ FreeBlock(T(k)) \in Block \ block_bitmap
             /\ Cardinality({c \in Block \ block_bitmap : c < FreeBlock(T(k))}) = T(k) - 1
  <2>1. T(k) \in 1..Cardinality(Block \ block_bitmap)
    BY <1>1, <1>2
  <2> QED
    BY <1>2, <2>1, FreeBlocks DEF NewBlock
<1>3. ASSUME NEW k \in Index, T(k) = 0 PROVE NewBlock(f, count, k) = 0
  BY <1>3 DEF NewBlock
<1>4. ASSUME NEW k \in Index
      PROVE  IF k \in Uses(i_bsize[f] + count) \ Uses(i_bsize[f])
             THEN NewBlock(f, count, k) \in Block \ block_bitmap
             ELSE NewBlock(f, count, k) = 0
  <2>1. T(k) # 0 <=> k \in Uses(i_bsize[f] + count) \ Uses(i_bsize[f])
    BY Turns
  <2>2. CASE T(k) # 0
    BY <1>2, <2>1, <2>2
  <2>3. CASE T(k) = 0
    BY <1>3, <2>1, <2>3
  <2> QED
    BY <2>2, <2>3
<1>5. ASSUME NEW k \in Index, NEW l \in Index,
             NewBlock(f, count, k) # 0, NewBlock(f, count, k) = NewBlock(f, count, l)
      PROVE  k = l
  <2>1. T(k) # 0 /\ T(l) # 0
    BY <1>3, <1>5
  <2>2. T(k) - 1 = T(l) - 1
    BY <1>2, <1>5, <2>1
  <2>3. T(k) = T(l)
    BY <1>1, <2>2
  <2> QED
    BY <2>1, <2>3, Turns
<1> QED
  BY <1>4, <1>5

\* Where the blocks of the file are after the write.
After(f, count, k) == IF NewBlock(f, count, k) # 0 THEN NewBlock(f, count, k) ELSE Where(f, k)

\* The file keeps its blocks, and none of them is another's.
LEMMA AfterBlocks ==
    ASSUME IOInv, NEW f \in Files, NEW count \in Nat \ {0}, HasRoom(f, count)
    PROVE  /\ \A k \in Index : IF k \in Uses(i_bsize[f] + count)
                               THEN After(f, count, k) \in Block \ Reserved
                               ELSE After(f, count, k) = 0
           /\ \A k, l \in Uses(i_bsize[f] + count) :
                 After(f, count, k) = After(f, count, l) => k = l
           /\ \A g \in Files \ {f} : \A k \in Uses(i_bsize[f] + count), l \in Uses(i_bsize[g]) :
                 After(f, count, k) # Where(g, l)
           /\ \A k \in Uses(i_bsize[f]) : After(f, count, k) = Where(f, k)
           /\ \A g \in Files : \A k \in Index, l \in Uses(i_bsize[g]) :
                 NewBlock(f, count, k) # Where(g, l)
<1> DEFINE Old == Uses(i_bsize[f])
           New == Uses(i_bsize[f] + count)
           N(k) == NewBlock(f, count, k)
           A(k) == After(f, count, k)
<1>1. /\ \A k \in Index : IF k \in New \ Old THEN N(k) \in Block \ block_bitmap ELSE N(k) = 0
      /\ \A k, l \in Index : N(k) # 0 /\ N(k) = N(l) => k = l
  BY NewBlocks
<1>2. Old \subseteq New /\ New \subseteq Index /\ \A g \in Files : Uses(i_bsize[g]) \subseteq Index
  BY Turns DEF Uses
<1>3. /\ Reserved = {0, 1} /\ Reserved \subseteq block_bitmap
      /\ \A g \in Files : \A l \in Uses(i_bsize[g]) :
            Where(g, l) \in block_bitmap /\ Where(g, l) \in Block \ Reserved
      /\ \A k \in Index \ Old : Where(f, k) = 0
      /\ \A g, h \in Files : \A k \in Uses(i_bsize[g]), l \in Uses(i_bsize[h]) :
            Where(g, k) = Where(h, l) => g = h /\ k = l
  BY <1>2 DEF IOInv, Layout, Reserved
<1>4. \A k \in Index : /\ k \in New \ Old => A(k) = N(k) /\ A(k) \in Block \ block_bitmap
                       /\ k \in Old => A(k) = Where(f, k)
                       /\ k \notin New => A(k) = 0
  BY <1>1, <1>2, <1>3 DEF After
<1> HIDE DEF Old, New, N, A
<1>5. ASSUME NEW k \in Index
      PROVE  IF k \in New THEN A(k) \in Block \ Reserved ELSE A(k) = 0
  BY <1>3, <1>4 DEF Old
<1>6. ASSUME NEW k \in New, NEW l \in New, A(k) = A(l) PROVE k = l
  <2>1. CASE k \in Old /\ l \in Old
    BY <1>2, <1>3, <1>4, <1>6, <2>1 DEF Old
  <2>2. CASE k \notin Old /\ l \notin Old
    BY <1>1, <1>2, <1>3, <1>4, <1>6, <2>2
  <2>3. CASE (k \in Old) # (l \in Old)
    BY <1>2, <1>3, <1>4, <1>6, <2>3 DEF Old
  <2> QED
    BY <2>1, <2>2, <2>3
<1>7. ASSUME NEW g \in Files \ {f}, NEW k \in New, NEW l \in Uses(i_bsize[g])
      PROVE  A(k) # Where(g, l)
  <2>1. CASE k \in Old
    BY <1>2, <1>3, <1>4, <2>1 DEF Old
  <2>2. CASE k \notin Old
    BY <1>2, <1>3, <1>4, <2>2
  <2> QED
    BY <2>1, <2>2
<1>8. ASSUME NEW g \in Files, NEW k \in Index, NEW l \in Uses(i_bsize[g])
      PROVE  N(k) # Where(g, l)
  BY <1>1, <1>3
<1> QED
  BY <1>2, <1>4, <1>5, <1>6, <1>7, <1>8 DEF Old, New, N, A

-----------------------------------------------------------------------------
(* file_write. *)

\* The blocks that the loop of file_write goes through.
Touched(from, to) == from \div BLOCK_SIZE..(to - 1) \div BLOCK_SIZE

\* They are blocks the file has when the loop begins.
LEMMA TouchedUsed ==
    ASSUME NEW from \in Nat, NEW count \in Nat \ {0}, BlocksOf(from + count) <= MaxBlocks
    PROVE  /\ Touched(from, from + count) \subseteq Uses(from + count)
           /\ Touched(from, from + count) \subseteq 0..MaxBlocks - 1
<1> DEFINE to == from + count
<1>1. to \in Nat /\ to - 1 \in Nat /\ to > 0
  OBVIOUS
<1>2. /\ from \div BLOCK_SIZE \in Nat /\ (to - 1) \div BLOCK_SIZE \in Nat /\ to \div BLOCK_SIZE \in Nat
      /\ (to - 1) \div BLOCK_SIZE <= to \div BLOCK_SIZE
  <2> HIDE DEF to
  <2> QED
    BY <1>1, Split, SplitOrder
<1>3. BlocksOf(to) = to \div BLOCK_SIZE + 1
  BY DEF BlocksOf
<1> HIDE DEF to
<1>4. ASSUME NEW k \in Touched(from, to)
      PROVE  k \in 0..MaxBlocks - 1 /\ k < BlocksOf(to)
  BY <1>2, <1>3, Constants DEF Touched, to
<1> QED
  BY <1>1, <1>4, Constants DEF Uses, Index, to

\* A block that a write does not touch keeps its bytes, and the table and the
\* blocks that it writes get theirs.
LEMMA WrittenDisk ==
    ASSUME IOInv, NEW f \in Files, NEW count \in Nat \ {0},
           file_write(f, count), WriteAsserts(f, count)
    PROVE  LET from == i_bsize[f]
               to == from + count
               touched == Touched(from, to)
           IN  /\ HasRoom(f, count)
               /\ i_sectors' = [i_sectors EXCEPT ![f] =
                     [k \in 0..Direct |-> IF k = Direct THEN After(f, count, -1)
                                                        ELSE After(f, count, k)]]
               /\ \A b \in Block \ {0} : b = After(f, count, -1) =>
                     disk'[b] = [k \in Direct..MaxBlocks - 1 |-> After(f, count, k)]
               /\ \A k \in touched :
                     disk'[After(f, count, k)] =
                        WrittenBlock(f, k, IF k \in Uses(from) THEN disk[After(f, count, k)]
                                                               ELSE Zero, from, to)
               /\ \A b \in Block \ {0} :
                     /\ b # After(f, count, -1)
                     /\ \A k \in touched : b # After(f, count, k)
                     /\ \A k \in Index : b # NewBlock(f, count, k)
                     => disk'[b] = disk[b]
               /\ block_bitmap' = block_bitmap \cup ({NewBlock(f, count, k) : k \in Index} \ {0})
               /\ i_bsize' = [i_bsize EXCEPT ![f] = to]
               /\ fd_pos' = [fd_pos EXCEPT ![f] = to - 1]
               /\ UNCHANGED <<born, panicked>>
<1> DEFINE from == i_bsize[f]
           to == from + count
           touched == Touched(from, to)
           N(k) == NewBlock(f, count, k)
           A(k) == After(f, count, k)
           taken == {N(k) : k \in Index} \ {0}
           all(k) == all_block(f, count, k)
<1>1. from \in Nat /\ BlocksOf(to) <= MaxBlocks /\ HasRoom(f, count)
  BY DEF IOInv, IOTypeOK, WriteAsserts, file_write
<1>2. touched \subseteq Uses(to) /\ touched \subseteq 0..MaxBlocks - 1
  BY <1>1, TouchedUsed
<1>3. \A k \in 0..MaxBlocks - 1 : all(k) = A(k)
  BY Constants DEF all_block, After, Where
<1>4. A(-1) = IF N(-1) # 0 THEN N(-1) ELSE i_sectors[f][Direct]
  BY DEF After, Where
<1>5. /\ i_sectors' = [i_sectors EXCEPT ![f] =
            [k \in 0..Direct |-> IF k = Direct THEN A(-1) ELSE all(k)]]
      /\ block_bitmap' = block_bitmap \cup taken
      /\ disk' = [b \in Block |->
             IF b # 0 /\ b = A(-1) THEN NewTable(f, count)
             ELSE IF \E k \in touched : all(k) = b
             THEN WrittenBlock(f, CHOOSE k \in touched : all(k) = b,
                               IF b \in taken THEN Zero ELSE disk[b], from, to)
             ELSE IF b \in taken THEN Zero
             ELSE disk[b]]
      /\ i_bsize' = [i_bsize EXCEPT ![f] = to]
      /\ fd_pos' = [fd_pos EXCEPT ![f] = to - 1]
      /\ UNCHANGED <<born, panicked>>
  BY <1>4, SMTT(60) DEF file_write, Touched, Index
<1>6. NewTable(f, count) = [k \in Direct..MaxBlocks - 1 |-> A(k)]
  BY <1>3, Constants DEF NewTable
<1>7. /\ \A k \in Index : IF k \in Uses(to) THEN A(k) \in Block \ Reserved ELSE A(k) = 0
      /\ \A k, l \in Uses(to) : A(k) = A(l) => k = l
      /\ \A k \in Uses(from), l \in Index : A(k) = Where(f, k) /\ N(l) # A(k)
      /\ \A k \in Index : IF k \in Uses(to) \ Uses(from) THEN N(k) # 0 ELSE N(k) = 0
  <2>1. \A k \in Index : IF k \in Uses(to) \ Uses(from) THEN N(k) \in Block \ block_bitmap
                                                        ELSE N(k) = 0
    BY <1>1, NewBlocks
  <2>2. 0 \in block_bitmap
    BY DEF IOInv, Layout, Reserved
  <2> QED
    BY <1>1, <2>1, <2>2, AfterBlocks
<1>8. Uses(to) \subseteq Index /\ Uses(from) \subseteq Index /\ 0 \in Reserved
  BY DEF Uses, Reserved
<1>9. ASSUME NEW k \in touched
      PROVE  disk'[A(k)] =
                WrittenBlock(f, k, IF k \in Uses(from) THEN disk[A(k)] ELSE Zero, from, to)
  <2>1. k \in Uses(to) /\ k \in Index /\ k # -1 /\ k \in 0..MaxBlocks - 1
    BY <1>2, <1>8
  <2>2. A(k) \in Block /\ A(k) # 0
    BY <1>7, <1>8, <2>1
  <2>3. A(k) # A(-1)
    BY <1>7, <1>8, <2>1, <2>2, Constants DEF Index
  <2>4. (CHOOSE l \in touched : all(l) = A(k)) = k
    <3>1. \A l \in touched : all(l) = A(k) <=> l = k
      BY <1>2, <1>3, <1>7
    <3> QED
      BY <3>1
  <2>5. A(k) \in taken <=> k \notin Uses(from)
    <3>1. k \in Uses(from) => A(k) \notin taken
      BY <1>7
    <3>2. k \notin Uses(from) => A(k) = N(k) /\ N(k) # 0
      BY <1>7, <2>1 DEF After
    <3> QED
      BY <2>1, <3>1, <3>2
  <2>6. all(k) = A(k)
    BY <1>3, <2>1
  <2> HIDE DEF A, N, all, taken, touched, from, to
  <2> QED
    BY <1>5, <2>2, <2>3, <2>4, <2>5, <2>6
<1>10. ASSUME NEW b \in Block \ {0}, b # A(-1), \A k \in touched : b # A(k),
              \A k \in Index : b # N(k)
       PROVE  disk'[b] = disk[b]
  <2>1. b \notin taken /\ ~\E k \in touched : all(k) = b
    BY <1>2, <1>3, <1>10
  <2> HIDE DEF A, N, all, taken, touched, from, to
  <2> QED
    BY <1>5, <1>10, <2>1
<1>11. \A b \in Block \ {0} : b = A(-1) => disk'[b] = [k \in Direct..MaxBlocks - 1 |-> A(k)]
  BY <1>5, <1>6
<1>12. [k \in 0..Direct |-> IF k = Direct THEN A(-1) ELSE all(k)]
         = [k \in 0..Direct |-> IF k = Direct THEN A(-1) ELSE A(k)]
  BY <1>3, Constants
<1>13. block_bitmap' = block_bitmap \cup ({N(k) : k \in Index} \ {0})
  BY <1>5
<1>14. i_sectors' = [i_sectors EXCEPT ![f] =
          [k \in 0..Direct |-> IF k = Direct THEN A(-1) ELSE A(k)]]
  BY <1>5, <1>12
<1> QED
  BY <1>1, <1>5, <1>9, <1>10, <1>11, <1>13, <1>14

\* A file's block numbers after a write, and the blocks the write leaves alone.
LEMMA WrittenWhere ==
    ASSUME IOInv, NEW f \in Files, NEW count \in Nat \ {0},
           file_write(f, count), WriteAsserts(f, count)
    PROVE  LET touched == Touched(i_bsize[f], i_bsize[f] + count)
           IN  /\ \A k \in Index : Where(f, k)' = After(f, count, k)
               /\ \A g \in Files \ {f} : \A k \in Index : Where(g, k)' = Where(g, k)
               /\ \A g \in Files \ {f} : \A k \in Uses(i_bsize[g]) :
                     disk'[Where(g, k)] = disk[Where(g, k)]
               /\ \A k \in Uses(i_bsize[f]) \ ({-1} \cup touched) :
                     disk'[After(f, count, k)] = disk[After(f, count, k)]
<1> DEFINE from == i_bsize[f]
           to == from + count
           touched == Touched(from, to)
           N(k) == NewBlock(f, count, k)
           A(k) == After(f, count, k)
<1>1. /\ from \in Nat /\ BlocksOf(to) <= MaxBlocks /\ HasRoom(f, count) /\ to \in Nat /\ to > 0
      /\ i_sectors \in [Files -> [0..Direct -> Nat]]
  BY DEF IOInv, IOTypeOK, WriteAsserts, file_write
<1>2. /\ touched \subseteq Uses(to) /\ touched \subseteq 0..MaxBlocks - 1
      /\ Uses(from) \subseteq Index /\ Uses(to) \subseteq Index
  BY <1>1, TouchedUsed DEF Uses
<1>3. /\ i_sectors' = [i_sectors EXCEPT ![f] =
            [k \in 0..Direct |-> IF k = Direct THEN A(-1) ELSE A(k)]]
      /\ \A b \in Block \ {0} : b = A(-1) => disk'[b] = [k \in Direct..MaxBlocks - 1 |-> A(k)]
      /\ \A b \in Block \ {0} :
            /\ b # A(-1)
            /\ \A k \in touched : b # A(k)
            /\ \A k \in Index : b # N(k)
            => disk'[b] = disk[b]
  BY WrittenDisk
<1>4. /\ \A k \in Index : IF k \in Uses(to) THEN A(k) \in Block \ Reserved ELSE A(k) = 0
      /\ \A k, l \in Uses(to) : A(k) = A(l) => k = l
      /\ \A g \in Files \ {f} : \A k \in Uses(to), l \in Uses(i_bsize[g]) : A(k) # Where(g, l)
      /\ \A k \in Uses(from) : A(k) = Where(f, k)
      /\ \A g \in Files : \A k \in Index, l \in Uses(i_bsize[g]) : N(k) # Where(g, l)
  BY <1>1, AfterBlocks
<1>5. /\ -1 \in Index /\ 0 \in Reserved /\ Uses(from) \subseteq Uses(to)
      /\ -1 \in Uses(to) <=> BlocksOf(to) > Direct
      /\ \A k \in Index : k # -1 => (k \in Uses(to) <=> k < BlocksOf(to))
      /\ Direct \in Nat \ {0} /\ \A k \in Index : k \in Int /\ k >= -1 /\ k <= MaxBlocks - 1
      /\ BlocksOf(to) \in Nat /\ MaxBlocks \in Nat
  <2>1. /\ Direct \in Nat \ {0} /\ MaxBlocks \in Nat
        /\ \A k \in Index : k \in Int /\ k >= -1 /\ k <= MaxBlocks - 1
        /\ -1 \in Index
    BY Constants DEF Index
  <2>2. Uses(from) \subseteq Uses(to) /\ BlocksOf(to) \in Nat
    BY <1>1, Turns, BlocksOfBounds
  <2>3. /\ -1 \in Uses(to) <=> BlocksOf(to) > Direct
        /\ \A k \in Index : k # -1 => (k \in Uses(to) <=> k < BlocksOf(to))
    <3> HIDE DEF to
    <3> QED
      BY <1>1, <2>1 DEF Uses
  <2> QED
    BY <2>1, <2>2, <2>3 DEF Reserved
<1>6. \A g \in Files : \A l \in Uses(i_bsize[g]) : l \in Index /\ Where(g, l) \in Block \ Reserved
  BY DEF IOInv, Layout, Uses
<1> HIDE DEF from, to, touched, N, A
<1>7. ASSUME NEW k \in Index PROVE Where(f, k)' = A(k)
  <2>1. CASE k = -1
    BY <1>1, <1>3, <1>5, <2>1 DEF Where
  <2>2. CASE k # -1 /\ k < Direct
    BY <1>1, <1>3, <1>5, <2>2 DEF Where, BlockAt
  <2>3. CASE k # -1 /\ k >= Direct
    <3>1. Where(f, k)' = Table(f)'[k] /\ k \in Direct..MaxBlocks - 1
      BY <1>5, <2>3 DEF Where, BlockAt
    <3>2. i_sectors'[f][Direct] = A(-1)
      BY <1>1, <1>3, <1>5
    <3>3. CASE A(-1) = 0
      <4>1. Table(f)' = NoTable
        BY <3>2, <3>3 DEF Table
      <4>2. BlocksOf(to) <= Direct
        BY <1>4, <1>5, <3>3
      <4>3. A(k) = 0
        BY <1>4, <1>5, <2>3, <4>2
      <4> QED
        BY <3>1, <4>1, <4>3 DEF NoTable
    <3>4. CASE A(-1) # 0
      <4>1. Table(f)' = disk'[A(-1)] /\ A(-1) \in Block \ {0}
        BY <1>4, <1>5, <3>2, <3>4 DEF Table
      <4>2. Table(f)' = [l \in Direct..MaxBlocks - 1 |-> A(l)]
        BY <1>3, <4>1
      <4> QED
        BY <3>1, <4>2
    <3> QED
      BY <3>3, <3>4
  <2> QED
    BY <1>5, <2>1, <2>2, <2>3
<1>8. ASSUME NEW g \in Files \ {f}, NEW l \in Uses(i_bsize[g])
      PROVE  disk'[Where(g, l)] = disk[Where(g, l)]
  <2>1. Where(g, l) \in Block \ {0}
    BY <1>5, <1>6
  <2>2. Where(g, l) # A(-1) /\ \A k \in touched : Where(g, l) # A(k)
    BY <1>2, <1>4, <1>5, <2>1
  <2>3. \A k \in Index : Where(g, l) # N(k)
    BY <1>4
  <2> QED
    BY <1>3, <2>1, <2>2, <2>3
<1>9. ASSUME NEW g \in Files \ {f}, NEW k \in Index PROVE Where(g, k)' = Where(g, k)
  <2>1. i_sectors'[g] = i_sectors[g]
    BY <1>1, <1>3
  <2>2. Table(g)' = Table(g)
    <3>1. CASE i_sectors[g][Direct] = 0
      BY <2>1, <3>1 DEF Table, NoTable
    <3>2. CASE i_sectors[g][Direct] # 0
      <4>1. Where(g, -1) = i_sectors[g][Direct]
        BY DEF Where
      <4>2. -1 \in Uses(i_bsize[g])
        BY <1>5, <3>2, <4>1 DEF IOInv, Layout
      <4> QED
        BY <1>8, <2>1, <3>2, <4>1, <4>2 DEF Table
    <3> QED
      BY <3>1, <3>2
  <2> QED
    BY <2>1, <2>2 DEF Where, BlockAt
<1>10. ASSUME NEW k \in Uses(from) \ ({-1} \cup touched) PROVE disk'[A(k)] = disk[A(k)]
  <2>1. k \in Uses(to) /\ k \in Index /\ A(k) \in Block \ {0}
    BY <1>2, <1>4, <1>5
  <2>2. A(k) # A(-1) /\ \A l \in touched : A(k) # A(l)
    BY <1>2, <1>4, <1>5, <2>1
  <2>3. \A l \in Index : A(k) # N(l)
    BY <1>4 DEF from
  <2> QED
    BY <1>3, <2>1, <2>2, <2>3
<1> QED
  BY <1>7, <1>8, <1>9, <1>10 DEF from, to, touched, A

\* The block of an offset inside a file is one of its blocks.
LEMMA OffsetUsed ==
    ASSUME NEW size \in Nat, BlocksOf(size) <= MaxBlocks, NEW o \in 0..size - 1
    PROVE  /\ o \div BLOCK_SIZE \in Uses(size) /\ o \div BLOCK_SIZE \in 0..MaxBlocks - 1
           /\ o % BLOCK_SIZE \in 0..BLOCK_SIZE - 1
           /\ (o \div BLOCK_SIZE) * BLOCK_SIZE + (o % BLOCK_SIZE) = o
<1>1. o \in Nat /\ o <= size /\ size > 0
  OBVIOUS
<1>2. /\ o \div BLOCK_SIZE \in Nat /\ size \div BLOCK_SIZE \in Nat
      /\ o \div BLOCK_SIZE <= size \div BLOCK_SIZE
      /\ o % BLOCK_SIZE \in 0..BLOCK_SIZE - 1
      /\ (o \div BLOCK_SIZE) * BLOCK_SIZE + (o % BLOCK_SIZE) = o
  <2>1. o \div BLOCK_SIZE <= size \div BLOCK_SIZE
    BY <1>1, SplitOrder
  <2>2. (o \div BLOCK_SIZE) * BLOCK_SIZE + (o % BLOCK_SIZE) = o
    BY <1>1, Split
  <2> QED
    BY <1>1, <2>1, <2>2, Split
<1> DEFINE k == o \div BLOCK_SIZE
<1>3. k \in Nat /\ k < BlocksOf(size) /\ BlocksOf(size) \in Nat
  BY <1>2 DEF BlocksOf
<1> HIDE DEF k
<1>4. k \in Uses(size) /\ k \in 0..MaxBlocks - 1
  BY <1>1, <1>3, Constants DEF Uses, Index
<1> QED
  BY <1>2, <1>4 DEF k

\* The bytes of the file are read back after the write.
LEMMA WrittenBytes ==
    ASSUME IOInv, NEW f \in Files, NEW count \in Nat \ {0},
           file_write(f, count), WriteAsserts(f, count),
           NEW o \in 0..i_bsize[f] + count - 1
    PROVE  ByteAt(f, o)' = Byte(f, o)'
<1> DEFINE from == i_bsize[f]
           to == from + count
           k == o \div BLOCK_SIZE
           j == o % BLOCK_SIZE
           A == After(f, count, k)
<1>1. from \in Nat /\ BlocksOf(to) <= MaxBlocks /\ HasRoom(f, count) /\ to \in Nat
  BY DEF IOInv, IOTypeOK, WriteAsserts, file_write
<1>2. k \in Uses(to) /\ k \in 0..MaxBlocks - 1 /\ j \in 0..BLOCK_SIZE - 1 /\ k * BLOCK_SIZE + j = o
  BY <1>1, OffsetUsed
<1>3. k \in Index /\ k # -1
  BY <1>2 DEF Index
<1>4. ByteAt(f, o)' = disk'[A][j]
  <2>1. Where(f, k)' = A
    BY <1>3, WrittenWhere
  <2>2. Where(f, k)' = BlockAt(f, k)'
    BY <1>3 DEF Where
  <2> QED
    BY <2>1, <2>2 DEF ByteAt
<1>5. Byte(f, o)' = Byte(f, o)
  BY WrittenDisk DEF Byte
<1>6. ASSUME o < from
      PROVE  k \in Uses(from) /\ A = Where(f, k) /\ disk[A][j] = Byte(f, o)
  <2>1. o \in 0..from - 1
    BY <1>1, <1>6
  <2>2. k \in Uses(from)
    BY <1>1, <2>1, OffsetUsed DEF IOInv, Layout
  <2>3. A = Where(f, k) /\ Where(f, k) = BlockAt(f, k)
    BY <1>1, <1>3, <2>2, AfterBlocks DEF Where
  <2>4. ByteAt(f, o) = Byte(f, o)
    BY <2>1 DEF IOInv, ReadReturnsWritten
  <2> QED
    BY <2>2, <2>3, <2>4 DEF ByteAt
<1>7. CASE k \in Touched(from, to)
  <2> DEFINE old == IF k \in Uses(from) THEN disk[A] ELSE Zero
  <2>1. disk'[A] = WrittenBlock(f, k, old, from, to)
    BY <1>7, WrittenDisk
  <2>2. disk'[A][j] = IF k * BLOCK_SIZE + j \in from..to - 1 THEN Byte(f, k * BLOCK_SIZE + j)
                      ELSE IF k = from \div BLOCK_SIZE THEN old[j] ELSE NoByte
    <3> HIDE DEF k, j, from, to, old, A
    <3> QED
      BY <1>2, <2>1 DEF WrittenBlock
  <2>3. CASE o >= from
    <3>1. o \in from..to - 1
      BY <1>1, <2>3
    <3> HIDE DEF k, j, from, to, old, A
    <3> QED
      BY <1>2, <1>4, <1>5, <2>2, <3>1
  <2>4. CASE o < from
    <3>1. k <= from \div BLOCK_SIZE /\ k \in Nat /\ from \div BLOCK_SIZE \in Nat
      BY <1>1, <2>4, Split, SplitOrder
    <3>2. k = from \div BLOCK_SIZE
      <4> HIDE DEF k, from, to
      <4> QED
        BY <1>7, <3>1 DEF Touched
    <3>3. o \notin from..to - 1
      BY <1>1, <2>4
    <3>4. old = disk[A] /\ disk[A][j] = Byte(f, o)
      BY <1>6, <2>4
    <3> HIDE DEF k, j, from, to, old, A
    <3> QED
      BY <1>2, <1>4, <1>5, <2>2, <3>2, <3>3, <3>4
  <2> QED
    BY <1>1, <2>3, <2>4
<1>8. CASE k \notin Touched(from, to)
  <2>1. o < from
    <3>1. ASSUME o >= from PROVE FALSE
      <4>1. o \in Nat /\ to - 1 \in Nat /\ o <= to - 1
        BY <1>1
      <4>2. from \div BLOCK_SIZE <= k /\ k <= (to - 1) \div BLOCK_SIZE
        BY <1>1, <3>1, <4>1, SplitOrder
      <4>3. from \div BLOCK_SIZE \in Nat /\ (to - 1) \div BLOCK_SIZE \in Nat /\ k \in Nat
        BY <1>1, <4>1, Split
      <4> HIDE DEF k, from, to
      <4> QED
        BY <1>8, <4>2, <4>3 DEF Touched
    <3> QED
      BY <1>1, <3>1
  <2>2. disk'[A] = disk[A]
    BY <1>3, <1>6, <1>8, <2>1, WrittenWhere
  <2> QED
    BY <1>4, <1>5, <1>6, <2>1, <2>2
<1> QED
  BY <1>7, <1>8

\* A write that passes its asserts keeps the invariant.
LEMMA WriteStep ==
    ASSUME IOInv, panicked = NoPanic, NEW f \in Files, NEW count \in Nat \ {0},
           file_write(f, count), WriteAsserts(f, count)
    PROVE  IOInv'
<1> DEFINE from == i_bsize[f]
           to == from + count
           N(k) == NewBlock(f, count, k)
           A(k) == After(f, count, k)
<1>1. /\ from \in Nat /\ BlocksOf(to) <= MaxBlocks /\ HasRoom(f, count) /\ to \in Nat
      /\ to - 1 \in Nat
  BY DEF IOInv, IOTypeOK, WriteAsserts, file_write
<1>2. /\ i_sectors' = [i_sectors EXCEPT ![f] =
            [k \in 0..Direct |-> IF k = Direct THEN A(-1) ELSE A(k)]]
      /\ block_bitmap' = block_bitmap \cup ({N(k) : k \in Index} \ {0})
      /\ i_bsize' = [i_bsize EXCEPT ![f] = to]
      /\ fd_pos' = [fd_pos EXCEPT ![f] = to - 1]
      /\ born' = born /\ panicked' = panicked
  BY WrittenDisk
<1>3. /\ \A k \in Index : Where(f, k)' = A(k)
      /\ \A g \in Files \ {f} : \A k \in Index : Where(g, k)' = Where(g, k)
      /\ \A g \in Files \ {f} : \A k \in Uses(i_bsize[g]) :
            disk'[Where(g, k)] = disk[Where(g, k)]
  BY WrittenWhere
<1>4. /\ \A k \in Index : IF k \in Uses(to) THEN A(k) \in Block \ Reserved ELSE A(k) = 0
      /\ \A k, l \in Uses(to) : A(k) = A(l) => k = l
      /\ \A g \in Files \ {f} : \A k \in Uses(to), l \in Uses(i_bsize[g]) : A(k) # Where(g, l)
      /\ \A k \in Uses(from) : A(k) = Where(f, k)
  BY <1>1, AfterBlocks
<1>5. \A k \in Index : IF k \in Uses(to) \ Uses(from) THEN N(k) # 0 ELSE N(k) = 0
  <2>1. 0 \in block_bitmap
    BY DEF IOInv, Layout, Reserved
  <2> QED
    BY <1>1, <2>1, NewBlocks
<1>6. /\ i_bsize \in [Files -> Nat] /\ fd_pos \in [Files -> Nat \cup {Closed}]
      /\ born \in [Files -> Nat] /\ i_sectors \in [Files -> [0..Direct -> Nat]]
  BY DEF IOInv, IOTypeOK
<1>7. /\ i_bsize'[f] = to /\ \A g \in Files \ {f} : i_bsize'[g] = i_bsize[g]
      /\ fd_pos'[f] = to - 1 /\ \A g \in Files \ {f} : fd_pos'[g] = fd_pos[g]
  BY <1>2, <1>6
<1>8. /\ Uses(from) \subseteq Uses(to) /\ \A size : Uses(size) \subseteq Index
      /\ -1 \in Index /\ 0..Direct - 1 \subseteq Index
  BY <1>1, Turns, Constants DEF Uses, Index
<1>9. IOTypeOK'
  <2>1. \A k \in Index : A(k) \in Nat
    BY <1>4, Constants DEF Block
  <2>2. [k \in 0..Direct |-> IF k = Direct THEN A(-1) ELSE A(k)] \in [0..Direct -> Nat]
    BY <1>8, <2>1, Constants
  <2> HIDE DEF A, N, from, to
  <2>3. i_sectors' \in [Files -> [0..Direct -> Nat]]
    BY <1>2, <1>6, <2>2
  <2>4. /\ i_bsize' \in [Files -> Nat] /\ fd_pos' \in [Files -> Nat \cup {Closed}]
        /\ born' \in [Files -> Nat]
    BY <1>1, <1>2, <1>6
  <2> QED
    BY <2>3, <2>4 DEF IOTypeOK
<1>10. Layout'
  <2> HIDE DEF A, N, from, to
  <2>1. \A g \in Files : BlocksOf(i_bsize'[g]) <= MaxBlocks
    BY <1>1, <1>7 DEF IOInv, Layout
  <2>2. ASSUME NEW g \in Files, NEW k \in Index
        PROVE  IF k \in Uses(i_bsize'[g]) THEN Where(g, k)' \in Block \ Reserved
                                          ELSE Where(g, k)' = 0
    <3>1. CASE g = f
      BY <1>3, <1>4, <1>7, <3>1
    <3>2. CASE g # f
      BY <1>3, <1>7, <3>2 DEF IOInv, Layout
    <3> QED
      BY <3>1, <3>2
  <2>3. ASSUME NEW g \in Files, NEW h \in Files,
               NEW k \in Uses(i_bsize'[g]), NEW l \in Uses(i_bsize'[h]),
               Where(g, k)' = Where(h, l)'
        PROVE  g = h /\ k = l
    <3>1. k \in Index /\ l \in Index
      BY <1>8
    <3>2. CASE g = f /\ h = f
      BY <1>3, <1>4, <1>7, <2>3, <3>1, <3>2
    <3>3. CASE g = f /\ h # f
      BY <1>3, <1>4, <1>7, <2>3, <3>1, <3>3
    <3>4. CASE g # f /\ h = f
      BY <1>3, <1>4, <1>7, <2>3, <3>1, <3>4
    <3>5. CASE g # f /\ h # f
      BY <1>3, <1>7, <2>3, <3>1, <3>5 DEF IOInv, Layout
    <3> QED
      BY <3>2, <3>3, <3>4, <3>5
  <2>4. Reserved \subseteq block_bitmap'
    BY <1>2 DEF IOInv, Layout
  <2>5. ASSUME NEW g \in Files, NEW k \in Uses(i_bsize'[g]) PROVE Where(g, k)' \in block_bitmap'
    <3>1. k \in Index
      BY <1>8
    <3>2. CASE g # f
      BY <1>2, <1>3, <1>7, <3>1, <3>2 DEF IOInv, Layout
    <3>3. CASE g = f /\ k \in Uses(from)
      BY <1>2, <1>3, <1>4, <3>1, <3>3 DEF IOInv, Layout, from
    <3>4. CASE g = f /\ k \notin Uses(from)
      <4>1. k \in Uses(to) /\ N(k) # 0 /\ A(k) = N(k)
        BY <1>5, <1>7, <3>1, <3>4 DEF After, A, N
      <4> QED
        BY <1>2, <1>3, <3>1, <3>4, <4>1
    <3> QED
      BY <3>2, <3>3, <3>4
  <2>6. ASSUME NEW b \in block_bitmap' \ Reserved
        PROVE  \E g \in Files : \E k \in Uses(i_bsize'[g]) : b = Where(g, k)'
    <3>1. CASE b \in block_bitmap
      <4>0. PICK g \in Files : \E k \in Uses(i_bsize[g]) : b = Where(g, k)
        BY <3>1 DEF IOInv, Layout
      <4>1. PICK k \in Uses(i_bsize[g]) : b = Where(g, k)
        BY <4>0
      <4>2. CASE g = f
        BY <1>3, <1>4, <1>7, <1>8, <4>1, <4>2 DEF from
      <4>3. CASE g # f
        BY <1>3, <1>7, <1>8, <4>1, <4>3
      <4> QED
        BY <4>2, <4>3
    <3>2. CASE b \notin block_bitmap
      <4>1. PICK k \in Index : b = N(k) /\ N(k) # 0
        BY <1>2, <3>2
      <4>2. k \in Uses(to) /\ A(k) = N(k)
        BY <1>5, <4>1 DEF A, N, After
      <4> QED
        BY <1>3, <1>7, <4>1, <4>2
    <3> QED
      BY <3>1, <3>2
  <2> QED
    BY <2>1, <2>2, <2>3, <2>4, <2>5, <2>6 DEF Layout
<1>11. ReadReturnsWritten'
  <2>1. ASSUME NEW g \in Files, NEW o \in 0..i_bsize'[g] - 1
        PROVE  ByteAt(g, o)' = Byte(g, o)'
    <3>1. CASE g = f
      <4>0. i_bsize'[g] = i_bsize[f] + count
        BY <1>7, <3>1, Zenon
      <4>1. o \in 0..i_bsize[f] + count - 1
        BY <1>1, <4>0
      <4>2. ByteAt(f, o)' = Byte(f, o)'
        BY <4>1, WrittenBytes
      <4> QED
        BY <3>1, <4>2
    <3>2. CASE g # f
      <4> DEFINE k == o \div BLOCK_SIZE
      <4>1. o \in 0..i_bsize[g] - 1 /\ i_bsize[g] \in Nat /\ BlocksOf(i_bsize[g]) <= MaxBlocks
        BY <1>6, <1>7, <3>2 DEF IOInv, Layout
      <4>2. k \in Uses(i_bsize[g]) /\ k # -1 /\ k \in Index
        BY <1>8, <4>1, OffsetUsed
      <4>3. ByteAt(g, o)' = disk'[Where(g, k)'][o % BLOCK_SIZE]
        BY <4>2 DEF ByteAt, Where
      <4>4. ByteAt(g, o) = disk[Where(g, k)][o % BLOCK_SIZE]
        BY <4>2 DEF ByteAt, Where
      <4>5. ByteAt(g, o) = Byte(g, o)
        BY <4>1 DEF IOInv, ReadReturnsWritten
      <4>6. Byte(g, o)' = Byte(g, o)
        BY <1>2 DEF Byte
      <4> HIDE DEF k
      <4> QED
        BY <1>3, <3>2, <4>2, <4>3, <4>4, <4>5, <4>6
    <3> QED
      BY <3>1, <3>2
  <2> QED
    BY <2>1 DEF ReadReturnsWritten
<1>12. PosInFile'
  <2> HIDE DEF from, to
  <2>1. ASSUME NEW g \in Files, fd_pos'[g] # Closed PROVE fd_pos'[g] <= i_bsize'[g]
    <3>1. CASE g = f
      BY <1>1, <1>7, <3>1
    <3>2. CASE g # f
      BY <1>7, <2>1, <3>2 DEF IOInv, PosInFile
    <3> QED
      BY <3>1, <3>2
  <2> QED
    BY <2>1 DEF PosInFile
<1>13. PanicOnlyAtLimit'
  BY <1>2 DEF PanicOnlyAtLimit
<1> QED
  BY <1>9, <1>10, <1>11, <1>12, <1>13 DEF IOInv
-----------------------------------------------------------------------------
(* The other calls. *)

\* A step that leaves the files and the disk alone.
LEMMA QuietStep ==
    ASSUME IOInv, UNCHANGED <<i_sectors, i_bsize, block_bitmap, disk, born>>,
           fd_pos' \in [Files -> Nat \cup {Closed}], PosInFile', PanicOnlyAtLimit'
    PROVE  IOInv'
<1>1. \A f \in Files : \A k : Where(f, k)' = Where(f, k)
  BY DEF Where, BlockAt, Table, NoTable
<1>2. Layout'
  BY <1>1 DEF IOInv, Layout
<1>3. ReadReturnsWritten'
  BY DEF IOInv, ReadReturnsWritten, ByteAt, Byte, BlockAt, Table, NoTable
<1> QED
  BY <1>2, <1>3 DEF IOInv, IOTypeOK

\* A write stops the machine only when it would fill the largest file: by the
\* invariant none of its other asserts can fail.
LEMMA WritePanic ==
    ASSUME IOInv, NEW f \in Files, NEW count \in Nat \ {0},
           file_write(f, count), ~WriteAsserts(f, count)
    PROVE  IOInv'
<1> DEFINE size == i_bsize[f]
           to == size + count
           has == BlocksOf(size)
           will == BlocksOf(to)
<1>1. size \in Nat /\ to \in Nat /\ to <= BLOCK_SIZE * MaxBlocks /\ has <= MaxBlocks
  BY DEF IOInv, IOTypeOK, Layout, file_write, FitsFile
<1>2. /\ panicked' = [call |-> "write", end |-> to]
      /\ UNCHANGED <<i_sectors, i_bsize, fd_pos, block_bitmap, disk, born>>
  BY DEF file_write, panic_spin
<1>3. has \in Nat \ {0} /\ will \in Nat \ {0}
  <2> HIDE DEF to, size
  <2> QED
    BY <1>1, BlocksOfBounds
<1>4. -1 \in Index /\ \A k \in 0..Direct - 1 : k \in Index
  BY Constants DEF Index
<1>5. has > Direct => i_sectors[f][Direct] # 0
  <2>1. Where(f, -1) = i_sectors[f][Direct]
    BY DEF Where
  <2>2. has > Direct => size > 0
    <3>1. 0 \div BLOCK_SIZE = 0
      BY Constants
    <3> QED
      BY <1>1, <3>1, Constants DEF BlocksOf
  <2>3. has > Direct => -1 \in Uses(size)
    BY <1>4, <2>2 DEF Uses
  <2> QED
    BY <1>4, <2>1, <2>3 DEF IOInv, Layout, Reserved
<1>6. has <= Direct => i_sectors[f][Direct] = 0
  <2>1. Where(f, -1) = i_sectors[f][Direct]
    BY DEF Where
  <2>2. has <= Direct => -1 \notin Uses(size)
    <3> HIDE DEF has
    <3> QED
      BY <1>3, Constants DEF Uses, has
  <2> QED
    BY <1>4, <2>1, <2>2 DEF IOInv, Layout
<1>7. ASSUME NEW k \in has..will - 1, k < Direct PROVE i_sectors[f][k] = 0
  <2>1. k \in Nat /\ k \in Index /\ k # -1
    <3> HIDE DEF has, will
    <3> QED
      BY <1>3, <1>4, <1>7, Constants
  <2>2. Where(f, k) = i_sectors[f][k]
    BY <1>7, <2>1 DEF Where, BlockAt
  <2>3. k \notin Uses(size)
    <3>1. k >= has /\ has \in Nat
      <4> HIDE DEF has, will
      <4> QED
        BY <1>3
    <3> QED
      BY <2>1, <3>1 DEF Uses
  <2> QED
    BY <2>1, <2>2, <2>3 DEF IOInv, Layout
<1>8. ~(will <= MaxBlocks)
  BY <1>5, <1>6, <1>7 DEF WriteAsserts
<1>9. to = BLOCK_SIZE * MaxBlocks
  <2>1. to \div BLOCK_SIZE >= MaxBlocks
    <3>1. to \div BLOCK_SIZE \in Nat
      BY <1>1, Split
    <3> QED
      BY <1>8, <3>1, Constants DEF BlocksOf
  <2>2. to >= BLOCK_SIZE * MaxBlocks
    BY <1>1, <2>1, SplitBound, Constants
  <2>3. BLOCK_SIZE * MaxBlocks \in Nat
    BY Constants
  <2> QED
    BY <1>1, <2>2, <2>3
<1>10. PanicOnlyAtLimit' /\ PosInFile'
  BY <1>2, <1>9 DEF PanicOnlyAtLimit, PosInFile, IOInv
<1> QED
  BY <1>2, <1>10, QuietStep DEF IOInv, IOTypeOK

\* The smaller of two numbers.
LEMMA MinOfTwo ==
    ASSUME NEW a \in Nat, NEW b \in Nat
    PROVE  Min({a, b}) \in {a, b} /\ Min({a, b}) <= a /\ Min({a, b}) <= b
<1>1. \E x \in {a, b} : \A y \in {a, b} : x <= y
  OBVIOUS
<1> QED
  BY <1>1 DEF Min

\* A read stays inside the file, and stops the machine only in the last block
\* of a file of the largest size.
LEMMA ReadStep ==
    ASSUME IOInv, panicked = NoPanic, NEW f \in Files, NEW count \in Nat \ {0},
           fd_pos[f] # Closed, file_read(f, count)
    PROVE  IOInv'
<1> DEFINE pos == fd_pos[f]
           size == Min({count, i_bsize[f] - pos})
           end == pos + size
<1>1. /\ pos \in Nat /\ i_bsize[f] \in Nat /\ i_bsize[f] - pos \in Nat
      /\ fd_pos \in [Files -> Nat \cup {Closed}]
  BY DEF IOInv, IOTypeOK, PosInFile, Closed
<1>2. size \in Nat /\ size <= i_bsize[f] - pos /\ size # 0
  BY <1>1, MinOfTwo DEF file_read
<1> HIDE DEF size
<1>3. end \in Nat /\ end <= i_bsize[f] /\ pos <= end /\ i_bsize[f] > 0
  BY <1>1, <1>2
<1>4. UNCHANGED <<i_sectors, i_bsize, block_bitmap, disk, born>>
  BY DEF file_read, panic_spin
<1>5. CASE ReadAsserts(f, pos, end)
  <2>1. fd_pos' = [fd_pos EXCEPT ![f] = end] /\ panicked' = panicked
    BY <1>5 DEF file_read, size
  <2>2. fd_pos' \in [Files -> Nat \cup {Closed}]
    BY <1>1, <1>3, <2>1
  <2>3. PosInFile'
    BY <1>1, <1>3, <1>4, <2>1 DEF PosInFile, IOInv
  <2>4. PanicOnlyAtLimit'
    BY <2>1 DEF PanicOnlyAtLimit
  <2> QED
    BY <1>4, <2>2, <2>3, <2>4, QuietStep
<1>6. CASE ~ReadAsserts(f, pos, end)
  <2>1. panicked' = [call |-> "read", end |-> end] /\ fd_pos' = fd_pos
    BY <1>6 DEF file_read, panic_spin, size
  <2> DEFINE s == pos \div BLOCK_SIZE
             e == end \div BLOCK_SIZE
             z == i_bsize[f] \div BLOCK_SIZE
  <2>2. s \in Nat /\ e \in Nat /\ z \in Nat /\ s <= e /\ e <= z
    <3>1. s <= e
      BY <1>1, <1>3, SplitOrder
    <3>2. e <= z
      BY <1>1, <1>3, SplitOrder
    <3> QED
      BY <1>1, <1>3, <3>1, <3>2, Split
  <2>3. ~(s < MaxBlocks - 1 /\ e < MaxBlocks - 1 /\ (s # e /\ e >= Direct => i_sectors[f][Direct] # 0))
    BY <1>6 DEF ReadAsserts
  <2>4. BlocksOf(i_bsize[f]) = z + 1
    BY DEF BlocksOf
  <2> HIDE DEF s, e, z, end
  <2>5. e >= Direct => i_sectors[f][Direct] # 0
    <3>1. -1 \in Index /\ Where(f, -1) = i_sectors[f][Direct]
      BY Constants DEF Where, Index
    <3>2. e >= Direct => -1 \in Uses(i_bsize[f])
      BY <1>1, <1>3, <2>2, <2>4, <3>1, Constants DEF Uses
    <3> QED
      BY <3>1, <3>2 DEF IOInv, Layout, Reserved
  <2>6. e >= MaxBlocks - 1 /\ MaxBlocks - 1 \in Nat
    BY <2>2, <2>3, <2>5, Constants
  <2>7. end >= BLOCK_SIZE * (MaxBlocks - 1)
    BY <1>3, <2>6, SplitBound DEF e
  <2>8. PanicOnlyAtLimit' /\ PosInFile'
    BY <1>4, <2>1, <2>7 DEF PanicOnlyAtLimit, PosInFile, IOInv
  <2> QED
    BY <1>1, <1>4, <2>1, <2>8, QuietStep
<1> QED
  BY <1>5, <1>6

\* What inode_release frees are the blocks in use.
LEMMA ReleasedUses ==
    ASSUME IOInv, NEW f \in Files
    PROVE  ReleasedBlocks(f) = {Where(f, k) : k \in Uses(i_bsize[f])}
<1>1. ReleasedBlocks(f) = {Where(f, k) : k \in Index} \ {0}
  BY Constants DEF ReleasedBlocks, Where, Index
<1>2. \A k \in Index : Where(f, k) # 0 <=> k \in Uses(i_bsize[f])
  BY DEF IOInv, Layout, Reserved
<1>3. Uses(i_bsize[f]) \subseteq Index
  BY DEF Uses
<1> QED
  BY <1>1, <1>2, <1>3

\* A file that is deleted gives its blocks back, and no other file's.
LEMMA ReleaseStep ==
    ASSUME IOInv, panicked = NoPanic, NEW f \in Files, inode_release(f)
    PROVE  IOInv'
<1>1. /\ fd_pos[f] = Closed
      /\ block_bitmap' = block_bitmap \ ReleasedBlocks(f)
      /\ i_sectors' = [i_sectors EXCEPT ![f] = NoBlocks]
      /\ i_bsize' = [i_bsize EXCEPT ![f] = 0]
      /\ born' = [born EXCEPT ![f] = @ + 1]
      /\ UNCHANGED <<fd_pos, disk, panicked>>
  BY DEF inode_release
<1>2. /\ i_bsize \in [Files -> Nat] /\ fd_pos \in [Files -> Nat \cup {Closed}]
      /\ born \in [Files -> Nat] /\ i_sectors \in [Files -> [0..Direct -> Nat]]
  BY DEF IOInv, IOTypeOK
<1>3. IOTypeOK'
  <2>1. NoBlocks \in [0..Direct -> Nat]
    BY DEF NoBlocks
  <2> QED
    BY <1>1, <1>2, <2>1 DEF IOTypeOK
<1>4. \A g \in Files \ {f} : \A k : Where(g, k)' = Where(g, k) /\ BlockAt(g, k)' = BlockAt(g, k)
  BY <1>1, <1>2 DEF Where, BlockAt, Table, NoTable
<1>5. \A k \in Index : Where(f, k)' = 0
  <2>1. i_sectors'[f] = NoBlocks
    BY <1>1, <1>2
  <2>2. NoBlocks[Direct] = 0 /\ \A k \in 0..Direct - 1 : NoBlocks[k] = 0
    BY Constants DEF NoBlocks
  <2>3. Table(f)' = NoTable
    BY <2>1, <2>2 DEF Table, NoTable
  <2>4. \A k \in Direct..MaxBlocks - 1 : NoTable[k] = 0
    BY DEF NoTable
  <2> QED
    BY <2>1, <2>2, <2>3, <2>4, Constants DEF Where, BlockAt, Index
<1>6. /\ i_bsize'[f] = 0 /\ \A g \in Files \ {f} : i_bsize'[g] = i_bsize[g]
      /\ Uses(0) = {} /\ \A size : Uses(size) \subseteq Index
  BY <1>1, <1>2 DEF Uses
<1>7. ReleasedBlocks(f) = {Where(f, k) : k \in Uses(i_bsize[f])}
  BY ReleasedUses
<1>8. Layout'
  <2>1. ASSUME NEW g \in Files PROVE BlocksOf(i_bsize'[g]) <= MaxBlocks
    <3>1. BlocksOf(0) <= MaxBlocks
      <4>1. 0 \div BLOCK_SIZE = 0
        BY Constants
      <4> QED
        BY <4>1, Constants DEF BlocksOf
    <3> QED
      BY <1>6, <3>1 DEF IOInv, Layout
  <2>2. ASSUME NEW g \in Files, NEW k \in Index
        PROVE  IF k \in Uses(i_bsize'[g]) THEN Where(g, k)' \in Block \ Reserved
                                          ELSE Where(g, k)' = 0
    <3>1. CASE g = f
      BY <1>5, <1>6, <3>1
    <3>2. CASE g # f
      BY <1>4, <1>6, <3>2 DEF IOInv, Layout
    <3> QED
      BY <3>1, <3>2
  <2>3. ASSUME NEW g \in Files, NEW k \in Uses(i_bsize'[g])
        PROVE  g # f /\ k \in Uses(i_bsize[g]) /\ Where(g, k)' = Where(g, k)
    BY <1>4, <1>6
  <2>4. ASSUME NEW g \in Files, NEW h \in Files,
               NEW k \in Uses(i_bsize'[g]), NEW l \in Uses(i_bsize'[h]),
               Where(g, k)' = Where(h, l)'
        PROVE  g = h /\ k = l
    BY <2>3, <2>4 DEF IOInv, Layout
  <2>5. Reserved \subseteq block_bitmap'
    BY <1>1, <1>6, <1>7 DEF IOInv, Layout
  <2>6. ASSUME NEW g \in Files, NEW k \in Uses(i_bsize'[g]) PROVE Where(g, k)' \in block_bitmap'
    BY <1>1, <1>7, <2>3 DEF IOInv, Layout
  <2>7. ASSUME NEW b \in block_bitmap' \ Reserved
        PROVE  \E g \in Files : \E k \in Uses(i_bsize'[g]) : b = Where(g, k)'
    <3>1. b \in block_bitmap \ Reserved /\ b \notin ReleasedBlocks(f)
      BY <1>1
    <3>2. PICK g \in Files : \E k \in Uses(i_bsize[g]) : b = Where(g, k)
      BY <3>1 DEF IOInv, Layout
    <3>3. PICK k \in Uses(i_bsize[g]) : b = Where(g, k)
      BY <3>2
    <3>4. g # f
      BY <1>7, <3>1, <3>3
    <3> QED
      BY <1>4, <1>6, <3>3, <3>4
  <2> QED
    BY <2>1, <2>2, <2>4, <2>5, <2>6, <2>7 DEF Layout
<1>9. ReadReturnsWritten'
  <2>1. ASSUME NEW g \in Files, NEW o \in 0..i_bsize'[g] - 1
        PROVE  ByteAt(g, o)' = Byte(g, o)'
    <3>1. g # f
      BY <1>6
    <3>2. o \in 0..i_bsize[g] - 1 /\ born'[g] = born[g]
      BY <1>1, <1>2, <1>6, <3>1
    <3>3. ByteAt(g, o) = Byte(g, o)
      BY <3>2 DEF IOInv, ReadReturnsWritten
    <3> QED
      BY <1>1, <1>4, <3>1, <3>2, <3>3 DEF ByteAt, Byte
  <2> QED
    BY <2>1 DEF ReadReturnsWritten
<1>10. PosInFile' /\ PanicOnlyAtLimit'
  BY <1>1, <1>2 DEF PosInFile, PanicOnlyAtLimit, IOInv
<1> QED
  BY <1>3, <1>8, <1>9, <1>10 DEF IOInv

\* Opening, closing and sys_lseek move the position inside the file.
LEMMA PositionStep ==
    ASSUME IOInv, panicked = NoPanic, NEW f \in Files,
           file_open(f) \/ file_close(f) \/ \E offset \in -1..MaxCount : sys_lseek(f, offset)
    PROVE  IOInv'
<1>1. /\ UNCHANGED <<i_sectors, i_bsize, block_bitmap, disk, born>> /\ panicked' = panicked
      /\ i_bsize \in [Files -> Nat] /\ fd_pos \in [Files -> Nat \cup {Closed}]
  BY DEF file_open, file_close, sys_lseek, IOInv, IOTypeOK
<1>2. PICK pos \in Nat \cup {Closed} :
         fd_pos' = [fd_pos EXCEPT ![f] = pos] /\ (pos # Closed => pos <= i_bsize[f])
  <2>1. CASE file_open(f)
    <3>1. fd_pos' = [fd_pos EXCEPT ![f] = 0]
      BY <2>1 DEF file_open
    <3>2. 0 \in Nat \cup {Closed} /\ 0 <= i_bsize[f]
      BY <1>1
    <3> QED
      BY <3>1, <3>2
  <2>2. CASE file_close(f)
    BY <2>2 DEF file_close
  <2>3. CASE \E offset \in -1..MaxCount : sys_lseek(f, offset)
    <3>1. PICK offset \in -1..MaxCount, base \in {0, fd_pos[f], i_bsize[f]} :
             SeekAccepts(f, base + offset) /\ fd_pos' = [fd_pos EXCEPT ![f] = base + offset]
      BY <2>3 DEF sys_lseek
    <3>2. i_bsize[f] \in Nat /\ base + offset \in Int
      BY <1>1, FileIOAssumption DEF Closed
    <3>3. base + offset \in Nat /\ base + offset <= i_bsize[f]
      BY <3>1, <3>2 DEF SeekAccepts
    <3> QED
      BY <3>1, <3>3
  <2> QED
    BY <2>1, <2>2, <2>3
<1>3. fd_pos' \in [Files -> Nat \cup {Closed}]
  BY <1>1, <1>2
<1>4. PosInFile' /\ PanicOnlyAtLimit'
  BY <1>1, <1>2 DEF PosInFile, PanicOnlyAtLimit, IOInv
<1> QED
  BY <1>1, <1>3, <1>4, QuietStep

-----------------------------------------------------------------------------
\* The inductive invariant of the file data.
THEOREM FileIOInvariant == Spec => []IOInv
<1>1. Init => IOInv
  <2> SUFFICES ASSUME Init PROVE IOInv
    OBVIOUS
  <2>1. IOTypeOK
    BY DEF Init, IOTypeOK, NoBlocks, Closed
  <2>2. \A f \in Files : i_bsize[f] = 0 /\ fd_pos[f] = Closed
    BY DEF Init
  <2>3. Uses(0) = {}
    BY DEF Uses
  <2>4. ASSUME NEW f \in Files, NEW k \in Index PROVE Where(f, k) = 0
    <3>1. i_sectors[f] = NoBlocks
      BY DEF Init
    <3>2. NoBlocks[Direct] = 0 /\ \A l \in 0..Direct - 1 : NoBlocks[l] = 0
      BY Constants DEF NoBlocks
    <3>3. Table(f) = NoTable /\ \A l \in Direct..MaxBlocks - 1 : NoTable[l] = 0
      BY <3>1, <3>2 DEF Table, NoTable
    <3> QED
      BY <3>1, <3>2, <3>3, Constants DEF Where, BlockAt, Index
  <2>5. BlocksOf(0) <= MaxBlocks
    <3>1. 0 \div BLOCK_SIZE = 0
      BY Constants
    <3> QED
      BY <3>1, Constants DEF BlocksOf
  <2>6. Layout
    BY <2>2, <2>3, <2>4, <2>5 DEF Layout, Init
  <2>7. ReadReturnsWritten /\ PosInFile /\ PanicOnlyAtLimit
    BY <2>2 DEF ReadReturnsWritten, PosInFile, PanicOnlyAtLimit, Init
  <2> QED
    BY <2>1, <2>6, <2>7 DEF IOInv
<1>2. IOInv /\ [Next]_vars => IOInv'
  <2> SUFFICES ASSUME IOInv, [Next]_vars PROVE IOInv'
    OBVIOUS
  <2>1. CASE Next
    <3>1. \A count \in 1..MaxCount : count \in Nat \ {0}
      BY FileIOAssumption
    <3> QED
      BY <2>1, <3>1, PositionStep, ReleaseStep, WriteStep, WritePanic, ReadStep DEF Next
  <2>2. CASE UNCHANGED vars
    <3>1. /\ UNCHANGED <<i_sectors, i_bsize, block_bitmap, disk, born>>
          /\ fd_pos' = fd_pos /\ panicked' = panicked
      BY <2>2 DEF vars
    <3>2. PosInFile' /\ PanicOnlyAtLimit' /\ fd_pos' \in [Files -> Nat \cup {Closed}]
      BY <3>1 DEF IOInv, IOTypeOK, PosInFile, PanicOnlyAtLimit
    <3> QED
      BY <3>1, <3>2, QuietStep
  <2> QED
    BY <2>1, <2>2
<1> QED
  BY <1>1, <1>2, PTL DEF Spec

\* Every byte of every file reads as it was written, for any size of a block
\* and any split of the blocks into direct and indirect ones: the arithmetic
\* of file_write and file_read agrees, and no write, deletion or reuse of a
\* block reaches the bytes of another file.
THEOREM BytesReadBack == Spec => []ReadReturnsWritten
BY FileIOInvariant, PTL DEF IOInv

\* The position of a descriptor is never beyond the end of its file, whatever
\* sys_lseek is asked for.
THEOREM PositionsInside == Spec => []PosInFile
BY FileIOInvariant, PTL DEF IOInv

\* The asserts of file_write and file_read fail at the largest size only.
THEOREM AssertsHold == Spec => []PanicOnlyAtLimit
BY FileIOInvariant, PTL DEF IOInv

\* No two files share a block and none leaks: the block bitmap is exactly the
\* blocks that the inodes and their indirect tables name.
THEOREM NoBlockLost == Spec => []BlocksAccounted
<1>1. IOInv => BlocksAccounted
  <2> SUFFICES ASSUME IOInv PROVE BlocksAccounted
    OBVIOUS
  <2> DEFINE U(f) == Uses(i_bsize[f])
             held(f) == {k \in 0..Direct - 1 : i_sectors[f][k] # 0}
             heldIn(f) == {k \in Direct..MaxBlocks - 1 : Table(f)[k] # 0}
             count(f) == Cardinality(held(f)) + Cardinality(heldIn(f))
                         + (IF i_sectors[f][Direct] # 0 THEN 1 ELSE 0)
  <2>1. ASSUME NEW f \in Files PROVE Cardinality(ReleasedBlocks(f)) = count(f)
    <3>1. /\ \A k \in Index : k \in U(f) <=> Where(f, k) # 0
          /\ U(f) \subseteq Index
      BY DEF IOInv, Layout, Reserved, Uses
    <3>2. held(f) = {k \in U(f) : k \in 0..Direct - 1}
      BY <3>1, Constants DEF Where, BlockAt, Index
    <3>3. heldIn(f) = {k \in U(f) : k \in Direct..MaxBlocks - 1}
      BY <3>1, Constants DEF Where, BlockAt, Index
    <3>4. -1 \in U(f) <=> i_sectors[f][Direct] # 0
      BY <3>1, Constants DEF Where, Index
    <3>5. IsFiniteSet(held(f)) /\ IsFiniteSet(heldIn(f)) /\ held(f) \cap heldIn(f) = {}
      <4>1. IsFiniteSet(0..Direct - 1) /\ IsFiniteSet(Direct..MaxBlocks - 1)
        BY Constants, FS_Interval
      <4> QED
        BY <4>1, FS_Subset, Constants
    <3> DEFINE both == held(f) \cup heldIn(f)
    <3>6. /\ IsFiniteSet(both) /\ Cardinality(both) = Cardinality(held(f)) + Cardinality(heldIn(f))
          /\ Cardinality(held(f)) \in Nat /\ Cardinality(heldIn(f)) \in Nat
      <4> HIDE DEF held, heldIn
      <4> QED
        BY <3>5, FS_Union, FS_EmptySet, FS_CardinalityType
    <3>7. -1 \notin both /\ U(f) = IF -1 \in U(f) THEN both \cup {-1} ELSE both
      <4>1. \A k \in Index : k \in 0..Direct - 1 \/ k \in Direct..MaxBlocks - 1 \/ k = -1
        BY Constants DEF Index
      <4> HIDE DEF U
      <4> QED
        BY <3>1, <3>2, <3>3, <4>1, Constants
    <3>8. IsFiniteSet(U(f)) /\ Cardinality(U(f)) = count(f)
      <4> HIDE DEF both, U, held, heldIn
      <4> QED
        BY <3>4, <3>6, <3>7, FS_AddElement
    <3>9. ExistsBijection(U(f), ReleasedBlocks(f))
      <4> DEFINE w == [k \in U(f) |-> Where(f, k)]
      <4>1. ReleasedBlocks(f) = {Where(f, k) : k \in U(f)}
        BY ReleasedUses
      <4>2. \A k, l \in U(f) : Where(f, k) = Where(f, l) => k = l
        BY DEF IOInv, Layout
      <4> HIDE DEF U
      <4>3. w \in Bijection(U(f), ReleasedBlocks(f))
        <5>1. w \in [U(f) -> ReleasedBlocks(f)]
          BY <4>1
        <5>2. \A k, l \in U(f) : w[k] = w[l] => k = l
          BY <4>2
        <5>3. \A b \in ReleasedBlocks(f) : \E k \in U(f) : w[k] = b
          BY <4>1
        <5> HIDE DEF w
        <5> QED
          BY <5>1, <5>2, <5>3 DEF Bijection, Injection, IsInjective, Surjection
      <4> QED
        BY <4>3 DEF ExistsBijection
    <3> QED
      BY <3>8, <3>9, FS_Bijection
  <2>2. ASSUME NEW f \in Files, NEW g \in Files, f # g
        PROVE  ReleasedBlocks(f) \cap ReleasedBlocks(g) = {}
    BY <2>2, ReleasedUses DEF IOInv, Layout
  <2>3. block_bitmap = Reserved \cup UNION {ReleasedBlocks(f) : f \in Files}
    BY ReleasedUses DEF IOInv, Layout
  <2> QED
    BY <2>1, <2>2, <2>3 DEF BlocksAccounted
<1> QED
  BY <1>1, FileIOInvariant, PTL
-----------------------------------------------------------------------------
(***************************************************************************)
(* The bitmap.  FileIO takes the free blocks in ascending order: this is   *)
(* what bitMap_scan does on a map that its uint8_t variables can index.    *)
(***************************************************************************)
BitsOK == bits \in [Bits -> {0, 1}]

LEMMA MinIsLeast ==
    ASSUME NEW S \in SUBSET Nat, S # {}
    PROVE  Min(S) \in S /\ \A n \in S : Min(S) <= n
BY LeastElement DEF Min

\* A bounded set of numbers has a greatest element: the bound is least far
\* from it.
LEMMA MaxIsGreatest ==
    ASSUME NEW hi \in Nat, NEW S \in SUBSET (0..hi), S # {}
    PROVE  Max(S) \in S /\ \A n \in S : n <= Max(S)
<1> DEFINE D == {hi - n : n \in S}
<1>1. D \in SUBSET Nat /\ D # {}
  <2>1. ASSUME NEW d \in D PROVE d \in Nat
    <3>1. PICK n \in S : d = hi - n
      OBVIOUS
    <3>2. n \in 0..hi
      OBVIOUS
    <3> QED
      BY <3>1, <3>2
  <2>2. PICK n \in S : TRUE
    OBVIOUS
  <2>3. hi - n \in D
    OBVIOUS
  <2> QED
    BY <2>1, <2>3
<1>2. PICK d \in D : \A c \in D : d <= c
  <2> HIDE DEF D
  <2> QED
    BY <1>1, LeastElement
<1>3. PICK m \in S : d = hi - m
  OBVIOUS
<1>4. \A n \in S : m >= n
  <2> SUFFICES ASSUME NEW n \in S PROVE m >= n
    OBVIOUS
  <2>1. hi - n \in D
    OBVIOUS
  <2>2. hi - m <= hi - n
    BY <1>2, <1>3, <2>1
  <2> QED
    BY <2>2
<1> QED
  BY <1>4 DEF Max

\* The bytes that the first loop skips have no free bit.
LEMMA SkippedBytes ==
    ASSUME BitmapConstants, BitsOK
    PROVE  /\ FirstByte \in 0..ByteLen
           /\ \A i \in Bits : i < 8 * FirstByte => bits[i] = 1
<1> DEFINE partial == {k \in 0..ByteLen - 1 : \E i \in 8 * k..8 * k + 7 : bits[i] = 0}
<1>1. ByteLen \in Nat \ {0} /\ FirstByte = IF partial = {} THEN ByteLen ELSE Min(partial)
  BY DEF BitmapConstants, FirstByte
<1>2. partial \in SUBSET Nat
  BY <1>1
<1>3. /\ FirstByte \in 0..ByteLen
      /\ \A k \in 0..ByteLen - 1 : k < FirstByte => k \notin partial
  <2>1. CASE partial = {}
    <3> HIDE DEF partial
    <3> QED
      BY <1>1, <2>1
  <2>2. CASE partial # {}
    <3> HIDE DEF partial
    <3>1. Min(partial) \in partial /\ \A k \in partial : Min(partial) <= k
      BY <1>2, <2>2, MinIsLeast
    <3>2. partial \subseteq 0..ByteLen - 1
      BY DEF partial
    <3> QED
      BY <1>1, <2>2, <3>1, <3>2
  <2> QED
    BY <2>1, <2>2
<1>4. ASSUME NEW i \in Bits, i < 8 * FirstByte PROVE bits[i] = 1
  <2> DEFINE k == i \div 8
  <2>1. k \in 0..ByteLen - 1 /\ k < FirstByte /\ i \in 8 * k..8 * k + 7
    BY <1>1, <1>3, <1>4 DEF Bits
  <2>2. ~\E j \in 8 * k..8 * k + 7 : bits[j] = 0
    <3> HIDE DEF k
    <3> QED
      BY <1>3, <2>1
  <2> QED
    BY <2>1, <2>2 DEF BitsOK
<1> QED
  BY <1>3, <1>4

\* A free run of cnt bits that ends before bit i and cannot be longer.
RunBefore(i, cnt) ==
    /\ i - cnt >= 8 * FirstByte
    /\ \A j \in i - cnt..i - 1 : bits[j] = 0
    /\ i - cnt = 8 * FirstByte \/ bits[i - cnt - 1] = 1

\* The second loop counts the free bits since the last taken one.
LEMMA LeisureCount ==
    ASSUME BitmapConstants, BitsOK, 8 * ByteLen <= UINT8, NEW i \in 8 * FirstByte..8 * ByteLen - 1,
           NEW cnt \in Nat \ {0}
    PROVE  leisure_cnt(i) = cnt <=> RunBefore(i, cnt)
<1> DEFINE base == 8 * FirstByte
           taken == {j \in base..i - 1 : bits[j] = 1}
           last == IF taken = {} THEN base - 1 ELSE Max(taken)
<1>1. /\ ByteLen \in Nat /\ FirstByte \in 0..ByteLen /\ base \in Nat /\ i \in base..255
      /\ \A j \in base..i - 1 : bits[j] \in {0, 1}
  BY SkippedBytes DEF BitmapConstants, BitsOK, Bits, UINT8
<1>2. /\ last \in base - 1..i - 1
      /\ \A j \in last + 1..i - 1 : bits[j] = 0
      /\ last >= base => bits[last] = 1
  <2>1. CASE taken = {}
    <3>1. last = base - 1
      BY <2>1
    <3>2. \A j \in base..i - 1 : bits[j] = 0
      BY <1>1, <2>1
    <3> HIDE DEF last, base, taken
    <3> QED
      BY <1>1, <3>1, <3>2
  <2>2. CASE taken # {}
    <3>1. taken \in SUBSET (0..i) /\ i \in Nat
      BY <1>1
    <3>2. Max(taken) \in taken /\ \A n \in taken : n <= Max(taken)
      <4> HIDE DEF taken
      <4> QED
        BY <2>2, <3>1, MaxIsGreatest
    <3>3. last \in taken /\ \A n \in taken : n <= last
      BY <2>2, <3>2
    <3>4. last \in base..i - 1 /\ bits[last] = 1
      <4> HIDE DEF last
      <4> QED
        BY <3>3
    <3>5. ASSUME NEW j \in last + 1..i - 1 PROVE bits[j] = 0
      <4>1. j \in base..i - 1 /\ j > last
        <5> HIDE DEF last, base
        <5> QED
          BY <1>1, <3>4
      <4>2. j \notin taken
        <5> HIDE DEF last, taken
        <5> QED
          BY <1>1, <3>3, <3>4, <4>1
      <4> QED
        BY <1>1, <4>1, <4>2
    <3> HIDE DEF last, base, taken
    <3> QED
      BY <1>1, <3>4, <3>5
  <2> QED
    BY <2>1, <2>2
<1>3. leisure_cnt(i) = (i - 1 - last) % UINT8
  BY DEF leisure_cnt
<1>4. RunBefore(i, cnt) <=> /\ i - cnt >= base
                            /\ \A j \in i - cnt..i - 1 : bits[j] = 0
                            /\ i - cnt = base \/ bits[i - cnt - 1] = 1
  BY DEF RunBefore
<1> HIDE DEF last, base, taken
<1>5. leisure_cnt(i) = i - 1 - last
  BY <1>1, <1>2, <1>3 DEF UINT8
<1>6. ASSUME i - 1 - last = cnt PROVE RunBefore(i, cnt)
  BY <1>1, <1>2, <1>4, <1>6
<1>7. ASSUME RunBefore(i, cnt) PROVE i - 1 - last = cnt
  <2>1. last < i - cnt
    BY <1>1, <1>2, <1>4, <1>7
  <2>2. last >= i - cnt - 1
    BY <1>1, <1>2, <1>4, <1>7
  <2> QED
    BY <1>1, <1>2, <2>1, <2>2
<1> QED
  BY <1>5, <1>6, <1>7

\* The runs that the loop notices first are those of the first fit.
LEMMA ScanLemma ==
    ASSUME BitmapConstants, BitsOK, 8 * ByteLen <= UINT8, NEW cnt \in Counts
    PROVE  bitMap_scan(cnt) = IF Noticed(cnt) = {} THEN UINT8 - 1 ELSE Min(Noticed(cnt))
<1> DEFINE base == 8 * FirstByte
           ends == {i \in base..8 * ByteLen - 1 : leisure_cnt(i) = cnt}
           Q == Noticed(cnt)
<1>1. /\ ByteLen \in Nat /\ FirstByte \in 0..ByteLen /\ base \in Nat /\ cnt \in Nat \ {0}
      /\ \A i \in Bits : i < base => bits[i] = 1
      /\ \A i \in Bits : bits[i] \in {0, 1}
      /\ Bits = 0..8 * ByteLen - 1
  BY SkippedBytes DEF BitmapConstants, BitsOK, Bits
<1>2. \A i : i \in ends <=> i \in base..8 * ByteLen - 1 /\ RunBefore(i, cnt)
  BY <1>1, LeisureCount
<1>3. \A k : k \in Q <=> /\ k \in Bits /\ k + cnt < 8 * ByteLen
                         /\ \A j \in k..k + cnt - 1 : bits[j] = 0
  BY <1>1 DEF Noticed, Fits, InMap, IsFree
<1>4. \A i : RunBefore(i, cnt) <=> /\ i - cnt >= base
                                   /\ \A j \in i - cnt..i - 1 : bits[j] = 0
                                   /\ i - cnt = base \/ bits[i - cnt - 1] = 1
  BY DEF RunBefore
<1>5. bitMap_scan(cnt) = IF ends = {} THEN UINT8 - 1 ELSE (Min(ends) - cnt) % UINT8
  BY DEF bitMap_scan
<1>6. ends \in SUBSET Nat /\ Q \in SUBSET Nat
  BY <1>1, <1>2, <1>3
<1> HIDE DEF base, ends, Q
<1>7. ASSUME NEW i \in ends PROVE i - cnt \in Q
  <2>1. i \in base..8 * ByteLen - 1 /\ i - cnt >= base /\ \A j \in i - cnt..i - 1 : bits[j] = 0
    BY <1>2, <1>4, <1>7
  <2>2. i - cnt \in Bits /\ (i - cnt) + cnt = i
    BY <1>1, <2>1
  <2> QED
    BY <1>1, <1>3, <2>1, <2>2
<1>8. ASSUME NEW k \in Q, \A l \in Q : k <= l PROVE k + cnt \in ends
  <2>1. k \in Bits /\ k + cnt < 8 * ByteLen /\ \A j \in k..k + cnt - 1 : bits[j] = 0
    BY <1>3, <1>8
  <2>2. k >= base
    BY <1>1, <2>1
  <2>3. k = base \/ bits[k - 1] = 1
    <3> SUFFICES ASSUME k > base, bits[k - 1] = 0 PROVE FALSE
      BY <1>1, <2>1, <2>2
    <3>1. k - 1 \in Bits /\ (k - 1) + cnt < 8 * ByteLen
      BY <1>1, <2>1
    <3>2. \A j \in k - 1..(k - 1) + cnt - 1 : bits[j] = 0
      BY <1>1, <2>1
    <3>3. k - 1 \in Q
      BY <1>3, <3>1, <3>2
    <3> QED
      BY <1>1, <1>8, <2>1, <3>3
  <2>4. (k + cnt) - cnt = k /\ k + cnt \in base..8 * ByteLen - 1
    BY <1>1, <2>1, <2>2
  <2>5. RunBefore(k + cnt, cnt)
    <3> DEFINE i == k + cnt
    <3>1. i - cnt = k /\ i - 1 = k + cnt - 1 /\ i - cnt - 1 = k - 1
      BY <1>1, <2>1
    <3> HIDE DEF i
    <3>2. RunBefore(i, cnt)
      BY <1>4, <2>1, <2>2, <2>3, <3>1
    <3> QED
      BY <3>2 DEF i
  <2> QED
    BY <1>2, <2>4, <2>5
<1>9. CASE Q = {}
  <2>1. ends = {}
    BY <1>7, <1>9
  <2> QED
    BY <1>5, <1>9, <2>1 DEF Q
<1>10. CASE Q # {}
  <2>1. Min(Q) \in Q /\ \A l \in Q : Min(Q) <= l
    BY <1>6, <1>10, MinIsLeast
  <2>2. Min(Q) + cnt \in ends
    BY <1>8, <2>1
  <2>3. Min(ends) \in ends /\ \A i \in ends : Min(ends) <= i
    BY <1>6, <2>2, MinIsLeast
  <2>4. Min(ends) - cnt \in Q
    BY <1>7, <2>3
  <2>5. Min(ends) - cnt = Min(Q)
    <3> DEFINE a == Min(ends)
               b == Min(Q)
    <3>1. /\ a \in Nat /\ b \in Nat
          /\ b <= a - cnt /\ a <= b + cnt
      BY <1>6, <2>1, <2>2, <2>3, <2>4
    <3> HIDE DEF a, b
    <3>2. a - cnt = b
      BY <1>1, <3>1
    <3> QED
      BY <3>2 DEF a, b
  <2>6. Min(Q) \in 0..UINT8 - 1
    <3> DEFINE b == Min(Q)
    <3>1. b \in Bits
      BY <1>3, <2>1
    <3> HIDE DEF b
    <3>2. b \in 0..UINT8 - 1
      BY <1>1, <3>1 DEF UINT8
    <3> QED
      BY <3>2 DEF b
  <2>7. Min(Q) % UINT8 = Min(Q)
    BY <2>6 DEF UINT8
  <2>8. ends # {}
    BY <2>2
  <2> QED
    BY <1>5, <1>10, <2>5, <2>7, <2>8 DEF Q
<1> QED
  BY <1>9, <1>10

(***************************************************************************)
(* The inductive invariant.  What a client was told is inside the map, or  *)
(* is the 255 that a scan in vain answers, which must then be outside.     *)
(***************************************************************************)
BitmapInv ==
    /\ BitsOK
    /\ extents \subseteq [start : Nat, cnt : Nat \ {0}]
    /\ \A e \in extents : InMap(e.start, e.cnt) \/ e.start = UINT8 - 1
    /\ ExtentsDisjoint

\* Setting or clearing a range.
LEMMA SetRange ==
    ASSUME BitsOK, NEW start, NEW cnt, NEW value \in {0, 1}, bitmap_setEx(start, cnt, value)
    PROVE  /\ BitsOK'
           /\ \A i \in Bits : bits'[i] = IF i \in start..start + cnt - 1 THEN value ELSE bits[i]
BY DEF BitsOK, bitmap_setEx

LEMMA AllocStep ==
    ASSUME BitmapConstants, BitmapInv, 8 * ByteLen < UINT8, NEW cnt \in Counts, Alloc(cnt)
    PROVE  BitmapInv'
<1> DEFINE start == bitMap_scan(cnt)
           new == [start |-> start, cnt |-> cnt]
<1>1. /\ ByteLen \in Nat /\ cnt \in Nat \ {0} /\ 8 * ByteLen <= 255
      /\ \A i : i \in Bits <=> i \in 0..8 * ByteLen - 1
      /\ BitsOK /\ extents \subseteq [start : Nat, cnt : Nat \ {0}]
      /\ \A e \in extents : e.start + e.cnt <= 8 * ByteLen \/ e.start = 255
  BY DEF BitmapConstants, BitmapInv, UINT8, InMap, Bits
<1>2. start = IF Noticed(cnt) = {} THEN UINT8 - 1 ELSE Min(Noticed(cnt))
  BY <1>1, ScanLemma DEF UINT8
<1>3. \/ start = 255
      \/ /\ start \in Nat /\ start + cnt <= 8 * ByteLen
         /\ \A i \in start..start + cnt - 1 : bits[i] = 0
  <2>1. CASE Noticed(cnt) = {}
    BY <1>2, <2>1 DEF UINT8
  <2>2. CASE Noticed(cnt) # {}
    <3>1. Noticed(cnt) \in SUBSET Nat
      BY <1>1 DEF Noticed, Fits
    <3>2. start \in Noticed(cnt)
      BY <1>2, <2>2, <3>1, MinIsLeast
    <3>3. start \in Fits(cnt) /\ start \in Nat
      BY <3>1, <3>2 DEF Noticed
    <3> HIDE DEF start
    <3> QED
      BY <3>3 DEF Fits, InMap, IsFree
  <2> QED
    BY <2>1, <2>2
<1>4. /\ bitmap_setEx(start, cnt, 1) /\ extents' = extents \cup {new}
  BY DEF Alloc
<1>5. new.start = start /\ new.cnt = cnt
  OBVIOUS
<1> HIDE DEF start, new
<1>6. /\ BitsOK'
      /\ \A i \in Bits : bits'[i] = IF i \in start..start + cnt - 1 THEN 1 ELSE bits[i]
  BY <1>1, <1>4, SetRange
<1>7. start \in Nat
  BY <1>3
<1>8. extents' \subseteq [start : Nat, cnt : Nat \ {0}]
  BY <1>1, <1>4, <1>7 DEF new
<1>9. \A e \in extents' : e.start + e.cnt <= 8 * ByteLen \/ e.start = 255
  BY <1>1, <1>3, <1>4, <1>5
<1>10. \A e \in extents : e.start + e.cnt <= 8 * ByteLen =>
          /\ \A i \in e.start..e.start + e.cnt - 1 : bits[i] = 1
          /\ \A f \in extents \ {e} : f.start >= e.start + e.cnt \/ f.start + f.cnt <= e.start
  BY DEF BitmapInv, ExtentsDisjoint, InMap
<1>11. ASSUME NEW e \in extents', e.start + e.cnt <= 8 * ByteLen,
              NEW i \in e.start..e.start + e.cnt - 1
       PROVE  bits'[i] = 1
  <2>1. e.start \in Nat /\ e.cnt \in Nat
    BY <1>8
  <2>2. i \in Bits
    BY <1>1, <1>11, <2>1
  <2>3. CASE e \in extents
    BY <1>6, <1>10, <1>11, <2>2, <2>3
  <2>4. CASE e = new
    BY <1>5, <1>6, <2>2, <2>4
  <2> QED
    BY <1>4, <2>3, <2>4
<1>12. ASSUME NEW e \in extents, e.start + e.cnt <= 8 * ByteLen
       PROVE  start >= e.start + e.cnt \/ start + cnt <= e.start
  <2>1. e.start \in Nat /\ e.cnt \in Nat \ {0}
    BY <1>1
  <2>2. CASE start = 255
    BY <1>1, <1>12, <2>1, <2>2
  <2>3. CASE /\ start \in Nat /\ start + cnt <= 8 * ByteLen
             /\ \A i \in start..start + cnt - 1 : bits[i] = 0
    <3> SUFFICES ASSUME start < e.start + e.cnt, start + cnt > e.start PROVE FALSE
      BY <1>1, <2>1, <2>3
    <3> DEFINE i == IF start >= e.start THEN start ELSE e.start
    <3>1. i \in start..start + cnt - 1 /\ i \in e.start..e.start + e.cnt - 1
      BY <1>1, <2>1, <2>3
    <3> HIDE DEF i
    <3>2. bits[i] = 0 /\ bits[i] = 1
      BY <1>10, <1>12, <2>3, <3>1
    <3> QED
      BY <3>2
  <2> QED
    BY <1>3, <2>2, <2>3
<1>13. ASSUME NEW e \in extents', e.start + e.cnt <= 8 * ByteLen, NEW f \in extents' \ {e}
       PROVE  f.start >= e.start + e.cnt \/ f.start + f.cnt <= e.start
  <2>0. /\ e.start \in Nat /\ e.cnt \in Nat \ {0} /\ f.start \in Nat /\ f.cnt \in Nat \ {0}
        /\ f.start + f.cnt <= 8 * ByteLen \/ f.start = 255
    BY <1>8, <1>9
  <2>1. CASE e \in extents /\ f \in extents
    BY <1>10, <1>13, <2>1
  <2>2. CASE e \in extents /\ f = new
    BY <1>5, <1>12, <1>13, <2>2
  <2>3. CASE e = new /\ f \in extents
    <3>1. CASE f.start + f.cnt <= 8 * ByteLen
      BY <1>5, <1>12, <2>0, <2>3, <3>1
    <3>2. CASE f.start = 255
      BY <1>1, <1>13, <2>0, <3>2
    <3> QED
      BY <2>0, <3>1, <3>2
  <2> QED
    BY <1>4, <1>13, <2>1, <2>2, <2>3
<1>14. ExtentsDisjoint'
  BY <1>11, <1>13 DEF ExtentsDisjoint, InMap
<1> QED
  BY <1>6, <1>8, <1>9, <1>14 DEF BitmapInv, InMap, UINT8

LEMMA FreeStep ==
    ASSUME BitmapConstants, BitmapInv, 8 * ByteLen < UINT8, NEW g \in extents, Free(g)
    PROVE  BitmapInv'
<1>1. /\ ByteLen \in Nat /\ 8 * ByteLen <= 255
      /\ \A i : i \in Bits <=> i \in 0..8 * ByteLen - 1
      /\ BitsOK /\ extents \subseteq [start : Nat, cnt : Nat \ {0}]
      /\ \A e \in extents : e.start + e.cnt <= 8 * ByteLen \/ e.start = 255
  BY DEF BitmapConstants, BitmapInv, UINT8, InMap, Bits
<1>2. bitmap_setEx(g.start, g.cnt, 0) /\ extents' = extents \ {g}
  BY DEF Free
<1>3. /\ BitsOK'
      /\ \A i \in Bits : bits'[i] = IF i \in g.start..g.start + g.cnt - 1 THEN 0 ELSE bits[i]
  BY <1>1, <1>2, SetRange
<1>4. ASSUME NEW e \in extents', e.start + e.cnt <= 8 * ByteLen
      PROVE  /\ \A i \in e.start..e.start + e.cnt - 1 : bits'[i] = 1
             /\ \A f \in extents' \ {e} : f.start >= e.start + e.cnt \/ f.start + f.cnt <= e.start
  <2>1. /\ e \in extents /\ g \in extents \ {e}
        /\ e.start \in Nat /\ e.cnt \in Nat /\ g.start \in Nat /\ g.cnt \in Nat
    BY <1>1, <1>2
  <2>2. /\ \A i \in e.start..e.start + e.cnt - 1 : bits[i] = 1
        /\ \A f \in extents \ {e} : f.start >= e.start + e.cnt \/ f.start + f.cnt <= e.start
    BY <1>4, <2>1 DEF BitmapInv, ExtentsDisjoint, InMap
  <2>3. ASSUME NEW i \in e.start..e.start + e.cnt - 1 PROVE bits'[i] = 1
    <3>1. i \in Bits /\ i \notin g.start..g.start + g.cnt - 1
      BY <1>1, <1>4, <2>1, <2>2
    <3> QED
      BY <1>3, <2>2, <3>1
  <2> QED
    BY <1>2, <2>2, <2>3
<1>5. ExtentsDisjoint'
  BY <1>4 DEF ExtentsDisjoint, InMap
<1> QED
  BY <1>1, <1>2, <1>3, <1>5 DEF BitmapInv, InMap, UINT8

\* The values of the map are bits, whatever its size.
THEOREM BitsTyped == BitmapSpec => []BitsOK
<1>1. BitmapInit => BitsOK
  BY DEF BitmapInit, BitsOK
<1>2. BitsOK /\ [BitmapNext]_bitmapVars => BitsOK'
  BY SetRange DEF BitmapNext, Alloc, Free, bitmapVars, BitsOK
<1> QED
  BY <1>1, <1>2, PTL DEF BitmapSpec

\* On a map of at most 256 bits bitMap_scan answers with the first run that
\* fits, for any requests and in every state that allocations and releases
\* lead to, except when only a run that ends with the map fits.
THEOREM ScansFirstFit ==
    ASSUME BitmapConstants, 8 * ByteLen <= UINT8
    PROVE  BitmapSpec => []FirstFitBeforeEnd
<1>1. ASSUME BitsOK, NEW cnt \in Counts, Noticed(cnt) # {}
      PROVE  bitMap_scan(cnt) = Min(Fits(cnt))
  <2>1. bitMap_scan(cnt) = Min(Noticed(cnt))
    BY <1>1, ScanLemma
  <2>2. cnt \in Nat /\ 8 * ByteLen \in Nat
    BY DEF BitmapConstants
  <2>3. Fits(cnt) \in SUBSET Nat /\ Noticed(cnt) \in SUBSET Nat
    BY <2>2 DEF Fits, Noticed, Bits
  <2>4. Noticed(cnt) \subseteq Fits(cnt) /\ Fits(cnt) # {}
    BY <1>1 DEF Noticed
  <2>5. Min(Noticed(cnt)) \in Noticed(cnt) /\ \A k \in Noticed(cnt) : Min(Noticed(cnt)) <= k
    BY <1>1, <2>3, MinIsLeast
  <2>6. Min(Fits(cnt)) \in Fits(cnt) /\ \A k \in Fits(cnt) : Min(Fits(cnt)) <= k
    BY <2>3, <2>4, MinIsLeast
  <2> DEFINE a == Min(Fits(cnt))
             b == Min(Noticed(cnt))
  <2>7. a \in Nat /\ b \in Nat /\ a <= b /\ b + cnt < 8 * ByteLen /\ a \in Fits(cnt)
    BY <2>3, <2>4, <2>5, <2>6 DEF Noticed
  <2> HIDE DEF a, b
  <2>8. a + cnt < 8 * ByteLen
    BY <2>2, <2>7
  <2>9. a \in Noticed(cnt)
    BY <2>7, <2>8 DEF Noticed
  <2>10. a = b
    BY <2>5, <2>7, <2>9 DEF b
  <2> QED
    BY <2>1, <2>10 DEF a, b
<1>2. BitsOK => FirstFitBeforeEnd
  BY <1>1 DEF FirstFitBeforeEnd
<1> QED
  BY <1>2, BitsTyped, PTL

\* The inductive invariant of scan and set on a map of less than 256 bits.
THEOREM BitmapInvariant ==
    ASSUME BitmapConstants, 8 * ByteLen < UINT8
    PROVE  BitmapSpec => []BitmapInv
<1>1. BitmapInit => BitmapInv
  BY DEF BitmapInit, BitmapInv, BitsOK, ExtentsDisjoint
<1>2. BitmapInv /\ [BitmapNext]_bitmapVars => BitmapInv'
  <2> SUFFICES ASSUME BitmapInv, [BitmapNext]_bitmapVars PROVE BitmapInv'
    OBVIOUS
  <2>1. ASSUME NEW cnt \in Counts, Alloc(cnt) PROVE BitmapInv'
    BY <2>1, AllocStep
  <2>2. ASSUME NEW e \in extents, Free(e) PROVE BitmapInv'
    BY <2>2, FreeStep
  <2>3. CASE UNCHANGED bitmapVars
    BY <2>3 DEF bitmapVars, BitmapInv, BitsOK, ExtentsDisjoint
  <2> QED
    BY <2>1, <2>2, <2>3 DEF BitmapNext
<1> QED
  BY <1>1, <1>2, PTL DEF BitmapSpec

\* On such a map no bit is given to two clients and none is lost to a release
\* of another, although a scan in vain answers 255 and nobody takes that for a
\* failure.
THEOREM ExtentsApart ==
    ASSUME BitmapConstants, 8 * ByteLen < UINT8
    PROVE  BitmapSpec => []ExtentsDisjoint
<1>1. BitmapInv => ExtentsDisjoint
  BY DEF BitmapInv
<1> QED
  BY <1>1, BitmapInvariant, PTL
=============================================================================
