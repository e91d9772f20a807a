------------------------------- MODULE Bitmap -------------------------------
(***************************************************************************)
(* The bitmap allocator (src/kernel/bitmap.c) behind the pid pool, the     *)
(* page pools, the virtual address pools, and the inode and block maps.    *)
(* A client scans for cnt free bits, sets them, and clears them later.     *)
(*                                                                         *)
(* bitMap_scan keeps its index and its run length in uint8_t variables:    *)
(* both are taken modulo 256.                                              *)
(***************************************************************************)
EXTENDS Integers, FiniteSets, FiniteSetsExt

CONSTANTS ByteLen,    \* bitmap_byte_len
          Counts,     \* the lengths clients ask for
          MaxLive     \* bound on the allocations alive at a time

\* What the constants may be.
BitmapConstants ==
    /\ ByteLen \in Nat \ {0}
    /\ Counts \subseteq Nat \ {0}
    /\ MaxLive \in Nat

VARIABLES bits,     \* the map: 1 is taken
          extents   \* what clients hold: [start, cnt]

bitmapVars == <<bits, extents>>

Bits == 0..8 * ByteLen - 1
UINT8 == 256

\* bitmap_init
BitmapInit == bits = [i \in Bits |-> 0] /\ extents = {}

-----------------------------------------------------------------------------
\* The first loop: skip the bytes that are 0xFF.
FirstByte ==
    LET partial == {k \in 0..ByteLen - 1 : \E i \in 8 * k..8 * k + 7 : bits[i] = 0}
    IN  IF partial = {} THEN ByteLen ELSE Min(partial)

\* leisure_cnt when the second loop arrives at bit i: the free bits since the
\* last taken one.
leisure_cnt(i) ==
    LET taken == {j \in 8 * FirstByte..i - 1 : bits[j] = 1}
        last == IF taken = {} THEN 8 * FirstByte - 1 ELSE Max(taken)
    IN  (i - 1 - last) % UINT8

\* bitMap_scan: the run is noticed at the bit after it, if there is one.
\* Not finding any leaves bit_idx at (uint8_t)-1.
bitMap_scan(cnt) ==
    LET ends == {i \in 8 * FirstByte..8 * ByteLen - 1 : leisure_cnt(i) = cnt}
    IN  IF ends = {} THEN UINT8 - 1 ELSE (Min(ends) - cnt) % UINT8

\* bitmap_setEx; what it does outside the map is not this map's state.
bitmap_setEx(start, cnt, value) ==
    bits' = [i \in Bits |-> IF i \in start..start + cnt - 1 THEN value ELSE bits[i]]

\* Scan and set, as allocate_pid, palloc, vaddr_get, inode_bitmap_alloc and
\* block_bitmap_alloc do: only -1 would be taken for a failure.
Alloc(cnt) ==
    LET start == bitMap_scan(cnt) IN
    /\ Cardinality(extents) < MaxLive
    /\ start # -1
    /\ bitmap_setEx(start, cnt, 1)
    /\ extents' = extents \cup {[start |-> start, cnt |-> cnt]}

Free(e) ==
    /\ bitmap_setEx(e.start, e.cnt, 0)
    /\ extents' = extents \ {e}

BitmapNext == (\E cnt \in Counts : Alloc(cnt)) \/ (\E e \in extents : Free(e))

BitmapSpec == BitmapInit /\ [][BitmapNext]_bitmapVars

-----------------------------------------------------------------------------
InMap(start, cnt) == start + cnt <= 8 * ByteLen

IsFree(start, cnt) == \A i \in start..start + cnt - 1 : bits[i] = 0

\* The starts of all free runs of cnt bits.
Fits(cnt) == {k \in Bits : InMap(k, cnt) /\ IsFree(k, cnt)}

\* The free runs the scan can notice: all but the one that ends with the
\* last bit of the map.
Noticed(cnt) == {k \in Fits(cnt) : k + cnt < 8 * ByteLen}

\* What bitmap.h promises of bitMap_scan: the index of the first bit of a free
\* run of cnt bits of the map, or -1 if there is none.
ScanAsPromised ==
    \A cnt \in Counts :
        IF Fits(cnt) = {} THEN bitMap_scan(cnt) = -1 ELSE bitMap_scan(cnt) \in Fits(cnt)

\* What the code keeps of it: whenever a run fits that does not end with the
\* map, the answer is the first run that fits.
FirstFitBeforeEnd ==
    \A cnt \in Counts : Noticed(cnt) # {} => bitMap_scan(cnt) = Min(Fits(cnt))

\* Allocations inside the map do not overlap and their bits stay set until
\* they are freed.
ExtentsDisjoint ==
    \A e \in extents : InMap(e.start, e.cnt) =>
        /\ \A i \in e.start..e.start + e.cnt - 1 : bits[i] = 1
        /\ \A f \in extents \ {e} :
              f.start >= e.start + e.cnt \/ f.start + f.cnt <= e.start

=============================================================================
