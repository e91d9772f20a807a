------------------------------- MODULE FileIO -------------------------------
(***************************************************************************)
(* The data of regular files (file_write, file_read, sys_lseek and         *)
(* inode_release of src/fs/fs.c): the arithmetic that takes a byte of a    *)
(* file through the direct blocks of its inode and the indirect table to a *)
(* block of the partition, and the block bitmap behind it.                 *)
(*                                                                         *)
(* A file has one descriptor at a time here and a call is one step: the    *)
(* block map is the only thing calls on different files share, and the     *)
(* code scans it and sets the bit without giving up the CPU in between.    *)
(* bitMap_scan answers with a uint8_t (bitmap.c:32) and does not notice a  *)
(* run that ends with the map: the model has the blocks whose bits it can  *)
(* answer with, at most 255, and a write is taken only while enough of     *)
(* them are free.  On a larger partition a file that needs a block beyond  *)
(* them is given one that is taken (see Bitmap): that is not followed.     *)
(***************************************************************************)
EXTENDS Integers, FiniteSets, FiniteSetsExt, Functions

CONSTANTS Files,
          BLOCK_SIZE,  \* bytes of a block: 512
          Direct,      \* direct blocks of an inode: 12
          Indirect,    \* entries of the indirect table: 128
          Blocks,      \* the bits a scan of the block bitmap can answer with: 0..Blocks - 1
          MaxCount,    \* bound on the count of one call
          MaxOpen,     \* bound on the files open at a time
          MaxReborn    \* bound on the times files are deleted and made again

ASSUME FileIOAssumption ==
    /\ BLOCK_SIZE \in Nat \ {0} /\ Direct \in Nat \ {0} /\ Indirect \in Nat \ {0}
    /\ MaxCount \in Nat \ {0} /\ MaxOpen \in Nat \ {0} /\ MaxReborn \in Nat
    /\ Blocks \in 0..255

VARIABLES i_sectors,  \* per file: Direct block numbers and the table's; 0 is none
          i_bsize,    \* per file: its size in bytes
          fd_pos,     \* per file: position of its descriptor, Closed if none
          block_bitmap, \* the bits that are set
          disk,       \* per block: its bytes, or the entries of an indirect table
          born,       \* per file: how often it was deleted and made again
          panicked    \* the call whose assert failed, after which nothing runs

vars == <<i_sectors, i_bsize, fd_pos, block_bitmap, disk, born, panicked>>

Closed == -1
MaxBlocks == Direct + Indirect
Block == 0..Blocks - 1

\* Block 0 is the root directory's; partition_format sets bits 0 and 1.
Reserved == {0, 1}

\* The bytes written at offset o of file f: every byte of the system differs.
Byte(f, o) == <<f, born[f], o>>
NoByte == <<>>
Zero == [k \in 0..BLOCK_SIZE - 1 |-> NoByte]
NoTable == [k \in Direct..MaxBlocks - 1 |-> 0]
NoPanic == [call |-> "none", end |-> 0]

NoBlocks == [k \in 0..Direct |-> 0]

Init ==
    /\ i_sectors = [f \in Files |-> NoBlocks]
    /\ i_bsize = [f \in Files |-> 0]
    /\ fd_pos = [f \in Files |-> Closed]
    /\ block_bitmap = Reserved
    /\ disk = [b \in Block |-> Zero]
    /\ born = [f \in Files |-> 0]
    /\ panicked = NoPanic

-----------------------------------------------------------------------------
\* block_bitmap_alloc, n times in a row: the free blocks from the lowest up.
FreeBlock(n) == CHOOSE b \in Block \ block_bitmap :
                   Cardinality({c \in Block \ block_bitmap : c < b}) = n - 1

\* file_has_used_blocks, file_will_use_blocks: one more than the full blocks.
BlocksOf(size) == size \div BLOCK_SIZE + 1

Table(f) == IF i_sectors[f][Direct] = 0 THEN NoTable ELSE disk[i_sectors[f][Direct]]

\* all_block once it is filled in: where file f has its k-th block.
BlockAt(f, k) == IF k < Direct THEN i_sectors[f][k] ELSE Table(f)[k]

\* The asserts of file_write: there is a 140th block at most, a block that is
\* to be allocated has none yet, and a file that needs the table has one.
WriteAsserts(f, count) ==
    LET has == BlocksOf(i_bsize[f])
        will == BlocksOf(i_bsize[f] + count)
    IN  /\ will <= MaxBlocks
        /\ has > Direct => i_sectors[f][Direct] # 0
        /\ has <= Direct /\ will > Direct => i_sectors[f][Direct] = 0
        /\ \A k \in has..will - 1 : k < Direct => i_sectors[f][k] = 0

(***************************************************************************)
(* The blocks file_write takes for a write of count bytes, in the order in *)
(* which it takes them: the first block at the first write, the indirect   *)
(* table when the file grows out of its direct blocks, and then the blocks *)
(* from the first unused to the last.  Index -1 is the table; 0 is the     *)
(* turn of a block that is not taken.                                      *)
(***************************************************************************)
Turn(f, count, k) ==
    LET has == BlocksOf(i_bsize[f])
        will == BlocksOf(i_bsize[f] + count)
        first == IF i_sectors[f][0] = 0 THEN 1 ELSE 0
        table == IF has <= Direct /\ will > Direct THEN 1 ELSE 0
    IN  IF k = 0 /\ first = 1 THEN 1
        ELSE IF k = -1 /\ table = 1 THEN first + 1
        ELSE IF k \in has..will - 1 THEN first + table + k - has + 1
        ELSE 0

NewBlock(f, count, k) ==
    IF Turn(f, count, k) = 0 THEN 0 ELSE FreeBlock(Turn(f, count, k))

\* The block map has room for all of them.
HasRoom(f, count) ==
    \A k \in -1..MaxBlocks - 1 : Turn(f, count, k) <= Cardinality(Block \ block_bitmap)

\* Where the k-th block is when the loop that writes begins (all_block).
all_block(f, count, k) ==
    IF NewBlock(f, count, k) # 0 THEN NewBlock(f, count, k) ELSE BlockAt(f, k)

(***************************************************************************)
(* The k-th block after the loop has written the bytes from..to - 1.  Only *)
(* the first block of the loop is read before it is written: the others    *)
(* are zero outside the bytes written.                                     *)
(***************************************************************************)
WrittenBlock(f, k, old, from, to) ==
    [j \in 0..BLOCK_SIZE - 1 |->
        LET o == k * BLOCK_SIZE + j IN
        IF o \in from..to - 1 THEN Byte(f, o)
        ELSE IF k = from \div BLOCK_SIZE THEN old[j]
        ELSE NoByte]

\* An assert that fails stops the machine (panic_spin).
panic_spin(call) ==
    /\ panicked' = call
    /\ UNCHANGED <<i_sectors, i_bsize, fd_pos, block_bitmap, disk, born>>

\* Mutant: the indirect table is written as it was before the call.
NewTable_old(f, count) == Table(f)

\* The table file_write writes back, of the blocks there are and the new ones.
NewTable(f, count) ==
    [k \in Direct..MaxBlocks - 1 |-> all_block(f, count, k)]

\* Mutant: the size before the write is compared with the largest size.
FitsFile_before(f, count) == i_bsize[f] <= BLOCK_SIZE * MaxBlocks

\* The first test of file_write: the file stays within its largest size.
FitsFile(f, count) == i_bsize[f] + count <= BLOCK_SIZE * MaxBlocks

(***************************************************************************)
(* file_write: the bytes are appended whatever the position, and the       *)
(* position ends at the last byte written, not after it.  A write beyond   *)
(* the largest size is refused, and changes nothing.                       *)
(***************************************************************************)
file_write(f, count) ==
    LET from == i_bsize[f]
        to == from + count
        new(k) == NewBlock(f, count, k)
        table == IF new(-1) # 0 THEN new(-1) ELSE i_sectors[f][Direct]
        touched == from \div BLOCK_SIZE..(to - 1) \div BLOCK_SIZE
        taken == {new(k) : k \in -1..MaxBlocks - 1} \ {0}
    IN
    /\ FitsFile(f, count)
    /\ IF ~WriteAsserts(f, count) THEN panic_spin([call |-> "write", end |-> to])
       ELSE /\ HasRoom(f, count)
            /\ i_sectors' = [i_sectors EXCEPT ![f] =
                   [k \in 0..Direct |-> IF k = Direct THEN table ELSE all_block(f, count, k)]]
            /\ block_bitmap' = block_bitmap \cup taken
            /\ disk' = [b \in Block |->
                   IF b # 0 /\ b = table THEN NewTable(f, count)
                   ELSE IF \E k \in touched : all_block(f, count, k) = b
                   THEN LET k == CHOOSE k \in touched : all_block(f, count, k) = b
                        IN  WrittenBlock(f, k, IF b \in taken THEN Zero ELSE disk[b], from, to)
                   ELSE IF b \in taken THEN Zero
                   ELSE disk[b]]
            /\ i_bsize' = [i_bsize EXCEPT ![f] = to]
            /\ fd_pos' = [fd_pos EXCEPT ![f] = to - 1]
            /\ UNCHANGED <<born, panicked>>

\* Mutant: the offset inside the block is taken for the offset in the table.
ByteAt_swapped(f, o) == disk[BlockAt(f, o % BLOCK_SIZE)][o % BLOCK_SIZE]

\* The byte the loop of file_read copies when the position is o.
ByteAt(f, o) == disk[BlockAt(f, o \div BLOCK_SIZE)][o % BLOCK_SIZE]

\* The asserts of file_read: no block after the 139th is asked for, and a read
\* across blocks that needs the table finds one.
ReadAsserts(f, pos, end) ==
    LET start_idx == pos \div BLOCK_SIZE
        end_idx == end \div BLOCK_SIZE
    IN  /\ start_idx < MaxBlocks - 1 /\ end_idx < MaxBlocks - 1
        /\ start_idx # end_idx /\ end_idx >= Direct => i_sectors[f][Direct] # 0

(***************************************************************************)
(* file_read: as much of count as the file has after the position; nothing *)
(* there is an error, and changes nothing.                                 *)
(***************************************************************************)
file_read(f, count) ==
    LET pos == fd_pos[f]
        size == Min({count, i_bsize[f] - pos})
        end == pos + size
    IN
    /\ size # 0
    /\ IF ~ReadAsserts(f, pos, end)
       THEN panic_spin([call |-> "read", end |-> end])
       ELSE /\ fd_pos' = [fd_pos EXCEPT ![f] = end]
            /\ UNCHANGED <<i_sectors, i_bsize, block_bitmap, disk, born, panicked>>

\* Mutant: any position that is not negative is accepted.
SeekAccepts_any(f, new_pos) == new_pos > 0

\* sys_lseek takes a position inside the file, but not its first byte.
SeekAccepts(f, new_pos) == ~(new_pos <= 0 \/ new_pos > i_bsize[f] - 1)

\* sys_lseek: SEEK_SET, SEEK_CUR and SEEK_END.
sys_lseek(f, offset) ==
    \E base \in {0, fd_pos[f], i_bsize[f]} :
        /\ SeekAccepts(f, base + offset)
        /\ fd_pos' = [fd_pos EXCEPT ![f] = base + offset]
        /\ UNCHANGED <<i_sectors, i_bsize, block_bitmap, disk, born, panicked>>

\* file_open and file_close, as far as the position goes.
file_open(f) ==
    /\ fd_pos[f] = Closed
    /\ Cardinality({g \in Files : fd_pos[g] # Closed}) < MaxOpen
    /\ fd_pos' = [fd_pos EXCEPT ![f] = 0]
    /\ UNCHANGED <<i_sectors, i_bsize, block_bitmap, disk, born, panicked>>

file_close(f) ==
    /\ fd_pos' = [fd_pos EXCEPT ![f] = Closed]
    /\ UNCHANGED <<i_sectors, i_bsize, block_bitmap, disk, born, panicked>>

\* Mutant: the block of the indirect table itself is not freed.
ReleasedBlocks_notable(f) == {BlockAt(f, k) : k \in 0..MaxBlocks - 1} \ {0}

\* What inode_release frees: the table, and every block that is not 0.
ReleasedBlocks(f) ==
    ({BlockAt(f, k) : k \in 0..MaxBlocks - 1} \cup {i_sectors[f][Direct]}) \ {0}

(***************************************************************************)
(* sys_unlink of a file that is not open, and file_create of a new file    *)
(* under the name: inode_init makes it empty.                              *)
(***************************************************************************)
inode_release(f) ==
    /\ fd_pos[f] = Closed
    /\ FoldFunction(LAMBDA a, b : a + b, 0, born) < MaxReborn
    /\ block_bitmap' = block_bitmap \ ReleasedBlocks(f)
    /\ i_sectors' = [i_sectors EXCEPT ![f] = NoBlocks]
    /\ i_bsize' = [i_bsize EXCEPT ![f] = 0]
    /\ born' = [born EXCEPT ![f] = @ + 1]
    /\ UNCHANGED <<fd_pos, disk, panicked>>

Next ==
    /\ panicked = NoPanic
    /\ \E f \in Files :
         \/ file_open(f)
         \/ inode_release(f)
         \/ /\ fd_pos[f] # Closed
            /\ \/ \E count \in 1..MaxCount : file_write(f, count) \/ file_read(f, count)
               \/ \E offset \in -1..MaxCount : sys_lseek(f, offset)
               \/ file_close(f)

Spec == Init /\ [][Next]_vars

-----------------------------------------------------------------------------
\* Every byte of a file reads as the byte that was written at that offset of
\* that file: whatever the sequence of writes, deletions and block reuse,
\* through direct blocks, the indirect table and the boundary between them.
ReadReturnsWritten ==
    \A f \in Files : \A o \in 0..i_bsize[f] - 1 : ByteAt(f, o) = Byte(f, o)

\* The blocks files hold are each held once, as data or as a table, and the
\* bitmap has exactly their bits: nothing is shared and nothing leaks.
BlocksAccounted ==
    LET held(f) == {k \in 0..Direct - 1 : i_sectors[f][k] # 0}
        heldIn(f) == {k \in Direct..MaxBlocks - 1 : Table(f)[k] # 0}
        count(f) == Cardinality(held(f)) + Cardinality(heldIn(f))
                    + (IF i_sectors[f][Direct] # 0 THEN 1 ELSE 0)
    IN  /\ \A f \in Files : Cardinality(ReleasedBlocks(f)) = count(f)
        /\ \A f, g \in Files : f # g => ReleasedBlocks(f) \cap ReleasedBlocks(g) = {}
        /\ block_bitmap = Reserved \cup UNION {ReleasedBlocks(f) : f \in Files}

\* The position of a descriptor is never beyond the end of the file: the size
\* minus the position, which file_read computes unsigned, does not wrap.
PosInFile == \A f \in Files : fd_pos[f] # Closed => fd_pos[f] <= i_bsize[f]

\* The asserts about blocks never fail, except that an access that reaches the
\* last block of a file of the largest size stops the machine: file_write
\* when it fills that block, file_read when it ends in it.
PanicOnlyAtLimit ==
    panicked # NoPanic =>
        \/ panicked.call = "write" /\ panicked.end = BLOCK_SIZE * MaxBlocks
        \/ panicked.call = "read" /\ panicked.end >= BLOCK_SIZE * (MaxBlocks - 1)
=============================================================================
