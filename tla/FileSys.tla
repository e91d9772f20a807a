------------------------------ MODULE FileSys -------------------------------
(***************************************************************************)
(* The tree of names on the partition (src/fs/fs.c, dir.c, inode.c,        *)
(* file.c): inodes, directories and the two bitmaps, on disk and in        *)
(* memory, the in-core inodes with their open counts, and the power        *)
(* failing between any two writes.                                         *)
(*                                                                         *)
(* The model has one caller at a time, as the shell and the command it     *)
(* waits for are; a call then depends only on the state it starts in.  It  *)
(* is an action that changes memory and leaves in todo the disk writes the *)
(* code issues, in their order; DiskWrite carries them out one by one and  *)
(* the next call waits for the last.  A crash drops those left and mounts  *)
(* the partition again.                                                    *)
(***************************************************************************)
EXTENDS Integers, Sequences, FiniteSets, FiniteSetsExt, SequencesExt, Functions

CONSTANTS Names,     \* file names; "." and ".." are not among them
          Inodes,    \* number of inodes: 4096
          Blocks,    \* number of data blocks; a block's address is not 0
          Direct,    \* direct blocks of an inode: 12
          PerBlock,  \* directory entries of a block: 512 / 24
          MaxDepth,  \* bound on the names in a path
          MaxCrash,  \* bound on the crashes
          MaxOpen    \* bound on the opens not closed, forgotten ones included

ASSUME FileSysAssumption ==
    /\ Inodes \in Nat \ {0} /\ Blocks \in Nat /\ Direct \in Nat \ {0}
    /\ PerBlock \in Nat /\ PerBlock > 2
    /\ {".", ".."} \cap Names = {}

VARIABLES disk,          \* [node, block, imap, bmap]: inode table, blocks, bitmaps
          inode_bitmap,  \* in memory, the bits that are set
          block_bitmap,
          open_inodes,   \* the list of in-core inodes, by number
          file_table,    \* per inode: the descriptors of the file
          handles,       \* per inode: what opendir gave out and closedir did not take
          cwd,           \* the caller's cwd_inode_nr
          todo,          \* disk writes of the call under way
          call,          \* that call, and the directory and name it changes
          leaks,         \* per inode: opens that no code will close
          crashes,
          torn,          \* a crash came where the disk was in between
          stale,         \* inodes released while an in-core copy stayed
          names          \* where the paths led when the disk was last not in between

vars == <<disk, inode_bitmap, block_bitmap, open_inodes, file_table, handles,
          cwd, todo, call, leaks, crashes, torn, stale, names>>

Inode == 0..Inodes - 1
Block == 1..Blocks
Slot == 0..PerBlock - 1
Root == 0

NULL == <<"NULL">>
NoNode == [sectors |-> [k \in 0..Direct - 1 |-> 0], size |-> 0]
NoEntry == [name |-> "", i_no |-> 0, type |-> "unknown"]
NoEntries == [j \in Slot |-> NoEntry]
Entry(name, i, type) == [name |-> name, i_no |-> i, type |-> type]
Idle == [op |-> "idle", dir |-> Root]
None == [i \in Inode |-> 0]

Paths == UNION {[1..n -> Names] : n \in 1..MaxDepth}

\* The first block of a directory: "." and "..".
Dots(i, parent) ==
    [NoEntries EXCEPT ![0] = Entry(".", i, "dir"), ![1] = Entry("..", parent, "dir")]

-----------------------------------------------------------------------------
(***************************************************************************)
(* In-core inodes.  With one caller no number is in the list twice, so the *)
(* list is a function; a count of 0 says the number is not in it.          *)
(* inode_open takes the one that is there and reads the disk if there is   *)
(* none; inode_close removes it with its last user.                        *)
(***************************************************************************)
NotOpen == [i_open_cnts |-> 0, node |-> NoNode]

Found(list, i) == list[i].i_open_cnts > 0

inode_open(list, i) ==
    IF Found(list, i) THEN [list EXCEPT ![i].i_open_cnts = @ + 1]
    ELSE [list EXCEPT ![i] = [i_open_cnts |-> 1, node |-> disk.node[i]]]

inode_close(list, i) ==
    IF list[i].i_open_cnts = 1 THEN [list EXCEPT ![i] = NotOpen]
    ELSE [list EXCEPT ![i].i_open_cnts = @ - 1]

\* Mutant: the inode is changed on disk and not in memory.
SetNode_unset(list, i, node) == list

\* A call changes the in-core inode it has open; it stays if others use it.
SetNode(list, i, node) ==
    IF Found(list, i) THEN [list EXCEPT ![i].node = node] ELSE list

\* The inode i as a call that opens it sees it.
NodeOf(i) == IF Found(open_inodes, i) THEN open_inodes[i].node ELSE disk.node[i]

Nodes == [i \in Inode |-> NodeOf(i)]

-----------------------------------------------------------------------------
(* Directories. *)

\* The entries of a directory inode: where they are and what they say.
Entries(blocks, node) ==
    {[k |-> k, slot |-> j, e |-> blocks[node.sectors[k]][j]] :
        k \in {k \in 0..Direct - 1 : node.sectors[k] # 0}, j \in Slot}

UsedEntries(node) == {x \in Entries(disk.block, node) : x.e.type # "unknown"}

Children(node) == {x \in UsedEntries(node) : x.e.name \notin {".", ".."}}

Rank(x) == x.k * PerBlock + x.slot

\* search_dir_entry: the first entry of that name.
search_dir_entry(blocks, node, name) ==
    LET hits == {x \in Entries(blocks, node) : x.e.name = name} IN
    IF hits = {} THEN NoEntry
    ELSE (CHOOSE x \in hits : \A y \in hits : Rank(x) <= Rank(y)).e

\* dir_read: the entry before which pos others are in use.  Without one the
\* loop runs on past the last block.
dir_read(node, pos) ==
    LET used == UsedEntries(node)
        hits == {x \in used : Cardinality({y \in used : Rank(y) < Rank(x)}) = pos}
    IN  IF hits = {} THEN NoEntry ELSE (CHOOSE x \in hits : TRUE).e

(***************************************************************************)
(* search_file: directory after directory, until the path ends, a name is  *)
(* missing or a regular file is met, whatever follows it in the path.  The *)
(* directory in which the last name was looked up stays open for the       *)
(* caller; dir_close does nothing for root_dir itself, which it is unless  *)
(* the search went on from there or the path names a directory.            *)
(***************************************************************************)
Search(blocks, nodes, path) ==
    LET walk[n \in 0..Len(path)] ==
            IF n = 0 THEN [i_no |-> Root, dir |-> Root, type |-> "dir", depth |-> 0]
            ELSE LET at == walk[n - 1]
                     e == search_dir_entry(blocks, nodes[at.i_no], path[n])
                 IN  IF at.type # "dir" THEN at
                     ELSE [i_no |-> e.i_no, dir |-> at.i_no, type |-> e.type, depth |-> n]
    IN  walk[Len(path)]

search_file(path) == Search(disk.block, Nodes, path)

\* What the caller of search_file must close: the directory, if it is counted.
Held(s) == IF s.type = "dir" \/ s.dir # Root THEN {s.dir} ELSE {}

-----------------------------------------------------------------------------
(* Writes to the disk, and what the parts of calls leave to write. *)

Write(kind, at, val) == <<[kind |-> kind, at |-> at, val |-> val]>>

(***************************************************************************)
(* inode_locate: where the 76 bytes of an inode are in the inode table.    *)
(* The offset in the sector is kept in eight bits, so that from the fifth  *)
(* on inodes come to lie over others.                                      *)
(***************************************************************************)
inode_locate(i) == LET off == 76 * i IN 512 * (off \div 512) + ((off % 512) % 256)

Overlaps(i, j) ==
    /\ i # j
    /\ inode_locate(i) < inode_locate(j) + 76 /\ inode_locate(j) < inode_locate(i) + 76

\* What is read as an inode when another was written over it.
Overwritten == [NoNode EXCEPT !.size = -1]

Written(d, w) ==
    CASE w.kind = "node"  ->
            [d EXCEPT !.node = [i \in Inode |->
                IF i = w.at THEN w.val
                ELSE IF Overlaps(i, w.at) THEN Overwritten ELSE d.node[i]]]
      [] w.kind = "block" -> [d EXCEPT !.block[w.at] = w.val]
      [] w.kind = "imap"  -> [d EXCEPT !.imap = w.val]
      [] w.kind = "bmap"  -> [d EXCEPT !.bmap = w.val]

\* inode_bitmap_alloc and block_bitmap_alloc take the lowest free bit; the
\* second also clears the block.  The caller syncs the bitmap.
FreeInode == Min(Inode \ inode_bitmap)
FreeBlock(bm) == Min(Block \ bm)
NewBlock(b, bm) == Write("block", b, NoEntries) \o Write("bmap", 0, bm \cup {b})

\* The first free slot of a directory's block.
FreeSlot(b) == Min({j \in Slot : disk.block[b][j].type = "unknown"})

(***************************************************************************)
(* sync_dir_entry: the entry goes into the first free slot of the blocks   *)
(* there are, or into a new block where the first hole in them is.  The    *)
(* directory's inode is changed in memory and written by the caller.       *)
(***************************************************************************)
sync_dir_entry(node, e, bm) ==
    LET full(k) == node.sectors[k] # 0 /\ \A j \in Slot :
                       disk.block[node.sectors[k]][j].type # "unknown"
        k == Min({m \in 0..Direct - 1 : ~full(m)})
        b == IF node.sectors[k] = 0 THEN FreeBlock(bm) ELSE node.sectors[k]
    IN  IF node.sectors[k] = 0
        THEN [node |-> [node EXCEPT !.sectors[k] = b, !.size = @ + 1],
              bm |-> bm \cup {b},
              writes |-> NewBlock(b, bm) \o Write("block", b, [NoEntries EXCEPT ![0] = e])]
        ELSE [node |-> [node EXCEPT !.size = @ + 1],
              bm |-> bm,
              writes |-> Write("block", b, [disk.block[b] EXCEPT ![FreeSlot(b)] = e])]

\* Bound: a directory stays within its direct blocks.
HasRoom(node) == node.size < Direct * PerBlock

(***************************************************************************)
(* delete_dir_entry of inode i from directory d: the entry is cleared, or  *)
(* its block is freed when it was the only entry of a block that is not    *)
(* the first.  The directory's inode is written.                           *)
(***************************************************************************)
delete_dir_entry(d, i, bm) ==
    LET node == NodeOf(d)
        x == CHOOSE x \in Children(node) : x.e.i_no = i
        b == node.sectors[x.k]
        alone == /\ \A y \in Children(node) : y.k = x.k => y = x
                 /\ \A j \in Slot : disk.block[b][j].name # "."
        new == IF alone THEN [node EXCEPT !.sectors[x.k] = 0, !.size = @ - 1]
               ELSE [node EXCEPT !.size = @ - 1]
    IN  [node |-> new,
         bm |-> IF alone THEN bm \ {b} ELSE bm,
         writes |-> (IF alone THEN Write("bmap", 0, bm \ {b})
                     ELSE Write("block", b, [disk.block[b] EXCEPT ![x.slot] = NoEntry]))
                    \o Write("node", d, new)]

BlockSeq(node) ==
    SelectSeq([n \in 1..Direct |-> node.sectors[n - 1]], LAMBDA b : b # 0)

\* inode_release: each block's bit, the inode's bit, and the inode itself.
inode_release(i, bm) ==
    LET bs == BlockSeq(NodeOf(i))
        freed(n) == {bs[m] : m \in 1..n}
    IN  [bm |-> bm \ freed(Len(bs)),
         writes |-> [n \in 1..Len(bs) |-> [kind |-> "bmap", at |-> 0, val |-> bm \ freed(n)]]
                    \o Write("imap", 0, inode_bitmap \ {i})
                    \o Write("node", i, NoNode)]

-----------------------------------------------------------------------------
(***************************************************************************)
(* Calls.  They are followed until a crash tears the disk or an inode      *)
(* number is released under an in-core copy: what happens on a damaged     *)
(* partition is not looked at.                                             *)
(***************************************************************************)
Ready == todo = <<>> /\ ~torn /\ stale = {}

Begin(op, dir, writes) == call' = [op |-> op, dir |-> dir] /\ todo' = writes

FewOpen(n) ==
    SumFunction(file_table) + SumFunction(handles) + SumFunction(leaks) + n <= MaxOpen

\* Opens nobody closes: of each inode in is, by a call that succeeds or fails.
Leak(is) ==
    /\ FewOpen(Cardinality(is))
    /\ leaks' = [i \in Inode |-> IF i \in is THEN leaks[i] + 1 ELSE leaks[i]]

OpenAll(list, is) == FoldSet(LAMBDA i, l : inode_open(l, i), list, is)

\* The order in which file_create writes: the entry, the directory's inode,
\* the new inode, and the inode bitmap.
CreateWrites(d, i, sync) ==
    sync.writes \o Write("node", d, sync.node) \o Write("node", i, NoNode)
    \o Write("imap", 0, inode_bitmap \cup {i})

(***************************************************************************)
(* sys_open with O_CREAT of a path whose last name is missing: file_create *)
(* makes the file and opens it, and then the path is searched and the file *)
(* opened again.  The first descriptor is never given to the caller, but   *)
(* is the process's until it exits.                                        *)
(***************************************************************************)
file_create(path) ==
    LET s == search_file(path)
        i == FreeInode
        node == NodeOf(s.dir)
        sync == sync_dir_entry(node, Entry(path[s.depth], i, "file"), block_bitmap)
    IN
    /\ Ready
    /\ s.type = "unknown" /\ s.depth = Len(path)
    /\ Inode \ inode_bitmap # {} /\ HasRoom(node) /\ FewOpen(2)
    /\ inode_bitmap' = inode_bitmap \cup {i}
    /\ block_bitmap' = sync.bm
    /\ open_inodes' = [SetNode(open_inodes, s.dir, sync.node) EXCEPT
                         ![i] = [i_open_cnts |-> 2, node |-> NoNode]]
    /\ file_table' = [file_table EXCEPT ![i] = 2]
    /\ Begin("create", s.dir, CreateWrites(s.dir, i, sync))
    /\ UNCHANGED <<disk, handles, cwd, leaks, crashes, torn, stale, names>>

\* sys_open of a file that is there.  The directory is closed once at most,
\* and not at all without O_CREAT, or as often as it was opened less one.
sys_open(path) ==
    LET s == search_file(path) IN
    /\ Ready
    /\ s.type = "file" /\ s.depth = Len(path)
    /\ Leak(Held(s)) /\ FewOpen(1 + Cardinality(Held(s)))
    /\ open_inodes' = inode_open(OpenAll(open_inodes, Held(s)), s.i_no)
    /\ file_table' = [file_table EXCEPT ![s.i_no] = @ + 1]
    /\ UNCHANGED <<disk, inode_bitmap, block_bitmap, handles, cwd, todo, call, crashes,
                   torn, stale, names>>

file_close(i) ==
    /\ Ready
    /\ file_table[i] > 0
    /\ open_inodes' = inode_close(open_inodes, i)
    /\ file_table' = [file_table EXCEPT ![i] = @ - 1]
    /\ UNCHANGED <<disk, inode_bitmap, block_bitmap, handles, cwd, todo, call, leaks,
                   crashes, torn, stale, names>>

\* file_write, the first of less than a block: FileIO has the others.
file_write(i) ==
    LET b == FreeBlock(block_bitmap)
        node == [NodeOf(i) EXCEPT !.sectors[0] = b, !.size = 1]
    IN
    /\ Ready
    /\ file_table[i] > 0 /\ NodeOf(i).sectors[0] = 0
    /\ block_bitmap' = block_bitmap \cup {b}
    /\ open_inodes' = SetNode(open_inodes, i, node)
    /\ Begin("write", Root, NewBlock(b, block_bitmap) \o Write("block", b, NoEntries)
                            \o Write("node", i, node))
    /\ UNCHANGED <<disk, inode_bitmap, file_table, handles, cwd, leaks, crashes, torn,
                   stale, names>>

\* Mutant: the inode and its blocks are released before the entry is deleted.
RemoveWrites_swapped(d, i) ==
    inode_release(i, block_bitmap).writes
    \o delete_dir_entry(d, i, inode_release(i, block_bitmap).bm).writes

\* The order of sys_unlink and of dir_remove: the entry, then the inode.
RemoveWrites(d, i) ==
    LET del == delete_dir_entry(d, i, block_bitmap)
    IN  del.writes \o inode_release(i, del.bm).writes

RemoveInode(op, s) ==
    LET del == delete_dir_entry(s.dir, s.i_no, block_bitmap) IN
    /\ inode_bitmap' = inode_bitmap \ {s.i_no}
    /\ block_bitmap' = inode_release(s.i_no, del.bm).bm
    /\ open_inodes' = SetNode(open_inodes, s.dir, del.node)
    /\ stale' = IF Found(open_inodes, s.i_no) THEN {s.i_no} ELSE {}
    /\ Begin(op, s.dir, RemoveWrites(s.dir, s.i_no))
    /\ UNCHANGED <<disk, file_table, handles, cwd, leaks, crashes, torn, names>>

\* Mutant: a file that is open may be deleted.
InUse_never(i) == FALSE

\* sys_unlink looks the inode's number up in the file table.
InUse(i) == file_table[i] > 0

\* sys_unlink.  The length of the path that was searched is not looked at.
sys_unlink(path) ==
    LET s == search_file(path) IN
    /\ Ready
    /\ s.type = "file" /\ ~InUse(s.i_no)
    /\ RemoveInode("unlink", s)

\* The calls that leave the directory of their search open and do no more: a
\* sys_unlink that finds nothing or a directory, a sys_chdir that finds no
\* directory, a sys_stat that finds nothing.
search_leaks(path) ==
    LET s == search_file(path) IN
    /\ Ready
    /\ Held(s) # {}
    /\ Leak(Held(s))
    /\ open_inodes' = OpenAll(open_inodes, Held(s))
    /\ UNCHANGED <<disk, inode_bitmap, block_bitmap, file_table, handles, cwd, todo, call,
                   crashes, torn, stale, names>>

(***************************************************************************)
(* sys_mkdir: a block with the two entries every directory has, the entry  *)
(* in the parent, and the writes file_create ends with.  The new inode is  *)
(* on the stack and never in the list.                                     *)
(***************************************************************************)
sys_mkdir(path) ==
    LET s == search_file(path)
        i == FreeInode
        b == FreeBlock(block_bitmap)
        node == NodeOf(s.dir)
        new == [NoNode EXCEPT !.sectors[0] = b, !.size = 2]
        sync == sync_dir_entry(node, Entry(path[s.depth], i, "dir"), block_bitmap \cup {b})
    IN
    /\ Ready
    /\ s.type = "unknown" /\ s.depth = Len(path)
    /\ Inode \ inode_bitmap # {} /\ HasRoom(node)
    /\ inode_bitmap' = inode_bitmap \cup {i}
    /\ block_bitmap' = sync.bm
    /\ open_inodes' = SetNode(open_inodes, s.dir, sync.node)
    /\ Begin("mkdir", s.dir,
             NewBlock(b, block_bitmap) \o Write("block", b, Dots(i, s.dir))
             \o sync.writes \o Write("node", s.dir, sync.node)
             \o Write("node", i, new) \o Write("imap", 0, inode_bitmap \cup {i}))
    /\ UNCHANGED <<disk, file_table, handles, cwd, leaks, crashes, torn, stale, names>>

\* Mutant: the number of blocks is looked at, not that of entries.
dir_is_empty_blocks(node) == \A k \in 1..Direct - 1 : node.sectors[k] = 0

dir_is_empty(node) == node.size = 2

\* sys_rmdir and dir_remove, which also refuses a directory with a second block:
\* by DiskSound no empty directory has one.
sys_rmdir(path) ==
    LET s == search_file(path)
        node == NodeOf(s.i_no)
    IN
    /\ Ready
    /\ s.type = "dir" /\ dir_is_empty(node)
    /\ \A k \in 1..Direct - 1 : node.sectors[k] = 0
    /\ RemoveInode("rmdir", s)

\* sys_opendir and sys_closedir; the search is closed again.
sys_opendir(path) ==
    LET s == search_file(path) IN
    /\ Ready
    /\ s.type = "dir" /\ handles[s.i_no] = 0 /\ FewOpen(1)
    /\ open_inodes' = inode_open(open_inodes, s.i_no)
    /\ handles' = [handles EXCEPT ![s.i_no] = 1]
    /\ UNCHANGED <<disk, inode_bitmap, block_bitmap, file_table, cwd, todo, call, leaks,
                   crashes, torn, stale, names>>

sys_closedir(i) ==
    /\ Ready
    /\ handles[i] = 1
    /\ open_inodes' = inode_close(open_inodes, i)
    /\ handles' = [handles EXCEPT ![i] = 0]
    /\ UNCHANGED <<disk, inode_bitmap, block_bitmap, file_table, cwd, todo, call, leaks,
                   crashes, torn, stale, names>>

\* sys_chdir never closes the directory the search left open.
sys_chdir(path) ==
    LET s == search_file(path) IN
    /\ Ready
    /\ s.type = "dir"
    /\ Leak(Held(s))
    /\ open_inodes' = OpenAll(open_inodes, Held(s))
    /\ cwd' = s.i_no
    /\ UNCHANGED <<disk, inode_bitmap, block_bitmap, file_table, handles, todo, call,
                   crashes, torn, stale, names>>

\* sys_chdir of "/": search_file opens the root once more and returns the number
\* of a directory entry that no search has filled in.
sys_chdir_root ==
    /\ Ready
    /\ Leak({Root})
    /\ open_inodes' = inode_open(open_inodes, Root)
    /\ cwd' \in Inode
    /\ UNCHANGED <<disk, inode_bitmap, block_bitmap, file_table, handles, todo, call,
                   crashes, torn, stale, names>>

\* sys_stat closes neither that directory nor the inode it looks at.
sys_stat(path) ==
    LET s == search_file(path)
        opened == Held(s) \cup {s.i_no}
    IN
    /\ Ready
    /\ s.type # "unknown"
    /\ Leak(opened)
    /\ open_inodes' = OpenAll(open_inodes, opened)
    /\ UNCHANGED <<disk, inode_bitmap, block_bitmap, file_table, handles, cwd, todo, call,
                   crashes, torn, stale, names>>

-----------------------------------------------------------------------------
(***************************************************************************)
(* The writes between which the tree on disk is not what any call leaves:  *)
(* from the entry to the inode bitmap when something is made, and until    *)
(* the directory's inode is written when something is removed.             *)
(***************************************************************************)
Between ==
    \/ call.op \in {"create", "mkdir"} /\ Len(todo) \in 1..3
    \/ /\ call.op \in {"unlink", "rmdir"} /\ todo # <<>>
       /\ Head(todo).kind = "node" /\ Head(todo).at = call.dir

\* What each path that exists on a disk d leads to.
OnDisk(d) ==
    LET at == [path \in Paths \cup {<<>>} |-> Search(d.block, d.node, path)]
    IN  Restrict(at, {p \in DOMAIN at : at[p].type # "unknown" /\ at[p].depth = Len(p)})

\* ide_write carries out the next write; the call ends with the last.
DiskWrite ==
    /\ todo # <<>>
    /\ disk' = Written(disk, Head(todo))
    /\ todo' = Tail(todo)
    /\ call' = IF Len(todo) = 1 THEN Idle ELSE call
    /\ names' = IF Between' THEN names ELSE OnDisk(disk')
    /\ UNCHANGED <<inode_bitmap, block_bitmap, open_inodes, file_table, handles, cwd, leaks,
                   crashes, torn, stale>>

\* open_root_dir: the root's inode is in the list for ever.
OnlyRoot(node) ==
    [i \in Inode |-> IF i = Root THEN [i_open_cnts |-> 1, node |-> node] ELSE NotOpen]

\* mount_partition reads the bitmaps, open_root_dir the root's inode.
Mounted ==
    /\ inode_bitmap' = disk.imap
    /\ block_bitmap' = disk.bmap
    /\ open_inodes' = OnlyRoot(disk.node[Root])
    /\ file_table' = None /\ handles' = None /\ leaks' = None
    /\ cwd' = Root
    /\ todo' = <<>> /\ call' = Idle
    /\ stale' = {}

Crash ==
    /\ crashes < MaxCrash
    /\ crashes' = crashes + 1
    /\ torn' = (torn \/ Between)
    /\ Mounted
    /\ UNCHANGED <<disk, names>>

\* partition_format: the root directory in the first block, and two bits set.
Formatted ==
    [node |-> [i \in Inode |-> IF i = Root
                  THEN [NoNode EXCEPT !.sectors[0] = 1, !.size = 2] ELSE NoNode],
     block |-> [b \in Block |-> IF b = 1 THEN Dots(Root, Root) ELSE NoEntries],
     imap |-> {Root},
     bmap |-> {1, 2}]

Init ==
    /\ disk = Formatted
    /\ inode_bitmap = {Root} /\ block_bitmap = {1, 2}
    /\ open_inodes = OnlyRoot(Formatted.node[Root])
    /\ file_table = None /\ handles = None /\ leaks = None
    /\ cwd = Root
    /\ todo = <<>> /\ call = Idle
    /\ crashes = 0 /\ torn = FALSE /\ stale = {}
    /\ names = OnDisk(Formatted)

Next ==
    \/ \E path \in Paths :
         \/ file_create(path) \/ sys_open(path) \/ sys_unlink(path) \/ search_leaks(path)
         \/ sys_mkdir(path) \/ sys_rmdir(path) \/ sys_opendir(path)
         \/ sys_chdir(path) \/ sys_stat(path)
    \/ \E i \in Inode : file_close(i) \/ file_write(i) \/ sys_closedir(i)
    \/ sys_chdir_root
    \/ DiskWrite
    \/ Crash

Spec == Init /\ [][Next]_vars

-----------------------------------------------------------------------------
Reachable == {names[p].i_no : p \in DOMAIN names}
BlocksOf(i) == {disk.node[i].sectors[k] : k \in 0..Direct - 1} \ {0}

\* A directory on disk begins with itself and its parent, has no empty block
\* after the first, names nothing twice, and is listed whole: dir_read, which
\* goes by the size, gives every entry once and never looks beyond the last.
DirectorySound(s) ==
    LET node == disk.node[s.i_no]
        first == disk.block[node.sectors[0]]
        children == Children(node)
    IN  /\ node.sectors[0] # 0
        /\ first[0] = Entry(".", s.i_no, "dir")
        /\ first[1] = Entry("..", s.dir, "dir")
        /\ \A k \in 1..Direct - 1 :
              node.sectors[k] # 0 => \E x \in children : x.k = k
        /\ [pos \in 0..node.size - 1 |-> dir_read(node, pos)]
              \in Bijection(0..node.size - 1, {x.e : x \in UsedEntries(node)})
        /\ Cardinality(children) = Cardinality({x.e.name : x \in children})

\* What is on disk is a tree: every name leads to an inode of its own that is
\* allocated, and to blocks of its own that are; directories count right.
TreeSound ==
    LET blocks == UNION {BlocksOf(i) : i \in Reachable}
    IN  /\ IsInjective([p \in DOMAIN names |-> names[p].i_no])
        /\ Reachable \subseteq disk.imap
        /\ blocks \subseteq disk.bmap
        /\ Cardinality(blocks) = MapThenSumSet(LAMBDA i : Cardinality(BlocksOf(i)), Reachable)
        /\ \A p \in DOMAIN names : names[p].type = "dir" => DirectorySound(names[p])

\* The disk holds a sound tree at every moment but between the writes that
\* change it, and so after a crash at any other moment: entries are deleted
\* before what they name is freed, and blocks are marked before they are used.
DiskSound == ~torn /\ ~Between => TreeSound

\* Between calls memory and disk agree, and unless there was a crash every bit
\* that is set belongs to something in the tree: no call loses a block or an
\* inode, and none forgets to write what it changed in memory.
NothingLost ==
    todo = <<>> /\ ~torn /\ stale = {} =>
        /\ inode_bitmap = disk.imap /\ block_bitmap = disk.bmap
        /\ \A i \in Inode : NodeOf(i) = disk.node[i]
        /\ crashes = 0 =>
              /\ disk.imap = Reachable
              /\ disk.bmap = {1, 2} \cup UNION {BlocksOf(i) : i \in Reachable}

\* inode_locate gives every inode bytes of its own: what inode_sync wrote for an
\* inode in use is not written over by that of another.
InodesKept == \A i \in disk.imap : disk.node[i] # Overwritten

\* The open count of an in-core inode is the number of descriptors and of
\* directory handles on it, the root's own, and the opens that sys_open,
\* sys_unlink, sys_chdir and sys_stat forget: a count is never too low, and
\* no other call leaves one.  So an inode number is released under an in-core
\* copy, which its next owner would be given, only after such a call or
\* while the directory is being listed.
CountsExact ==
    /\ \A i \in Inode :
         LET users == file_table[i] + handles[i] + leaks[i] + (IF i = Root THEN 1 ELSE 0)
         IN  open_inodes[i].i_open_cnts = users
    /\ \A i \in stale : handles[i] + leaks[i] > 0

T == INSTANCE Tree WITH
        tree <- {<<p, names[p].type>> : p \in DOMAIN names \ {<<>>}}

\* Programs see a tree of names: whatever the power failing in between, each
\* write adds one name in an existing directory, removes one that nothing is
\* below, or changes no name.
ImplementsTree == T!Spec

-----------------------------------------------------------------------------
(* sys_getcwd, which walks from the working directory to the root. *)

\* get_parent_dir_inode_nr: the second entry of the first block.
get_parent_dir_inode_nr(i) == disk.block[NodeOf(i).sectors[0]][1].i_no

\* Mutant: entries are compared with the number of the directory itself.
get_child_dir_name_dots(p, c) ==
    LET hits == {x \in UsedEntries(NodeOf(p)) : x.e.i_no = p}
    IN  IF hits = {} THEN "" ELSE (CHOOSE x \in hits : TRUE).e.name

\* get_child_dir_name: the index of the entry is not reset for the next block,
\* so that the child is found in the first block or not at all.
get_child_dir_name(p, c) ==
    LET node == NodeOf(p)
        k == Min({m \in 0..Direct - 1 : node.sectors[m] # 0})
        hits == {j \in Slot : disk.block[node.sectors[k]][j].i_no = c}
    IN  IF hits = {} THEN "" ELSE disk.block[node.sectors[k]][Min(hits)].name

\* sys_getcwd: the names from the root down; a name that is not found makes the
\* answer NULL.
sys_getcwd(i) ==
    LET up[n \in 0..MaxDepth] ==
            IF n = 0 THEN i
            ELSE IF up[n - 1] = Root THEN Root ELSE get_parent_dir_inode_nr(up[n - 1])
        depth == Min({n \in 0..MaxDepth : up[n] = Root})
        name(n) == get_child_dir_name(up[n], up[n - 1])
    IN  IF \E n \in 1..depth : name(n) = "" THEN NULL
        ELSE [n \in 1..depth |-> name(depth - n + 1)]

\* sys_getcwd gives the path of the working directory or, when an entry on the
\* way is not in its directory's first block, no answer; never another path.
\* (After sys_chdir("/") the working directory may be any inode; nothing is said
\* of one that is not a directory with a name.)
GetcwdRight ==
    todo = <<>> /\ ~torn /\ stale = {} =>
        \A p \in DOMAIN names :
            names[p].type = "dir" /\ names[p].i_no = cwd => sys_getcwd(cwd) \in {p, NULL}
=============================================================================
