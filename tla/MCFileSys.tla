----------------------------- MODULE MCFileSys ------------------------------
(***************************************************************************)
(* FileSys on two names, three inodes, and directories of two blocks with  *)
(* room for three entries each.  States that differ only in what is left   *)
(* in free blocks are the same to the view: a block is cleared when it is  *)
(* taken.                                                                  *)
(***************************************************************************)
EXTENDS FileSys, TLC

Symmetry == Permutations(Names)

InSomeUse ==
    disk.bmap \cup block_bitmap
    \cup UNION {Range(disk.node[i].sectors) : i \in Inode}

View ==
    <<[disk EXCEPT !.block = Restrict(disk.block, InSomeUse \cap Block)],
      inode_bitmap, block_bitmap, open_inodes, file_table, handles, cwd, todo, call,
      leaks, crashes, torn, stale, names>>
=============================================================================
