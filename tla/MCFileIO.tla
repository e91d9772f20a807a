------------------------------ MODULE MCFileIO ------------------------------
(***************************************************************************)
(* FileIO on two files whose blocks hold two bytes, with two direct blocks *)
(* and an indirect table of two entries.  The files are interchangeable.   *)
(***************************************************************************)
EXTENDS FileIO, TLC

Symmetry == Permutations(Files)
=============================================================================
