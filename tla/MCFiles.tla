------------------------------ MODULE MCFiles -------------------------------
(* Files for the shell and processes it forks, which are interchangeable. *)
EXTENDS Files, TLC

Symmetry ==
    Permutations(Procs \ {Shell}) \cup Permutations(FileSet) \cup Permutations(Names)
=============================================================================
