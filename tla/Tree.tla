-------------------------------- MODULE Tree --------------------------------
(***************************************************************************)
(* What a tree of names promises to the programs that use it: a path comes *)
(* into being below an existing directory, and goes when nothing is below  *)
(* it; a step concerns one path, and no path changes its kind.             *)
(***************************************************************************)
EXTENDS Sequences, SequencesExt

VARIABLE tree   \* the paths there are, each with its kind: <<path, "file" or "dir">>

IsDir(t, p) == p = <<>> \/ <<p, "dir">> \in t

\* From old to new one path is made.
Make(old, new) ==
    \E e \in new \ old :
        /\ new = old \cup {e}
        /\ \A o \in old : o[1] # e[1]
        /\ IsDir(old, Front(e[1]))

\* From old to new one path goes.
Drop(old, new) ==
    \E e \in old \ new :
        /\ new = old \ {e}
        /\ \A o \in new : Front(o[1]) # e[1]

Init == tree = {}

Next == Make(tree, tree') \/ Drop(tree, tree')

Spec == Init /\ [][Next]_tree
=============================================================================
