------------------------------ MODULE DirTree ------------------------------
(***************************************************************************)
(* What a user of asgn4's file system sees: a set of paths that grows by    *)
(* one with each mkdir and is the example tree again after each mount.      *)
(***************************************************************************)
EXTENDS Naturals, Sequences, SequencesExt

CONSTANTS Name,      \* the names users give to directories
          Files,     \* the paths that are not directories
          Example    \* the paths of the tree that every mount makes

VARIABLE tree

Init == tree = Example

\* The new directory is in a directory of the tree.
Mkdir ==
  \E path \in tree' \ tree :
    /\ Front(path) \in {<<>>} \cup (tree \ Files)
    /\ Last(path) \in Name
    /\ tree' = tree \cup {path}

Mount == tree' = Example

Next == Mkdir \/ Mount

Spec == Init /\ [][Next]_tree
=============================================================================
