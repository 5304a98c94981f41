---------------------------- MODULE MCPageQueues ----------------------------
(* Instances of PageQueues for TLC.  The pages are alike. *)
EXTENDS PageQueues, TLC

CONSTANTS p1, p2
TwoPages == {p1, p2}
PageSymmetry == Permutations(TwoPages)
=============================================================================
