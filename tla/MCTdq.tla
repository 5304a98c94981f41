------------------------------- MODULE MCTdq -------------------------------
(* Instances of Tdq for TLC. *)
EXTENDS Tdq

CONSTANTS t1, t2, t3

TwoThreads   == {t1, t2}
ThreeThreads == {t1, t2, t3}
OneAffine    == {t1}
NoneAffine   == {}
OneNoLoad    == {t2}

\* Priorities: 0..3 realtime and interactive, 4..7 batch, 8..11 idle.
ThreeClasses == {1, 7, 9}
OneBatch     == {4}
=============================================================================
