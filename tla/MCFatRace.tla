----------------------------- MODULE MCFatRace -----------------------------
(* The example's root directory, served by two threads. *)
EXTENDS FatRace

CONSTANTS t1, t2

TwoThreads == {t1, t2}
=============================================================================
