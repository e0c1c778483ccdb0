------------------------------- MODULE MCOnce -------------------------------
(* Once for TLC, with an init_routine that forks. *)
EXTENDS Once, TLC

CONSTANTS t1, t2

TwoThreads == {t1, t2}
ThreadSymmetry == Permutations(Threads)
=============================================================================
