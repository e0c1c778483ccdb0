----------------------------- MODULE MCCondvar -----------------------------
(* Condvar for TLC, without the order in which futex_wake wakes. *)
EXTENDS Condvar, TLC

CONSTANTS t1, t2, t3, t4

FourThreads == {t1, t2, t3, t4}
ThreadSymmetry == Permutations(Threads)
=============================================================================
