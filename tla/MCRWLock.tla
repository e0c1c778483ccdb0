----------------------------- MODULE MCRWLock -----------------------------
(* RWLock for TLC. *)
EXTENDS RWLock, TLC

CONSTANTS t1, t2, t3

PreferWriter == {"PREFER_WRITER"}
ThreeThreads == {t1, t2, t3}

ThreadSymmetry == Permutations(Threads)
=============================================================================
