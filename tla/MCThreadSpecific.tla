------------------------- MODULE MCThreadSpecific -------------------------
(* ThreadSpecific for TLC, with an unsigned int narrower than an uintptr_t. *)
EXTENDS ThreadSpecific, TLC

CONSTANTS p1, p2

TwoThreads == {p1, p2}
ThreadSymmetry == Permutations(Threads)
=============================================================================
