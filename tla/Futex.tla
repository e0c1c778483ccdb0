------------------------------- MODULE Futex -------------------------------
(***************************************************************************)
(* The two futex operations every NPTL primitive is built on, as seen by   *)
(* their callers through sysdeps/nptl/futex-internal.h.                    *)
(*                                                                         *)
(* A thread is blocked on a futex word when its program counter says so,   *)
(* so the wait queue of a word is a set of threads computed by the module  *)
(* that uses the futex.  futex_wait blocks iff the word still has the      *)
(* expected value (the comparison and the enqueueing are one kernel step); *)
(* futex_wake dequeues the number of threads asked for, or all of them if  *)
(* there are fewer, and the caller cannot choose which.                    *)
(***************************************************************************)
EXTENDS FiniteSets, Naturals

\* The sets of threads one futex_wake call may unblock when `blocked` is the
\* set of threads waiting on the word and `processes_to_wake` is its argument.
futex_wake(blocked, processes_to_wake) ==
  { W \in SUBSET blocked :
      \/ Cardinality(W) = processes_to_wake
      \/ Cardinality(W) < processes_to_wake /\ W = blocked }

=============================================================================
