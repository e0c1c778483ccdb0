------------------------------- MODULE Locks -------------------------------
(***************************************************************************)
(* The three-state locks behind everything else, LowLevelLock and          *)
(* CondvarLock, next to Once, which blocks its callers in much the same    *)
(* way.  They have no variable in common.                                  *)
(***************************************************************************)
EXTENDS LowLevelLock

CONSTANTS CondvarThreads, Sizes,
          OnceThreads, Generations, MaxForks, ForkInInit

\* NULL is no thread, an empty group has a size, the generations of fork count,
\* and init_routine does not fork.
ASSUME LocksAssumption ==
  /\ NoOwner \notin CondvarThreads /\ 0 \in Sizes
  /\ Generations \in Nat \ {0} /\ ForkInInit = FALSE

VARIABLES g1_orig_size, cpc, s, stored,
          once_control, fork_generation, opc, val

C == INSTANCE CondvarLock WITH Threads <- CondvarThreads, pc <- cpc
O == INSTANCE Once WITH Threads <- OnceThreads, pc <- opc

\* The condvar-internal lock shares its word with the size of G1; neither field
\* ever disturbs the other.
CondvarWordIntact == C!WordIntact

\* The condvar-internal lock implements the abstract lock that Condvar uses.
CondvarImplementsAbstractLock == C!ImplementsAbstractLock

\* Every acquisition of the condvar-internal lock returns, although the holder's
\* plain exchange may overwrite a contender's request to be woken.
CondvarEveryCallReturns == C!EveryCallReturns

\* At most one thread of a process executes init_routine, forks included.
OneInitializer == O!OneInitializer

\* Once pthread_once has returned, the control word says so for ever: init_routine
\* is not executed again.
DoneIsFinal == O!DoneIsFinal

\* Every call of pthread_once returns, also after a cancelled initializer and in a
\* child that was forked in the middle of one, unless so many forks follow that the
\* generation of the interrupted initialization is in use again: then the call may
\* block for ever, as the comment in pthread_once.c says.
OnceEveryCallReturns == O!EveryCallReturns
=============================================================================
