------------------------------ MODULE Mutexes ------------------------------
(***************************************************************************)
(* The mutexes that are not robust, under names that leave room for        *)
(* RobustMutex or for the locks they are built on.                         *)
(***************************************************************************)
EXTENDS Naturals, FiniteSets

CONSTANTS MutexThreads,
          Nobody,       \* not a thread: 0 as an owner
          COUNT_MAX     \* the largest value of __count

\* 0 is nobody's id, and __count can hold at least 1.
ASSUME MutexesAssumption ==
  /\ IsFiniteSet(MutexThreads) /\ Nobody \notin MutexThreads
  /\ COUNT_MAX \in Nat \ {0}

VARIABLES mkind, holder, mowner, mcount, nusers, mpc, mop, ret, level

M == INSTANCE Mutex WITH
       Threads <- MutexThreads, NoOwner <- Nobody, UINT_MAX <- COUNT_MAX,
       kind <- mkind, owner <- mowner, count <- mcount, pc <- mpc, op <- mop

\* The unlocked reads of __owner identify the holder, and __count its level; the
\* errors returned because of them, EDEADLK, EPERM and EAGAIN, have a reason.
OwnershipExact == M!OwnershipExact /\ M!ErrorsJustified

\* __nusers counts the users, so that pthread_mutex_destroy, which goes by it,
\* destroys no mutex in use.
NusersExact == M!NusersExact
=============================================================================
