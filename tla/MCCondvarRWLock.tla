-------------------------- MODULE MCCondvarRWLock --------------------------
(***************************************************************************)
(* Instances of RWLock and Condvar for TLC.  A behaviour uses one of the   *)
(* two; the lock is not touched while the condition variable is in use,    *)
(* and the variables of the condition variable are Unused otherwise.       *)
(***************************************************************************)
EXTENDS RWLock, TLC

CONSTANTS t1, t2, t3, None, MaxGroupSize, MaxWaits, Waits, FIFO

VARIABLES part, cond, clock, mutex, queue, cpc, local, destroyed, unsignaled

cvars == <<cond, clock, mutex, queue, cpc, local, destroyed, unsignaled>>

ThreeThreads == {t1, t2, t3}
AllKinds == {"PREFER_READER", "PREFER_WRITER", "PREFER_WRITER_NONRECURSIVE"}

C == INSTANCE Condvar WITH lock <- clock, pc <- cpc

\* What Condvar expects of its constants.
ASSUME CondvarAssumption ==
  /\ None \notin Threads
  /\ MaxGroupSize \in Nat \ {0} /\ MaxWaits \in Nat
  /\ Waits \subseteq {"wait", "timedwait", "canceled", "unowned"}
  /\ FIFO \in BOOLEAN

Unused == "unused"

CUnused ==
  /\ cond = Unused /\ clock = Unused /\ mutex = Unused /\ queue = Unused
  /\ cpc = Unused /\ local = Unused /\ destroyed = Unused /\ unsignaled = Unused

PartsInit ==
  /\ Init
  /\ \/ part = "condvar" /\ flags = "PREFER_READER" /\ ~timed /\ C!Init
     \/ part = "rwlock" /\ CUnused

PartsNext ==
  \/ part = "condvar" /\ C!Next /\ UNCHANGED <<part, vars>>
  \/ part = "rwlock" /\ Next /\ UNCHANGED <<part, cvars>>

PartsSpec == PartsInit /\ [][PartsNext]_<<part, vars, cvars>>

-----------------------------------------------------------------------------
\* A signal wakes one of the waiters that took their position before it, a broadcast
\* all of them, and no later waiter can take their place.
NoLostSignal == part = "condvar" => C!NoLostSignal

\* G1 always has a signal, sent or still to come, for each of its waiters, and what a
\* signaler finds in __g_size under the lock is what the waiters have left of it.
GroupsAccounted == part = "condvar" => C!GroupsAccounted

\* pthread_cond_destroy waits for those who still use the condvar and no longer.
DestroyExact == part = "condvar" => C!DestroyExact

ThreadSymmetry == Permutations(ThreeThreads)
=============================================================================
