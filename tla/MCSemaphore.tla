---------------------------- MODULE MCSemaphore ----------------------------
(***************************************************************************)
(* Instances of Semaphore and Semaphore32 for TLC.  A build of the library *)
(* contains one of the two, so a behaviour chooses one and stays with it.  *)
(***************************************************************************)
EXTENDS Semaphore, TLC

CONSTANTS t1, t2, t3

VARIABLES use64b,  \* USE_64B_ATOMICS_ON_SEM_T
          value, nwaiters, v, pc32, call32

vars32 == <<value, nwaiters, v, pc32, call32>>

S32 == INSTANCE Semaphore32 WITH pc <- pc32, call <- call32

\* sem_init gives either representation the same number of tokens.
BuildInit ==
  /\ use64b \in BOOLEAN
  /\ Init /\ S32!Init
  /\ value.tokens = data.value

BuildNext ==
  \/ use64b /\ Next /\ UNCHANGED <<use64b, vars32>>
  \/ ~use64b /\ S32!Next /\ UNCHANGED <<use64b, vars>>

BuildSpec == BuildInit /\ [][BuildNext]_<<use64b, vars, vars32>>

\* sem_post of the 32-bit variant does not strand a waiter although the bit that
\* asks for its futex_wake may be cleared while a thread is blocked.
NoLostWakeup32 == S32!NoLostWakeup

\* The 32-bit variant is linearizable too: it implements the counting semaphore.
ImplementsCountingSemaphore32 == S32!ImplementsCountingSemaphore

ThreeThreads == {t1, t2, t3}
ThreadSymmetry == Permutations(Threads)
=============================================================================
