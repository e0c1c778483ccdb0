------------------------------ MODULE MCMutex ------------------------------
(***************************************************************************)
(* Instances of RobustMutex and Mutexes for TLC.  pthread_mutex_init makes *)
(* a mutex robust or not for good, so a behaviour stays with one module.   *)
(***************************************************************************)
EXTENDS RobustMutex, Mutexes, TLC

CONSTANTS t1, t2, t3

VARIABLE robust   \* PTHREAD_MUTEX_ROBUST_NORMAL_NP is set in __kind

mvars == <<mkind, holder, mowner, mcount, nusers, mpc, mop, ret, level>>

\* The kind of the module that is not in use is any fixed one.
MutexInit ==
  /\ robust \in BOOLEAN
  /\ Init /\ (~robust => kind = "normal")
  /\ M!Init /\ (robust => mkind = "timed")

MutexNext ==
  \/ robust /\ Next /\ UNCHANGED <<robust, mvars>>
  \/ ~robust /\ M!Next /\ UNCHANGED <<robust, vars>>

MutexSpec == MutexInit /\ [][MutexNext]_<<robust, vars, mvars>>

ThreeThreads == {t1, t2, t3}
ThreadSymmetry == Permutations(Threads)
=============================================================================
