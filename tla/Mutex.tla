------------------------------- MODULE Mutex -------------------------------
(***************************************************************************)
(* The non-robust, non-PI mutexes (nptl/pthread_mutex_lock.c, _trylock.c,  *)
(* _timedlock.c, _unlock.c, _cond_lock.c, _init.c, _destroy.c): the four   *)
(* kinds and the bookkeeping of __owner, __count and __nusers around the   *)
(* low-level lock, which appears here as the abstract lock it implements   *)
(* (LowLevelLock): `holder` is the thread between acquisition and release. *)
(*                                                                         *)
(* __owner is read without the lock by every thread that compares it with  *)
(* its own id, so its writes are steps of their own.                       *)
(***************************************************************************)
EXTENDS Naturals, FiniteSets

CONSTANTS Threads,
          NoOwner,     \* not a thread: 0 as an owner
          UINT_MAX     \* the largest value of __count

Kinds == {"timed", "recursive", "adaptive", "errorcheck"}
LockOps == {"lock", "clocklock", "trylock", "cond_lock"}

VARIABLES kind,       \* __kind, or "destroyed"
          holder,     \* the owner of the low-level lock
          owner,      \* __owner
          count,      \* __count (recursive mutexes only)
          nusers,     \* __nusers
          pc,         \* pc[t]: what t does next
          op,         \* op[t]: the function t executes
          ret,        \* ret[t]: the last return value t got
          level       \* level[t]: how often the program on t holds the mutex

vars == <<kind, holder, owner, count, nusers, pc, op, ret, level>>

\* ___pthread_mutex_init.
Init ==
  /\ kind \in Kinds
  /\ holder = NoOwner /\ owner = NoOwner /\ count = 0 /\ nusers = 0
  /\ pc = [t \in Threads |-> "idle"]
  /\ op = [t \in Threads |-> "none"]
  /\ ret = [t \in Threads |-> "0"]
  /\ level = [t \in Threads |-> 0]

Goto(t, label) == pc' = [pc EXCEPT ![t] = label]

Return(t, r) ==
  /\ Goto(t, "idle")
  /\ op' = [op EXCEPT ![t] = "none"]
  /\ ret' = [ret EXCEPT ![t] = r]

-----------------------------------------------------------------------------
\* pthread_mutex_lock, _trylock, _timedlock/_clocklock and, for a thread that
\* returns from a condition variable, __pthread_mutex_cond_lock.

\* A recursive mutex the caller owns: bump the counter unless it would wrap.
WouldWrap(c) == (c + 1) % (UINT_MAX + 1) = 0

Relock(t) ==
  IF WouldWrap(count)
    THEN Return(t, "EAGAIN") /\ UNCHANGED <<count, level>>
    ELSE /\ count' = count + 1
         /\ level' = [level EXCEPT ![t] = @ + 1]
         /\ Return(t, "0")

SelfDeadlock(t, o) == kind = "errorcheck" /\ o # "trylock" /\ owner = t

\* The entry of the locking functions up to the low-level lock.  __owner is
\* the caller's id only if the caller put it there.
LockEntry(t, o) ==
  /\ kind # "destroyed"
  /\ pc[t] = IF o = "cond_lock" THEN "incond" ELSE "idle"
  /\ IF kind = "recursive" /\ owner = t
       THEN Relock(t)
       ELSE /\ IF SelfDeadlock(t, o)
                 THEN Return(t, "EDEADLK")
                 ELSE /\ Goto(t, "acquire")
                      /\ op' = [op EXCEPT ![t] = o]
                      /\ UNCHANGED ret
            /\ UNCHANGED <<count, level>>
  /\ UNCHANGED <<kind, holder, owner, nusers>>

Lock(t) == \E o \in LockOps : LockEntry(t, o)

\* The low-level lock is acquired: at once, after spinning (adaptive) or after
\* blocking.
Acquire(t) ==
  /\ pc[t] = "acquire"
  /\ holder = NoOwner
  /\ holder' = t
  /\ Goto(t, "acquired")
  /\ UNCHANGED <<kind, owner, count, nusers, op, ret, level>>

\* trylock finds it taken; a timed lock gives up.
Busy(t) ==
  /\ pc[t] = "acquire"
  /\ op[t] = "trylock"
  /\ holder # NoOwner
  /\ Return(t, "EBUSY")
  /\ UNCHANGED <<kind, holder, owner, count, nusers, level>>

TimedOut(t) ==
  /\ pc[t] = "acquire"
  /\ op[t] = "clocklock"
  /\ Return(t, "ETIMEDOUT")
  /\ UNCHANGED <<kind, holder, owner, count, nusers, level>>

\* Record the ownership; the caller of cond_lock is still counted in __nusers
\* (NO_INCR).
NoIncr_Always(o) == FALSE
NoIncr(o) == o = "cond_lock"

RecordOwner(t) ==
  /\ pc[t] = "acquired"
  /\ owner' = t
  /\ count' = IF kind = "recursive" THEN 1 ELSE count
  /\ level' = [level EXCEPT ![t] = @ + 1]
  /\ IF NoIncr(op[t])
       THEN Return(t, "0")
       ELSE Goto(t, "incr") /\ UNCHANGED <<op, ret>>
  /\ UNCHANGED <<kind, holder, nusers>>

Incr(t) ==
  /\ pc[t] = "incr"
  /\ nusers' = nusers + 1
  /\ Return(t, "0")
  /\ UNCHANGED <<kind, holder, owner, count, level>>

-----------------------------------------------------------------------------
\* __pthread_mutex_unlock_usercnt: pthread_mutex_unlock (decr = 1) and the
\* unlock of a condition variable wait (decr = 0).  The program unlocks a
\* normal or adaptive mutex only if it holds it, and only a holder waits.

NotOwner(t) ==
  \/ kind = "recursive" /\ owner # t
  \/ kind = "errorcheck" /\ (owner # t \/ holder = NoOwner)

\* "Always reset the owner field."
ResetOwner_Kept(t) == t
ResetOwner(t) == NoOwner

AfterUnlock(o) == IF o = "cond_unlock" THEN "incond" ELSE "idle"

UnlockEntry(t, o) ==
  /\ kind # "destroyed"
  /\ pc[t] = "idle"
  /\ level[t] > 0 \/ (o = "unlock" /\ kind \in {"recursive", "errorcheck"})
  /\ IF NotOwner(t)
       THEN Return(t, "EPERM") /\ UNCHANGED <<owner, count, level>>
       ELSE IF kind = "recursive" /\ count # 1
              THEN /\ count' = count - 1
                   /\ level' = [level EXCEPT ![t] = @ - 1]
                   /\ Goto(t, AfterUnlock(o))
                   /\ ret' = [ret EXCEPT ![t] = "0"]
                   /\ UNCHANGED <<owner, op>>
              ELSE /\ count' = IF kind = "recursive" THEN 0 ELSE count
                   /\ owner' = ResetOwner(t)
                   /\ level' = [level EXCEPT ![t] = 0]
                   /\ Goto(t, IF o = "unlock" THEN "decr" ELSE "release")
                   /\ op' = [op EXCEPT ![t] = o]
                   /\ UNCHANGED ret
  /\ UNCHANGED <<kind, holder, nusers>>

Unlock(t) == \E o \in {"unlock", "cond_unlock"} : UnlockEntry(t, o)

Decr(t) ==
  /\ pc[t] = "decr"
  /\ nusers' = nusers - 1
  /\ Goto(t, "release")
  /\ UNCHANGED <<kind, holder, owner, count, op, ret, level>>

Release(t) ==
  /\ pc[t] = "release"
  /\ holder' = NoOwner
  /\ Goto(t, AfterUnlock(op[t]))
  /\ op' = [op EXCEPT ![t] = "none"]
  /\ ret' = [ret EXCEPT ![t] = "0"]
  /\ UNCHANGED <<kind, owner, count, nusers, level>>

\* pthread_mutex_destroy, which the program calls while no other function is
\* being executed on the mutex.
DestroyBusy == nusers # 0

Destroy(t) ==
  /\ kind # "destroyed"
  /\ \A u \in Threads : pc[u] \in {"idle", "incond"}
  /\ pc[t] = "idle"
  /\ IF DestroyBusy
       THEN Return(t, "EBUSY") /\ UNCHANGED kind
       ELSE Return(t, "0") /\ kind' = "destroyed"
  /\ UNCHANGED <<holder, owner, count, nusers, level>>

Next ==
  \E t \in Threads :
    \/ Lock(t) \/ Acquire(t) \/ Busy(t) \/ TimedOut(t) \/ RecordOwner(t) \/ Incr(t)
    \/ Unlock(t) \/ Decr(t) \/ Release(t) \/ Destroy(t)

Spec == Init /\ [][Next]_vars

-----------------------------------------------------------------------------
\* A thread that finds its own id in __owner (an unlocked read) holds the
\* mutex, and a recursive mutex is released by exactly as many unlocks as there
\* were successful locks.  It follows that pthread_mutex_lock's assertion, __owner
\* is 0 right after the low-level lock was acquired, holds.
OwnershipExact ==
  /\ \A t \in Threads : owner = t <=> level[t] > 0
  /\ \A t \in Threads : level[t] > 0 => holder = t
  /\ \A t \in Threads : kind = "recursive" /\ level[t] > 0 => count = level[t]

\* EDEADLK is returned to a holder only, EPERM to a thread that does not hold
\* the mutex only, EAGAIN only when the counter is at its limit.
ErrorsJustified ==
  \A t \in Threads :
    pc[t] = "idle" =>
      /\ ret[t] = "EDEADLK" => level[t] > 0
      /\ ret[t] = "EPERM" => level[t] = 0
      /\ ret[t] = "EAGAIN" => level[t] = UINT_MAX

\* The threads that hold the mutex or wait on a condition variable with it.
InUse == {t \in Threads : level[t] > 0 \/ pc[t] = "incond"}

\* __nusers counts the threads that use the mutex whenever no function is being
\* executed, and pthread_mutex_destroy, which goes by it, never destroys a mutex
\* that is in use.
NusersExact ==
  /\ (\A t \in Threads : pc[t] \in {"idle", "incond"}) => nusers = Cardinality(InUse)
  /\ kind = "destroyed" => InUse = {}
=============================================================================
