---------------------------- MODULE RobustMutex ----------------------------
(***************************************************************************)
(* Robust mutexes (the ROBUST cases of nptl/pthread_mutex_lock.c,          *)
(* _trylock.c, _timedlock.c, _unlock.c, and _consistent.c): a lock word    *)
(* that holds the owner's thread id and two flags, FUTEX_WAITERS and       *)
(* FUTEX_OWNER_DIED, and the robust list by which the kernel finds, when a *)
(* thread dies at any instruction, the mutexes it has or is about to have. *)
(*                                                                         *)
(* One action per access to shared memory.  A thread can be killed between *)
(* any two of them; what the kernel then does to the mutex is KernelExit,  *)
(* modelled from the protocol the code follows (descr.h, ENQUEUE_MUTEX).   *)
(* __nusers is left out: pthread_mutex_destroy ignores it for this kind.   *)
(***************************************************************************)
EXTENDS Naturals, FiniteSets, Futex

CONSTANTS Threads,
          NoTid,        \* not a thread: 0 in the lock word or in __owner
          UINT_MAX,     \* the largest value of __count
          MaxDeaths     \* bound: how many threads are killed

\* PTHREAD_MUTEX_INCONSISTENT and PTHREAD_MUTEX_NOTRECOVERABLE, no thread ids.
INCONSISTENT == "INCONSISTENT"
NOTRECOVERABLE == "NOTRECOVERABLE"

ASSUME RobustAssumption ==
  /\ IsFiniteSet(Threads)
  /\ NoTid \notin Threads
  /\ INCONSISTENT \notin Threads \cup {NoTid}
  /\ NOTRECOVERABLE \notin Threads \cup {NoTid}
  /\ UINT_MAX \in Nat \ {0}
  /\ MaxDeaths \in Nat

Kinds == {"normal", "errorcheck", "recursive"}
LockOps == {"lock", "cond_lock", "trylock", "timedlock", "badtimedlock"}

Word(tid, waiters, died) == [tid |-> tid, waiters |-> waiters, died |-> died]
Free == Word(NoTid, FALSE, FALSE)
Words == [tid : Threads \cup {NoTid}, waiters : BOOLEAN, died : BOOLEAN]

VARIABLES kind,        \* __kind without the robust bit
          lock,        \* __lock
          owner,       \* __owner
          count,       \* __count
          pending,     \* pending[t]: robust_head.list_op_pending is the mutex
          enqueued,    \* enqueued[t]: the mutex is on the robust list of t
          alive,       \* alive[t]: t has not been killed
          pc, op,      \* pc[t], op[t]: what t does next, in which function
          oldval,      \* oldval[t]: the local of that name
          assume,      \* assume[t]: assume_other_futex_waiters
          view,        \* view[t]: what t's program knows: "out", "in", "recover"
          dropped      \* history: a wake-up died with the thread that carried it

shared == <<kind, dropped>>
vars == <<shared, lock, owner, count, pending, enqueued, alive, pc, op, oldval, assume, view>>

Init ==
  /\ kind \in Kinds
  /\ lock = Free /\ owner = NoTid /\ count = 0
  /\ pending = [t \in Threads |-> FALSE]
  /\ enqueued = [t \in Threads |-> FALSE]
  /\ alive = [t \in Threads |-> TRUE]
  /\ pc = [t \in Threads |-> "idle"]
  /\ op = [t \in Threads |-> "none"]
  /\ oldval = [t \in Threads |-> Free]
  /\ assume = [t \in Threads |-> FALSE]
  /\ view = [t \in Threads |-> "out"]
  /\ dropped = FALSE

At(t, label) == alive[t] /\ pc[t] = label
Goto(t, label) == pc' = [pc EXCEPT ![t] = label]
SetPending(t, b) == pending' = [pending EXCEPT ![t] = b]

\* Return to the program; the locals of the call are dead.
Done(t) ==
  /\ Goto(t, "idle")
  /\ op' = [op EXCEPT ![t] = "none"]
  /\ oldval' = [oldval EXCEPT ![t] = Free]
  /\ assume' = [assume EXCEPT ![t] = FALSE]
Return(t, v) == Done(t) /\ view' = [view EXCEPT ![t] = v]

\* Return after op_pending has been cleared, what the program has unchanged.
Fail(t) == Done(t) /\ SetPending(t, FALSE) /\ UNCHANGED view

Blocked == {t \in Threads : At(t, "blocked")}

-----------------------------------------------------------------------------
\* pthread_mutex_lock, pthread_mutex_timedlock, __pthread_mutex_cond_lock
\* (which starts with FUTEX_WAITERS assumed) and pthread_mutex_trylock.  The
\* program does not lock a normal mutex it holds without a deadline.

EnterPending_Late(o) == FALSE
EnterPending(o) == TRUE

Lock(t) ==
  /\ At(t, "idle")
  /\ \E o \in LockOps :
       /\ o = "cond_lock" => view[t] = "out"
       /\ kind = "normal" /\ view[t] # "out" => o # "lock"
       /\ op' = [op EXCEPT ![t] = o]
       /\ assume' = [assume EXCEPT ![t] = o = "cond_lock"]
       /\ SetPending(t, EnterPending(o))
  /\ Goto(t, "load")
  /\ UNCHANGED <<shared, lock, owner, count, enqueued, alive, oldval, view>>

Load(t) ==
  /\ At(t, "load")
  /\ oldval' = [oldval EXCEPT ![t] = lock]
  /\ Goto(t, "try")
  /\ UNCHANGED <<shared, lock, owner, count, pending, enqueued, alive, op, assume, view>>

\* A compare-and-exchange of the lock word from the value last seen.
CAS(t, new, success) ==
  IF lock = oldval[t]
    THEN lock' = new /\ Goto(t, success) /\ UNCHANGED oldval
    ELSE oldval' = [oldval EXCEPT ![t] = lock] /\ UNCHANGED <<lock, pc>>

\* The word that says "mine": flag FUTEX_WAITERS may be shared with others.
Mine(t) == Word(t, oldval[t].waiters \/ assume[t], FALSE)

TryFree(t) ==
  /\ At(t, "try")
  /\ op[t] # "trylock"
  /\ oldval[t] = Free
  /\ CAS(t, Mine(t), "check")
  /\ UNCHANGED <<shared, owner, count, pending, enqueued, alive, op, assume, view>>

\* The previous owner died.
TryOwnerDied(t) ==
  /\ At(t, "try")
  /\ oldval[t].died
  /\ CAS(t, Mine(t), "inherit")
  /\ UNCHANGED <<shared, owner, count, pending, enqueued, alive, op, assume, view>>

\* "But it is inconsistent unless marked otherwise."
InheritedOwner_Mine(t) == t
InheritedOwner(t) == INCONSISTENT

Inherit(t) ==
  /\ At(t, "inherit")
  /\ count' = 1
  /\ owner' = InheritedOwner(t)
  /\ op' = [op EXCEPT ![t] = "recover"]
  /\ Goto(t, "enqueue")
  /\ UNCHANGED <<shared, lock, pending, enqueued, alive, oldval, assume, view>>

\* "Check whether we already hold the mutex": EDEADLK, or bump the counter
\* (EAGAIN if it would wrap).
HoldsIt(t) == oldval[t].tid = t /\ kind \in {"errorcheck", "recursive"}

AlreadyHeld(t) ==
  /\ At(t, "try")
  /\ ~oldval[t].died
  /\ HoldsIt(t)
  /\ count' = IF kind = "recursive" /\ count # UINT_MAX THEN count + 1 ELSE count
  /\ Fail(t)
  /\ UNCHANGED <<shared, lock, owner, enqueued, alive>>

\* trylock: one attempt from 0; EBUSY unless the owner turns out to be dead.
TryLock(t) ==
  /\ At(t, "try")
  /\ op[t] = "trylock"
  /\ ~oldval[t].died
  /\ ~HoldsIt(t)
  /\ IF lock = Free
       THEN /\ lock' = Word(t, FALSE, FALSE)
            /\ oldval' = [oldval EXCEPT ![t] = Free]
            /\ Goto(t, "check")
            /\ UNCHANGED <<pending, op, assume, view>>
       ELSE /\ IF lock.died
                 THEN /\ oldval' = [oldval EXCEPT ![t] = lock]
                      /\ Goto(t, "check")
                      /\ UNCHANGED <<pending, op, assume, view>>
                 ELSE Fail(t)
            /\ UNCHANGED lock
  /\ UNCHANGED <<shared, owner, count, enqueued, alive>>

\* Blocking: set FUTEX_WAITERS, then wait while the word does not change.
MustWait(t) ==
  /\ At(t, "try")
  /\ op[t] # "trylock"
  /\ oldval[t] # Free
  /\ ~oldval[t].died
  /\ ~HoldsIt(t)

\* timedlock with an invalid or negative deadline returns before it blocks.
BadTimeout(t) ==
  /\ MustWait(t)
  /\ op[t] = "badtimedlock"
  /\ Fail(t)
  /\ UNCHANGED <<shared, lock, owner, count, enqueued, alive>>

SetWaiters(t) ==
  /\ MustWait(t)
  /\ op[t] # "badtimedlock"
  /\ ~oldval[t].waiters
  /\ IF lock = oldval[t]
       THEN /\ lock' = [lock EXCEPT !.waiters = TRUE]
            /\ oldval' = [oldval EXCEPT ![t].waiters = TRUE]
       ELSE /\ oldval' = [oldval EXCEPT ![t] = lock]
            /\ UNCHANGED lock
  /\ UNCHANGED <<shared, owner, count, pending, enqueued, alive, pc, op, assume, view>>

Wait(t) ==
  /\ MustWait(t)
  /\ op[t] # "badtimedlock"
  /\ oldval[t].waiters
  /\ assume' = [assume EXCEPT ![t] = TRUE]
  /\ Goto(t, IF lock = oldval[t] THEN "blocked" ELSE "load")
  /\ oldval' = [oldval EXCEPT ![t] = Free]
  /\ UNCHANGED <<shared, lock, owner, count, pending, enqueued, alive, op, view>>

\* A signal interrupts futex_wait, or the deadline passes.
Interrupted(t) ==
  /\ At(t, "blocked")
  /\ Goto(t, "load")
  /\ UNCHANGED <<shared, lock, owner, count, pending, enqueued, alive, op, oldval, assume, view>>

TimedOut(t) ==
  /\ At(t, "blocked")
  /\ op[t] = "timedlock"
  /\ Fail(t)
  /\ UNCHANGED <<shared, lock, owner, count, enqueued, alive>>

\* The lock word was taken from 0 (or trylock saw a dead owner's word): is the
\* mutex still usable?
Check(t) ==
  /\ At(t, "check")
  /\ IF owner = NOTRECOVERABLE
       THEN Goto(t, "reject") /\ UNCHANGED count
       ELSE IF oldval[t] = Free
              THEN /\ count' = IF op[t] = "trylock" THEN count ELSE 1
                   /\ Goto(t, "enqueue")
              ELSE Goto(t, "try") /\ UNCHANGED count
  /\ UNCHANGED <<shared, lock, owner, pending, enqueued, alive, op, oldval, assume, view>>

\* "This mutex is now not recoverable": give the word back, if it was taken.
Reject(t) ==
  /\ At(t, "reject")
  /\ count' = 0
  /\ IF oldval[t] = Free
       THEN /\ op' = [op EXCEPT ![t] = "reject"]
            /\ Goto(t, "release")
            /\ UNCHANGED <<pending, oldval, assume, view>>
       ELSE Fail(t)
  /\ UNCHANGED <<shared, lock, owner, enqueued, alive>>

\* ENQUEUE_MUTEX, then op_pending = NULL, then the owner.
Enqueue(t) ==
  /\ At(t, "enqueue")
  /\ enqueued' = [enqueued EXCEPT ![t] = TRUE]
  /\ Goto(t, "clear")
  /\ UNCHANGED <<shared, lock, owner, count, pending, alive, op, oldval, assume, view>>

RecordOwner(t) ==
  /\ At(t, "own")
  /\ owner' = t
  /\ count' = IF op[t] = "trylock" THEN 1 ELSE count
  /\ Return(t, "in")
  /\ UNCHANGED <<shared, lock, pending, enqueued, alive>>

-----------------------------------------------------------------------------
\* pthread_mutex_unlock and pthread_mutex_consistent.

Decremented == (count + UINT_MAX) % (UINT_MAX + 1)

\* The mutex goes back, or becomes not recoverable.
Unlocking(t, o) ==
  /\ op' = [op EXCEPT ![t] = o]
  /\ view' = [view EXCEPT ![t] = "out"]
  /\ SetPending(t, TRUE)
  /\ Goto(t, "dequeue")

UnlockRecursive(t) ==
  /\ kind = "recursive"
  /\ \/ lock.tid = t /\ owner = INCONSISTENT
     \/ owner = t
  /\ count' = Decremented
  /\ IF Decremented # 0
       THEN UNCHANGED <<op, view, pending, pc>>
       ELSE Unlocking(t, IF owner = INCONSISTENT THEN "abandon" ELSE "unlock")

UnlockOther(t) ==
  /\ kind # "recursive"
  /\ lock.tid = t
  /\ Unlocking(t, IF owner = INCONSISTENT THEN "abandon" ELSE "unlock")
  /\ UNCHANGED count

Unlock(t) ==
  /\ At(t, "idle")
  /\ UnlockRecursive(t) \/ UnlockOther(t)
  /\ UNCHANGED <<shared, lock, owner, enqueued, alive, oldval, assume>>

Dequeue(t) ==
  /\ At(t, "dequeue")
  /\ enqueued' = [enqueued EXCEPT ![t] = FALSE]
  /\ Goto(t, "disown")
  /\ UNCHANGED <<shared, lock, owner, count, pending, alive, op, oldval, assume, view>>

NewOwner(o) == IF o = "abandon" THEN NOTRECOVERABLE ELSE NoTid

Disown(t) ==
  /\ At(t, "disown")
  /\ owner' = NewOwner(op[t])
  /\ Goto(t, "release")
  /\ UNCHANGED <<shared, lock, count, pending, enqueued, alive, op, oldval, assume, view>>

\* The exchange of 0 into the lock word.
WakeNeeded_NotRejected(t) == lock.waiters /\ op[t] # "reject"
WakeNeeded(t) == lock.waiters

Release(t) ==
  /\ At(t, "release")
  /\ lock' = Free
  /\ Goto(t, IF WakeNeeded(t) THEN "wake" ELSE "clear")
  /\ UNCHANGED <<shared, owner, count, pending, enqueued, alive, op, oldval, assume, view>>

Wake(t) ==
  /\ At(t, "wake")
  /\ \E W \in futex_wake(Blocked, 1) :
       pc' = [u \in Threads |-> IF u \in W THEN "load" ELSE IF u = t THEN "clear" ELSE pc[u]]
  /\ UNCHANGED <<shared, lock, owner, count, pending, enqueued, alive, op, oldval, assume, view>>

\* op_pending = NULL: the last step of unlock and of a rejected call, the last
\* but one of a successful lock; with EOWNERDEAD the function returns here.
ClearPending(t) ==
  /\ At(t, "clear")
  /\ SetPending(t, FALSE)
  /\ CASE op[t] \in LockOps -> Goto(t, "own") /\ UNCHANGED <<op, oldval, assume, view>>
       [] op[t] = "recover" -> Return(t, "recover")
       [] OTHER -> Return(t, "out")
  /\ UNCHANGED <<shared, lock, owner, count, enqueued, alive>>

\* The program calls it while it has the mutex.
Consistent(t) ==
  /\ At(t, "idle")
  /\ view[t] = "recover"
  /\ owner = INCONSISTENT
  /\ owner' = t
  /\ view' = [view EXCEPT ![t] = "in"]
  /\ UNCHANGED <<shared, lock, count, pending, enqueued, alive, pc, op, oldval, assume>>

-----------------------------------------------------------------------------
\* A thread exits or is killed, wherever it is.
Die(t) ==
  /\ alive[t]
  /\ Cardinality({u \in Threads : ~alive[u]}) < MaxDeaths
  /\ alive' = [alive EXCEPT ![t] = FALSE]
  /\ UNCHANGED <<shared, lock, owner, count, pending, enqueued, pc, op, oldval, assume, view>>

\* A thread between the exchange of 0 and futex_wake, or woken by it, carries
\* the wake-up of all the threads that wait.  If it is killed after somebody
\* else took the word without FUTEX_WAITERS, the kernel has nothing to go by.
Carries(t) == pc[t] = "wake" \/ (pc[t] \in {"load", "try"} /\ assume[t])

\* The kernel visits the mutexes on the list and the pending one.  A word with
\* the thread's id becomes OWNER_DIED; if the pending word has no owner the
\* thread may have been killed between releasing or being woken and acting on
\* it, so a waiter is woken.
KernelExit(t) ==
  /\ ~alive[t]
  /\ pc[t] # "dead" /\ pc[t] # "kwake"
  /\ IF lock.tid = t /\ (pending[t] \/ enqueued[t])
       THEN /\ lock' = Word(NoTid, lock.waiters, TRUE)
            /\ Goto(t, IF lock.waiters THEN "kwake" ELSE "dead")
       ELSE /\ Goto(t, IF pending[t] /\ lock.tid = NoTid THEN "kwake" ELSE "dead")
            /\ UNCHANGED lock
  /\ pending' = [pending EXCEPT ![t] = FALSE]
  /\ enqueued' = [enqueued EXCEPT ![t] = FALSE]
  /\ op' = [op EXCEPT ![t] = "none"]
  /\ oldval' = [oldval EXCEPT ![t] = Free]
  /\ assume' = [assume EXCEPT ![t] = FALSE]
  /\ view' = [view EXCEPT ![t] = "out"]
  /\ dropped' = (dropped \/ (Carries(t) /\ lock.tid \notin {t, NoTid} /\ ~lock.waiters))
  /\ UNCHANGED <<kind, owner, count, alive>>

KernelWake(t) ==
  /\ pc[t] = "kwake"
  /\ \E W \in futex_wake(Blocked, 1) :
       pc' = [u \in Threads |-> IF u \in W THEN "load" ELSE IF u = t THEN "dead" ELSE pc[u]]
  /\ UNCHANGED <<shared, lock, owner, count, pending, enqueued, alive, op, oldval, assume, view>>

Call(t) == Lock(t) \/ Unlock(t) \/ Consistent(t)

Step(t) ==
  \/ Load(t) \/ TryFree(t) \/ TryOwnerDied(t) \/ Inherit(t) \/ AlreadyHeld(t) \/ TryLock(t)
  \/ BadTimeout(t) \/ SetWaiters(t) \/ Wait(t) \/ TimedOut(t)
  \/ Check(t) \/ Reject(t) \/ Enqueue(t) \/ RecordOwner(t)
  \/ Dequeue(t) \/ Disown(t) \/ Release(t) \/ Wake(t) \/ ClearPending(t)
  \/ KernelExit(t) \/ KernelWake(t)

Next == \E t \in Threads : Call(t) \/ Step(t) \/ Interrupted(t) \/ Die(t)

Spec == Init /\ [][Next]_vars

-----------------------------------------------------------------------------
Labels == {"idle", "load", "try", "inherit", "blocked", "check", "reject", "enqueue", "own",
           "dequeue", "disown", "release", "wake", "clear", "kwake", "dead"}

TypeOK ==
  /\ kind \in Kinds
  /\ lock \in Words
  /\ owner \in Threads \cup {NoTid, INCONSISTENT, NOTRECOVERABLE}
  /\ count \in 0..UINT_MAX
  /\ pending \in [Threads -> BOOLEAN]
  /\ enqueued \in [Threads -> BOOLEAN]
  /\ alive \in [Threads -> BOOLEAN]
  /\ pc \in [Threads -> Labels]
  /\ op \in [Threads -> LockOps \cup {"none", "recover", "reject", "unlock", "abandon"}]
  /\ oldval \in [Threads -> Words]
  /\ assume \in [Threads -> BOOLEAN]
  /\ view \in [Threads -> {"out", "in", "recover"}]
  /\ dropped \in BOOLEAN

\* "the thread can get killed at any point in time and the kernel takes over"
\* (descr.h): whenever the lock word has the id of a thread, the kernel finds
\* the mutex should that thread die now, on its list or as its pending operation;
\* and the word has the id of every thread whose program has the mutex, so that
\* no two programs have it, whoever died before.
FoundAtDeath ==
  \A t \in Threads :
    /\ lock.tid = t => pending[t] \/ enqueued[t]
    /\ view[t] # "out" => lock.tid = t

\* No wake-up is lost, whoever dies where, unless it was carried by the thread
\* that died and the word had been taken by somebody else: when nothing is in
\* progress and some thread waits, the mutex is held by a live thread whose unlock
\* or death will wake a waiter, FUTEX_WAITERS being set.  In particular a mutex that became
\* not recoverable turns all its waiters away.
Quiet == \A t \in Threads : At(t, "idle") \/ At(t, "blocked") \/ pc[t] = "dead"

NobodyStranded ==
  Quiet /\ Blocked # {} /\ ~dropped =>
    /\ lock.tid \in Threads
    /\ alive[lock.tid]
    /\ lock.waiters

\* The program's picture of the mutex.
Holder == IF owner = NOTRECOVERABLE /\ pc[lock.tid] # "inherit" THEN NoTid ELSE lock.tid

Health ==
  IF lock.died THEN "ownerdied"
  ELSE IF lock.tid # NoTid /\ pc[lock.tid] = "inherit" THEN "inconsistent"
  ELSE IF owner = NOTRECOVERABLE THEN "notrecoverable"
  ELSE IF owner = INCONSISTENT THEN "inconsistent" ELSE "consistent"

Abs == INSTANCE AbstractRobustLock
         WITH holder <- IF lock.tid = NoTid THEN NoTid ELSE Holder, health <- Health,
              cleaned <- {t \in Threads : pc[t] \in {"kwake", "dead"}}

\* What the functions do, interleaved and interrupted by deaths, is what an atomic
\* robust lock does: a death is reported to the next owner before anybody gets the
\* mutex with result 0; a mutex given up inconsistent is given out again only after
\* a further thread was killed, inside one of these functions, and then with
\* EOWNERDEAD; a thread that was killed does not get the mutex.
ImplementsRobustLock == Abs!Spec
=============================================================================
