-------------------------- MODULE RobustMutexProofs --------------------------
(***************************************************************************)
(* Wherever a thread is killed, the kernel finds the robust mutex whose    *)
(* lock word has its id, and nobody has the mutex who is not in the word:  *)
(* for any number of threads and of deaths.                                *)
(*                                                                         *)
(* The argument is local.  ThreadInv(t) says, label by label, whether the  *)
(* word has the id of t and whether t has announced it; a step of another  *)
(* thread neither puts the id of t in the word nor takes it out.           *)
(***************************************************************************)
EXTENDS RobustMutex, TLAPS

Acquiring == LockOps \cup {"recover"}

\* Where op_pending is set.
Announced ==
  {"load", "try", "inherit", "blocked", "check", "reject", "enqueue",
   "dequeue", "disown", "release", "wake", "clear"}

\* t has not touched the lock word, or is done with it.
Outside(t) ==
  \/ pc[t] \in {"idle", "own", "load", "try", "blocked"}
  \/ pc[t] \in {"check", "reject"} /\ oldval[t] # Free

\* t took the word in this call, and has not yet told the program.
Taken(t) ==
  \/ pc[t] \in {"inherit", "enqueue"}
  \/ pc[t] \in {"check", "reject"} /\ oldval[t] = Free
  \/ pc[t] \in {"clear", "own"} /\ op[t] \in Acquiring

\* t is about to give the word back.
Leaving(t) == pc[t] \in {"dequeue", "disown", "release"}

\* t gave it back, or the kernel did.
Gone(t) ==
  \/ pc[t] \in {"wake", "kwake", "dead"}
  \/ pc[t] = "clear" /\ op[t] \notin Acquiring

OpOK(t) ==
  /\ pc[t] \in {"load", "try", "inherit", "blocked", "check", "reject", "own"}
       => op[t] \in LockOps
  /\ pc[t] = "enqueue" => op[t] \in Acquiring
  /\ pc[t] \in {"dequeue", "disown", "release", "wake"} => op[t] \notin Acquiring

ThreadInv(t) ==
  /\ pc[t] \in Announced => pending[t]
  /\ Outside(t) /\ lock.tid = t => enqueued[t]
  /\ pc[t] \in {"clear", "own"} /\ op[t] \in Acquiring => enqueued[t]
  /\ view[t] # "out" \/ Taken(t) \/ Leaving(t) => lock.tid = t
  /\ Gone(t) => lock.tid # t
  /\ Taken(t) \/ Leaving(t) \/ Gone(t) => view[t] = "out"
  /\ alive[t] /\ owner = t => lock.tid = t
  /\ alive[t] /\ (pc[t] = "release" \/ (pc[t] = "reject" /\ oldval[t] = Free)) => owner # t
  /\ OpOK(t)

IInv ==
  /\ TypeOK
  /\ lock.died => lock.tid = NoTid
  /\ \A t \in Threads : ThreadInv(t)

\* What a step of t may change of what ThreadInv(u) reads, u another thread.
Unmoved(t) ==
  \A u \in Threads \ {t} :
    /\ pc'[u] = pc[u] \/ (pc[u] = "blocked" /\ pc'[u] = "load")
    /\ op'[u] = op[u] /\ oldval'[u] = oldval[u] /\ view'[u] = view[u]
    /\ pending'[u] = pending[u] /\ enqueued'[u] = enqueued[u] /\ alive'[u] = alive[u]
    /\ (lock'.tid = u) <=> (lock.tid = u)
    /\ owner' = u => owner = u

LEMMA Others ==
  ASSUME IInv, NEW t \in Threads, Unmoved(t), ThreadInv(t)'
  PROVE  \A u \in Threads : ThreadInv(u)'
<1> SUFFICES ASSUME NEW u \in Threads, u # t
             PROVE  ThreadInv(u)'
  OBVIOUS
<1>1. ThreadInv(u)
  BY DEF IInv
<1>2. /\ op'[u] = op[u] /\ oldval'[u] = oldval[u] /\ view'[u] = view[u]
      /\ pending'[u] = pending[u] /\ enqueued'[u] = enqueued[u] /\ alive'[u] = alive[u]
      /\ (lock'.tid = u) <=> (lock.tid = u)
      /\ owner' = u => owner = u
  BY DEF Unmoved
<1>3. CASE pc'[u] = pc[u]
  BY <1>1, <1>2, <1>3 DEF ThreadInv, Outside, Taken, Leaving, Gone, OpOK, Announced
<1>4. CASE pc[u] = "blocked" /\ pc'[u] = "load"
  BY <1>1, <1>2, <1>4 DEF ThreadInv, Outside, Taken, Leaving, Gone, OpOK, Announced
<1> QED
  BY <1>3, <1>4 DEF Unmoved

\* A word of the lock, by its fields.
LEMMA WordFields ==
  /\ Free \in Words /\ Free.tid = NoTid /\ ~Free.died /\ ~Free.waiters
  /\ \A tid \in Threads \cup {NoTid} : \A w, d \in BOOLEAN :
       /\ Word(tid, w, d) \in Words
       /\ Word(tid, w, d).tid = tid /\ Word(tid, w, d).waiters = w /\ Word(tid, w, d).died = d
<1>1. \A tid \in Threads \cup {NoTid} : \A w, d \in BOOLEAN :
       /\ Word(tid, w, d) \in Words
       /\ Word(tid, w, d).tid = tid /\ Word(tid, w, d).waiters = w /\ Word(tid, w, d).died = d
  BY DEF Word, Words
<1>2. /\ Free \in Words /\ Free.tid = NoTid /\ Free.died = FALSE /\ Free.waiters = FALSE
  BY DEF Free, Word, Words
<1> QED
  BY <1>1, <1>2

LEMMA InitIInv == Init => IInv
<1> SUFFICES ASSUME Init
             PROVE  IInv
  OBVIOUS
<1>1. TypeOK
  <2>1. kind \in Kinds
    BY DEF Init
  <2>2. lock \in Words
    BY WordFields DEF Init
  <2>3. count \in 0..UINT_MAX
    BY RobustAssumption DEF Init
  <2>4. oldval \in [Threads -> Words]
    BY WordFields DEF Init
  <2>5. pc \in [Threads -> Labels]
    BY DEF Init, Labels
  <2>6. op \in [Threads -> LockOps \cup {"none", "recover", "reject", "unlock", "abandon"}]
    BY DEF Init
  <2>7. view \in [Threads -> {"out", "in", "recover"}]
    BY DEF Init
  <2>8. owner \in Threads \cup {NoTid, INCONSISTENT, NOTRECOVERABLE}
    BY DEF Init
  <2>9. /\ pending \in [Threads -> BOOLEAN] /\ enqueued \in [Threads -> BOOLEAN]
        /\ alive \in [Threads -> BOOLEAN] /\ assume \in [Threads -> BOOLEAN]
    BY DEF Init
  <2>10. dropped \in BOOLEAN
    BY ZenonT(60) DEF Init
  <2> QED
    BY <2>1, <2>2, <2>3, <2>4, <2>5, <2>6, <2>7, <2>8, <2>9, <2>10 DEF TypeOK
<1>2. lock.tid = NoTid /\ owner = NoTid
  BY WordFields DEF Init
<1>3. ASSUME NEW t \in Threads
      PROVE  ThreadInv(t)
  <2>1. pc[t] = "idle" /\ view[t] = "out" /\ lock.tid # t /\ owner # t
    BY <1>2, RobustAssumption DEF Init
  <2> QED
    BY <2>1 DEF ThreadInv, Outside, Taken, Leaving, Gone, OpOK, Announced
<1> QED
  BY <1>1, <1>2, <1>3 DEF IInv

LEMMA DecrementedInRange == count \in 0..UINT_MAX => Decremented \in 0..UINT_MAX
<1> SUFFICES ASSUME count \in 0..UINT_MAX
             PROVE  Decremented \in 0..UINT_MAX
  OBVIOUS
<1>1. count + UINT_MAX \in Nat /\ UINT_MAX + 1 \in Nat \ {0}
  BY RobustAssumption
<1>2. \A a \in Nat : \A b \in Nat \ {0} : a % b \in 0..(b - 1)
  OBVIOUS
<1> QED
  BY <1>1, <1>2, RobustAssumption DEF Decremented

LEMMA StepIInv ==
  ASSUME IInv, NEW t \in Threads, Call(t) \/ Step(t) \/ Interrupted(t) \/ Die(t)
  PROVE  IInv'
<1> USE RobustAssumption, WordFields DEF At, shared
<1>0. /\ TypeOK /\ (lock.died => lock.tid = NoTid) /\ ThreadInv(t)
      /\ lock.tid # NoTid => ~lock.died
      /\ \A u \in Threads : (view[u] # "out" \/ Taken(u) \/ Leaving(u) => lock.tid = u)
  BY DEF IInv, ThreadInv
<1>1. CASE Lock(t)
  <2>1. TypeOK' /\ (lock'.died => lock'.tid = NoTid)
    BY <1>0, <1>1 DEF TypeOK, Labels, LockOps, Kinds, Lock, Goto, SetPending, EnterPending
  <2>2. ThreadInv(t)'
    BY <1>0, <1>1 DEF TypeOK, ThreadInv, Outside, Taken, Leaving, Gone, OpOK, Announced,
        Acquiring, LockOps, Lock, Goto, SetPending, EnterPending
  <2>3. Unmoved(t)
    BY <1>0, <1>1 DEF TypeOK, Unmoved, Lock, Goto, SetPending, EnterPending
  <2> QED
    BY <2>1, <2>2, <2>3, Others DEF IInv
<1>2. CASE Unlock(t)
  <2>0. UNCHANGED <<op, view, pending, pc>> \/ Unlocking(t, "abandon") \/ Unlocking(t, "unlock")
    BY <1>2 DEF Unlock, UnlockRecursive, UnlockOther
  <2>1. count' \in 0..UINT_MAX
    <3>1. count' = Decremented \/ count' = count
      BY <1>2 DEF Unlock, UnlockRecursive, UnlockOther
    <3> QED
      BY <1>0, <3>1, DecrementedInRange DEF TypeOK
  <2>2. UNCHANGED <<shared, lock, owner, enqueued, alive, oldval, assume>>
    BY <1>2 DEF Unlock
  <2>3. TypeOK'
    <3>1. CASE UNCHANGED <<op, view, pending, pc>>
      BY <1>0, <2>1, <2>2, <3>1 DEF TypeOK, Labels, LockOps, shared, Unlocking, Goto, SetPending
    <3>2. CASE Unlocking(t, "abandon")
      BY <1>0, <2>1, <2>2, <3>2 DEF TypeOK, Labels, LockOps, shared, Unlocking, Goto, SetPending
    <3>3. CASE Unlocking(t, "unlock")
      BY <1>0, <2>1, <2>2, <3>3 DEF TypeOK, Labels, LockOps, shared, Unlocking, Goto, SetPending
    <3> QED
      BY <2>0, <3>1, <3>2, <3>3
  <2>4. lock'.died => lock'.tid = NoTid
    BY <1>0, <2>2
  <2>5. ThreadInv(t)'
    BY <1>0, <1>2 DEF TypeOK, ThreadInv, Outside, Taken, Leaving, Gone, OpOK, Announced,
        Acquiring, LockOps, Unlock, UnlockRecursive, UnlockOther, Unlocking, Goto, SetPending
  <2>6. Unmoved(t)
    BY <1>0, <1>2 DEF TypeOK, Unmoved, Unlock, UnlockRecursive, UnlockOther, Unlocking, Goto,
        SetPending
  <2> QED
    BY <2>3, <2>4, <2>5, <2>6, Others DEF IInv
<1>3. CASE Consistent(t)
  <2>1. TypeOK' /\ (lock'.died => lock'.tid = NoTid)
    BY <1>0, <1>3 DEF TypeOK, Labels, LockOps, Kinds, Consistent
  <2>2. ThreadInv(t)'
    BY <1>0, <1>3 DEF TypeOK, ThreadInv, Outside, Taken, Leaving, Gone, OpOK, Announced,
        Acquiring, LockOps, Consistent
  <2>3. Unmoved(t)
    BY <1>0, <1>3 DEF TypeOK, Unmoved, Consistent
  <2> QED
    BY <2>1, <2>2, <2>3, Others DEF IInv
<1>4. CASE Load(t)
  <2>1. TypeOK' /\ (lock'.died => lock'.tid = NoTid)
    BY <1>0, <1>4 DEF TypeOK, Labels, LockOps, Kinds, Load, Goto
  <2>2. ThreadInv(t)'
    BY <1>0, <1>4 DEF TypeOK, ThreadInv, Outside, Taken, Leaving, Gone, OpOK, Announced,
        Acquiring, LockOps, Load, Goto
  <2>3. Unmoved(t)
    BY <1>0, <1>4 DEF TypeOK, Unmoved, Load, Goto
  <2> QED
    BY <2>1, <2>2, <2>3, Others DEF IInv
<1>5. CASE TryFree(t)
  <2>1. CASE lock = oldval[t]
    <3>1. /\ lock' = Word(t, oldval[t].waiters \/ assume[t], FALSE)
          /\ pc' = [pc EXCEPT ![t] = "check"]
          /\ UNCHANGED <<oldval, shared, owner, count, pending, enqueued, alive, op, assume, view>>
      BY <1>5, <2>1 DEF TryFree, CAS, Mine, Goto
    <3>2. (oldval[t].waiters \/ assume[t]) \in BOOLEAN
      OBVIOUS
    <3>3. lock' \in Words /\ lock'.tid = t /\ lock'.died = FALSE
      BY ZenonT(60), <3>1, <3>2
    <3>4. lock.tid = NoTid /\ pc[t] = "try" /\ alive[t]
      BY <1>0, <1>5, <2>1 DEF TryFree
    <3>5. TypeOK'
      BY ZenonT(60), <1>0, <3>1, <3>3 DEF TypeOK, Labels, LockOps, Kinds
    <3>6. view[t] = "out" /\ owner # t /\ pending[t] /\ op[t] \in LockOps
      BY <1>0, <3>4 DEF ThreadInv, Announced, OpOK
    <3>7. /\ pc'[t] = "check" /\ op'[t] = op[t] /\ view'[t] = "out" /\ owner' # t /\ pending'[t]
          /\ oldval'[t] = oldval[t] /\ oldval[t] = Free
      BY <1>0, <1>5, <3>1, <3>6 DEF TypeOK, TryFree
    <3>8. ThreadInv(t)'
      BY <3>3, <3>6, <3>7 DEF ThreadInv, Outside, Taken, Leaving, Gone, OpOK, Announced,
          Acquiring, LockOps
    <3>9. \A u \in Threads \ {t} : lock.tid # u /\ lock'.tid # u
      BY <3>3, <3>4
    <3>10. Unmoved(t)
      BY ZenonT(60), <1>0, <3>1, <3>9 DEF TypeOK, Unmoved
    <3> QED
      BY <3>3, <3>5, <3>8, <3>10, Others DEF IInv
  <2>2. CASE lock # oldval[t]
    <3>0. /\ oldval' = [oldval EXCEPT ![t] = lock]
          /\ UNCHANGED <<lock, pc, shared, owner, count, pending, enqueued, alive, op, assume, view>>
      BY <1>5, <2>2 DEF TryFree, CAS
    <3>1. TypeOK' /\ (lock'.died => lock'.tid = NoTid)
      BY <1>0, <3>0 DEF TypeOK
    <3>2. ThreadInv(t)'
      BY <1>0, <1>5, <3>0 DEF TryFree, TypeOK, ThreadInv, Outside, Taken, Leaving, Gone, OpOK,
          Announced, Acquiring, LockOps
    <3>3. Unmoved(t)
      BY <1>0, <3>0 DEF TypeOK, Unmoved
    <3> QED
      BY <3>1, <3>2, <3>3, Others DEF IInv
  <2> QED
    BY <2>1, <2>2
<1>6. CASE TryOwnerDied(t)
  <2>1. CASE lock = oldval[t]
    <3>1. /\ lock' = Word(t, oldval[t].waiters \/ assume[t], FALSE)
          /\ pc' = [pc EXCEPT ![t] = "inherit"]
          /\ UNCHANGED <<oldval, shared, owner, count, pending, enqueued, alive, op, assume, view>>
      BY <1>6, <2>1 DEF TryOwnerDied, CAS, Mine, Goto
    <3>2. (oldval[t].waiters \/ assume[t]) \in BOOLEAN
      OBVIOUS
    <3>3. lock' \in Words /\ lock'.tid = t /\ lock'.died = FALSE
      BY ZenonT(60), <3>1, <3>2
    <3>4. lock.tid = NoTid /\ pc[t] = "try" /\ alive[t]
      BY <1>0, <1>6, <2>1 DEF TryOwnerDied
    <3>5. TypeOK'
      BY ZenonT(60), <1>0, <3>1, <3>3 DEF TypeOK, Labels, LockOps, Kinds
    <3>6. view[t] = "out" /\ owner # t /\ pending[t] /\ op[t] \in LockOps
      BY <1>0, <3>4 DEF ThreadInv, Announced, OpOK
    <3>7. /\ pc'[t] = "inherit" /\ op'[t] = op[t] /\ view'[t] = "out" /\ owner' # t /\ pending'[t]
          /\ oldval'[t] = oldval[t]
      BY <1>0, <1>6, <3>1, <3>6 DEF TypeOK
    <3>8. ThreadInv(t)'
      BY <3>3, <3>6, <3>7 DEF ThreadInv, Outside, Taken, Leaving, Gone, OpOK, Announced,
          Acquiring, LockOps
    <3>9. \A u \in Threads \ {t} : lock.tid # u /\ lock'.tid # u
      BY <3>3, <3>4
    <3>10. Unmoved(t)
      BY ZenonT(60), <1>0, <3>1, <3>9 DEF TypeOK, Unmoved
    <3> QED
      BY <3>3, <3>5, <3>8, <3>10, Others DEF IInv
  <2>2. CASE lock # oldval[t]
    <3>0. /\ oldval' = [oldval EXCEPT ![t] = lock]
          /\ UNCHANGED <<lock, pc, shared, owner, count, pending, enqueued, alive, op, assume, view>>
      BY <1>6, <2>2 DEF TryOwnerDied, CAS
    <3>1. TypeOK' /\ (lock'.died => lock'.tid = NoTid)
      BY <1>0, <3>0 DEF TypeOK
    <3>2. ThreadInv(t)'
      BY <1>0, <1>6, <3>0 DEF TryOwnerDied, TypeOK, ThreadInv, Outside, Taken, Leaving, Gone,
          OpOK, Announced, Acquiring, LockOps
    <3>3. Unmoved(t)
      BY <1>0, <3>0 DEF TypeOK, Unmoved
    <3> QED
      BY <3>1, <3>2, <3>3, Others DEF IInv
  <2> QED
    BY <2>1, <2>2
<1>7. CASE Inherit(t)
  <2>1. TypeOK' /\ (lock'.died => lock'.tid = NoTid)
    BY <1>0, <1>7 DEF TypeOK, Labels, LockOps, Kinds, Inherit, Goto, InheritedOwner
  <2>2. ThreadInv(t)'
    BY <1>0, <1>7 DEF TypeOK, ThreadInv, Outside, Taken, Leaving, Gone, OpOK, Announced,
        Acquiring, LockOps, Inherit, Goto, InheritedOwner
  <2>3. Unmoved(t)
    BY <1>0, <1>7 DEF TypeOK, Unmoved, Inherit, Goto, InheritedOwner
  <2> QED
    BY <2>1, <2>2, <2>3, Others DEF IInv
<1>8. CASE AlreadyHeld(t)
  <2>1. TypeOK' /\ (lock'.died => lock'.tid = NoTid)
    BY <1>0, <1>8 DEF TypeOK, Labels, LockOps, Kinds, AlreadyHeld, Goto, Done, Fail, SetPending
  <2>2. ThreadInv(t)'
    BY <1>0, <1>8 DEF TypeOK, ThreadInv, Outside, Taken, Leaving, Gone, OpOK, Announced,
        Acquiring, LockOps, AlreadyHeld, Goto, Done, Fail, SetPending
  <2>3. Unmoved(t)
    BY <1>0, <1>8 DEF TypeOK, Unmoved, AlreadyHeld, Goto, Done, Fail, SetPending
  <2> QED
    BY <2>1, <2>2, <2>3, Others DEF IInv
<1>9. CASE TryLock(t)
  <2>0. pc[t] = "try" /\ alive[t] /\ op[t] \in LockOps /\ pending[t] /\ Outside(t)
    BY <1>0, <1>9 DEF TryLock, ThreadInv, OpOK, Announced, Outside
  <2>1. CASE lock = Free
    <3>1. /\ lock' = Word(t, FALSE, FALSE) /\ oldval' = [oldval EXCEPT ![t] = Free]
          /\ pc' = [pc EXCEPT ![t] = "check"]
          /\ UNCHANGED <<pending, op, assume, view, shared, owner, count, enqueued, alive>>
      BY <1>9, <2>1 DEF TryLock, Goto
    <3>2. lock' \in Words /\ lock'.tid = t /\ lock'.died = FALSE /\ lock.tid = NoTid
      BY ZenonT(60), <2>1, <3>1
    <3>3. TypeOK'
      BY ZenonT(60), <1>0, <3>1, <3>2 DEF TypeOK, Labels
    <3>4. view[t] = "out" /\ owner # t
      BY <1>0, <2>0, <3>2 DEF ThreadInv
    <3>5. /\ pc'[t] = "check" /\ op'[t] = op[t] /\ oldval'[t] = Free /\ view'[t] = "out"
          /\ pending'[t] /\ owner' # t
      BY <1>0, <2>0, <3>1, <3>4 DEF TypeOK
    <3>8. ThreadInv(t)'
      BY <2>0, <3>2, <3>5 DEF ThreadInv, Outside, Taken, Leaving, Gone, OpOK, Announced,
          Acquiring, LockOps
    <3>6. \A u \in Threads \ {t} : lock.tid # u /\ lock'.tid # u
      BY ONLY <3>2, RobustAssumption
    <3>7. Unmoved(t)
      <4>1. \A u \in Threads \ {t} : pc'[u] = pc[u] /\ oldval'[u] = oldval[u]
        BY ONLY <1>0, <3>1 DEF TypeOK
      <4> QED
        BY ONLY ZenonT(60), <3>1, <3>6, <4>1 DEF Unmoved
    <3> QED
      BY <3>2, <3>3, <3>7, <3>8, Others DEF IInv
  <2>2. CASE lock # Free /\ lock.died
    <3>1. /\ oldval' = [oldval EXCEPT ![t] = lock] /\ pc' = [pc EXCEPT ![t] = "check"]
          /\ UNCHANGED <<lock, pending, op, assume, view, shared, owner, count, enqueued, alive>>
      BY <1>9, <2>2 DEF TryLock, Goto
    <3>2. TypeOK' /\ (lock'.died => lock'.tid = NoTid)
      BY <1>0, <3>1 DEF TypeOK, Labels
    <3>3. ThreadInv(t)'
      BY <1>0, <2>0, <2>2, <3>1 DEF TypeOK, ThreadInv, Outside, Taken, Leaving, Gone, OpOK,
          Announced, Acquiring, LockOps
    <3>4. Unmoved(t)
      BY <1>0, <3>1 DEF TypeOK, Unmoved
    <3> QED
      BY <3>2, <3>3, <3>4, Others DEF IInv
  <2>3. CASE lock # Free /\ ~lock.died
    <3>1. Fail(t) /\ UNCHANGED <<lock, shared, owner, count, enqueued, alive>>
      BY <1>9, <2>3 DEF TryLock
    <3>2. TypeOK' /\ (lock'.died => lock'.tid = NoTid)
      BY <1>0, <3>1 DEF Fail, Done, Goto, SetPending, TypeOK, Labels
    <3>3. ThreadInv(t)'
      BY <1>0, <2>0, <3>1 DEF Fail, Done, Goto, SetPending, TypeOK, ThreadInv, Outside, Taken,
          Leaving, Gone, OpOK, Announced, Acquiring, LockOps
    <3>4. Unmoved(t)
      BY <1>0, <3>1 DEF Fail, Done, Goto, SetPending, TypeOK, Unmoved
    <3> QED
      BY <3>2, <3>3, <3>4, Others DEF IInv
  <2> QED
    BY <2>1, <2>2, <2>3
<1>10. CASE BadTimeout(t)
  <2>1. TypeOK' /\ (lock'.died => lock'.tid = NoTid)
    BY <1>0, <1>10 DEF TypeOK, Labels, LockOps, Kinds, BadTimeout, MustWait, Goto, Done, Fail,
        SetPending
  <2>2. ThreadInv(t)'
    BY <1>0, <1>10 DEF TypeOK, ThreadInv, Outside, Taken, Leaving, Gone, OpOK, Announced,
        Acquiring, LockOps, BadTimeout, MustWait, Goto, Done, Fail, SetPending
  <2>3. Unmoved(t)
    BY <1>0, <1>10 DEF TypeOK, Unmoved, BadTimeout, MustWait, Goto, Done, Fail, SetPending
  <2> QED
    BY <2>1, <2>2, <2>3, Others DEF IInv
<1>11. CASE SetWaiters(t)
  <2>0. pc[t] = "try" /\ oldval[t] # Free
    BY <1>11 DEF SetWaiters, MustWait
  <2>1. CASE lock = oldval[t]
    <3>1. /\ lock' = [lock EXCEPT !.waiters = TRUE]
          /\ oldval' = [oldval EXCEPT ![t].waiters = TRUE]
          /\ UNCHANGED <<shared, owner, count, pending, enqueued, alive, pc, op, assume, view>>
      BY <1>11, <2>1 DEF SetWaiters
    <3>2. lock' \in Words /\ lock'.tid = lock.tid /\ lock'.died = lock.died
      BY ZenonT(60), <1>0, <3>1 DEF TypeOK, Words
    <3>3. oldval' = [oldval EXCEPT ![t] = lock']
      BY <1>0, <2>1, <3>1 DEF TypeOK
    <3>4. oldval' \in [Threads -> Words]
      BY <1>0, <3>2, <3>3 DEF TypeOK
    <3>7. TypeOK'
      BY <1>0, <3>1, <3>2, <3>4 DEF TypeOK
    <3>8. lock'.died => lock'.tid = NoTid
      BY <1>0, <3>2
    <3>5. ThreadInv(t)'
      BY <1>0, <2>0, <3>1, <3>2 DEF TypeOK, ThreadInv, Outside, Taken, Leaving, Gone, OpOK,
          Announced, Acquiring, LockOps
    <3>6. Unmoved(t)
      BY <1>0, <3>1, <3>2, <3>3 DEF TypeOK, Unmoved
    <3> QED
      BY <3>5, <3>6, <3>7, <3>8, Others DEF IInv
  <2>2. CASE lock # oldval[t]
    <3>1. /\ oldval' = [oldval EXCEPT ![t] = lock]
          /\ UNCHANGED <<lock, shared, owner, count, pending, enqueued, alive, pc, op, assume, view>>
      BY <1>11, <2>2 DEF SetWaiters
    <3>2. TypeOK' /\ (lock'.died => lock'.tid = NoTid)
      BY <1>0, <3>1 DEF TypeOK
    <3>3. ThreadInv(t)'
      BY <1>0, <2>0, <3>1 DEF TypeOK, ThreadInv, Outside, Taken, Leaving, Gone, OpOK,
          Announced, Acquiring, LockOps
    <3>4. Unmoved(t)
      BY <1>0, <3>1 DEF TypeOK, Unmoved
    <3> QED
      BY <3>2, <3>3, <3>4, Others DEF IInv
  <2> QED
    BY <2>1, <2>2
<1>12. CASE Wait(t)
  <2>1. TypeOK' /\ (lock'.died => lock'.tid = NoTid)
    BY <1>0, <1>12 DEF TypeOK, Labels, LockOps, Kinds, Wait, MustWait, Goto
  <2>2. ThreadInv(t)'
    BY <1>0, <1>12 DEF TypeOK, ThreadInv, Outside, Taken, Leaving, Gone, OpOK, Announced,
        Acquiring, LockOps, Wait, MustWait, Goto
  <2>3. Unmoved(t)
    BY <1>0, <1>12 DEF TypeOK, Unmoved, Wait, MustWait, Goto
  <2> QED
    BY <2>1, <2>2, <2>3, Others DEF IInv
<1>13. CASE Interrupted(t)
  <2>1. TypeOK' /\ (lock'.died => lock'.tid = NoTid)
    BY <1>0, <1>13 DEF TypeOK, Labels, LockOps, Kinds, Interrupted, Goto
  <2>2. ThreadInv(t)'
    BY <1>0, <1>13 DEF TypeOK, ThreadInv, Outside, Taken, Leaving, Gone, OpOK, Announced,
        Acquiring, LockOps, Interrupted, Goto
  <2>3. Unmoved(t)
    BY <1>0, <1>13 DEF TypeOK, Unmoved, Interrupted, Goto
  <2> QED
    BY <2>1, <2>2, <2>3, Others DEF IInv
<1>14. CASE TimedOut(t)
  <2>1. TypeOK' /\ (lock'.died => lock'.tid = NoTid)
    BY <1>0, <1>14 DEF TypeOK, Labels, LockOps, Kinds, TimedOut, Goto, Done, Fail, SetPending
  <2>2. ThreadInv(t)'
    BY <1>0, <1>14 DEF TypeOK, ThreadInv, Outside, Taken, Leaving, Gone, OpOK, Announced,
        Acquiring, LockOps, TimedOut, Goto, Done, Fail, SetPending
  <2>3. Unmoved(t)
    BY <1>0, <1>14 DEF TypeOK, Unmoved, TimedOut, Goto, Done, Fail, SetPending
  <2> QED
    BY <2>1, <2>2, <2>3, Others DEF IInv
<1>15. CASE Check(t)
  <2>0. Goto(t, "reject") \/ Goto(t, "enqueue") \/ Goto(t, "try")
    BY <1>15 DEF Check
  <2>1. count' \in 0..UINT_MAX
    BY <1>0, <1>15 DEF TypeOK, Check
  <2>2. UNCHANGED <<shared, lock, owner, pending, enqueued, alive, op, oldval, assume, view>>
    BY <1>15 DEF Check
  <2>3. TypeOK'
    <3>1. CASE Goto(t, "reject")
      BY <1>0, <2>1, <2>2, <3>1 DEF TypeOK, Labels, shared, Goto
    <3>2. CASE Goto(t, "enqueue")
      BY <1>0, <2>1, <2>2, <3>2 DEF TypeOK, Labels, shared, Goto
    <3>3. CASE Goto(t, "try")
      BY <1>0, <2>1, <2>2, <3>3 DEF TypeOK, Labels, shared, Goto
    <3> QED
      BY <2>0, <3>1, <3>2, <3>3
  <2>4. lock'.died => lock'.tid = NoTid
    BY <1>0, <2>2
  <2>5. ThreadInv(t)'
    <3>1. pc[t] = "check"
      BY <1>15 DEF Check
    <3>2. CASE owner = NOTRECOVERABLE
      <4>1. pc'[t] = "reject" /\ owner # t
        BY <1>0, <1>15, <3>2 DEF Check, Goto, TypeOK
      <4> QED
        BY <1>0, <2>2, <3>1, <4>1 DEF ThreadInv, Outside, Taken, Leaving, Gone, OpOK,
            Announced, Acquiring, LockOps
    <3>3. CASE owner # NOTRECOVERABLE /\ oldval[t] = Free
      <4>1. pc'[t] = "enqueue"
        BY <1>0, <1>15, <3>3 DEF Check, Goto, TypeOK
      <4> QED
        BY ZenonT(60), <1>0, <2>2, <3>1, <3>3, <4>1 DEF ThreadInv, Outside, Taken, Leaving, Gone, OpOK,
            Announced, Acquiring, LockOps
    <3>4. CASE owner # NOTRECOVERABLE /\ oldval[t] # Free
      <4>1. pc'[t] = "try"
        BY <1>0, <1>15, <3>4 DEF Check, Goto, TypeOK
      <4> QED
        BY <1>0, <2>2, <3>1, <3>4, <4>1 DEF ThreadInv, Outside, Taken, Leaving, Gone, OpOK,
            Announced, Acquiring, LockOps
    <3> QED
      BY <3>2, <3>3, <3>4
  <2>6. Unmoved(t)
    BY <1>0, <1>15 DEF TypeOK, Unmoved, Check, Goto
  <2> QED
    BY <2>3, <2>4, <2>5, <2>6, Others DEF IInv
<1>16. CASE Reject(t)
  <2>0. \/ /\ op' = [op EXCEPT ![t] = "reject"] /\ Goto(t, "release")
           /\ UNCHANGED <<pending, oldval, assume, view>>
        \/ Fail(t)
    BY <1>16 DEF Reject
  <2>1. count' \in 0..UINT_MAX
    BY <1>0, <1>16 DEF TypeOK, Reject
  <2>2. UNCHANGED <<shared, lock, owner, enqueued, alive>>
    BY <1>16 DEF Reject
  <2>3. TypeOK'
    <3>1. CASE /\ op' = [op EXCEPT ![t] = "reject"] /\ Goto(t, "release")
               /\ UNCHANGED <<pending, oldval, assume, view>>
      BY <1>0, <2>1, <2>2, <3>1 DEF TypeOK, Labels, shared, Goto, Done, Fail, SetPending
    <3>2. CASE Fail(t)
      BY <1>0, <2>1, <2>2, <3>2 DEF TypeOK, Labels, shared, Goto, Done, Fail, SetPending
    <3> QED
      BY <2>0, <3>1, <3>2
  <2>4. lock'.died => lock'.tid = NoTid
    BY <1>0, <2>2
  <2>5. ThreadInv(t)'
    <3>1. CASE oldval[t] = Free
      <4>1. /\ lock.tid = t /\ view[t] = "out" /\ pending[t] /\ owner # t
        BY <1>0, <1>16, <3>1 DEF Reject, ThreadInv, Taken, Announced
      <4>2. /\ pc'[t] = "release" /\ op'[t] = "reject" /\ pending'[t] /\ view'[t] = "out"
            /\ lock'.tid = t /\ owner' # t
        BY <1>0, <1>16, <3>1, <4>1 DEF Reject, Goto, TypeOK
      <4> QED
        BY <4>2 DEF ThreadInv, Outside, Taken, Leaving, Gone, OpOK, Announced, Acquiring,
            LockOps
    <3>2. CASE oldval[t] # Free
      <4>1. /\ pc'[t] = "idle" /\ view'[t] = view[t] /\ lock'.tid = lock.tid
            /\ enqueued'[t] = enqueued[t] /\ alive'[t] = alive[t] /\ owner' = owner
        BY <1>0, <1>16, <3>2 DEF Reject, Fail, Done, Goto, TypeOK
      <4>2. Outside(t)
        BY <1>16, <3>2 DEF Reject, Outside
      <4> QED
        BY ZenonT(60), <1>0, <4>1, <4>2 DEF ThreadInv, Outside, Taken, Leaving, Gone, OpOK, Announced,
            Acquiring, LockOps
    <3> QED
      BY <3>1, <3>2
  <2>6. Unmoved(t)
    BY <1>0, <1>16 DEF TypeOK, Unmoved, Reject, Goto, Done, Fail, SetPending
  <2> QED
    BY <2>3, <2>4, <2>5, <2>6, Others DEF IInv
<1>17. CASE Enqueue(t)
  <2>1. TypeOK' /\ (lock'.died => lock'.tid = NoTid)
    BY <1>0, <1>17 DEF TypeOK, Labels, Enqueue, Goto
  <2>2. ThreadInv(t)'
    <3>1. lock.tid = t /\ view[t] = "out" /\ pending[t] /\ op[t] \in Acquiring
      BY ZenonT(60), <1>0, <1>17 DEF Enqueue, ThreadInv, Taken, Announced, OpOK
    <3>2. /\ pc'[t] = "clear" /\ enqueued'[t] /\ pending'[t] /\ op'[t] = op[t]
          /\ view'[t] = "out" /\ lock'.tid = t
      BY <1>0, <1>17, <3>1 DEF TypeOK, Enqueue, Goto
    <3> QED
      BY ONLY <3>1, <3>2 DEF ThreadInv, Outside, Taken, Leaving, Gone, OpOK, Announced,
          Acquiring, LockOps
  <2>3. Unmoved(t)
    BY <1>0, <1>17 DEF TypeOK, Unmoved, Enqueue, Goto
  <2> QED
    BY <2>1, <2>2, <2>3, Others DEF IInv
<1>18. CASE RecordOwner(t)
  <2>1. TypeOK' /\ (lock'.died => lock'.tid = NoTid)
    BY <1>0, <1>18 DEF TypeOK, Labels, RecordOwner, Goto, Done, Return
  <2>2. ThreadInv(t)'
    <3>1. lock.tid = t /\ enqueued[t]
      BY ZenonT(60), <1>0, <1>18 DEF RecordOwner, ThreadInv, Taken, OpOK, Acquiring
    <3>2. pc'[t] = "idle" /\ enqueued'[t] /\ lock'.tid = t
      BY <1>0, <1>18, <3>1 DEF TypeOK, RecordOwner, Goto, Done, Return
    <3> QED
      BY ONLY <3>1, <3>2 DEF ThreadInv, Outside, Taken, Leaving, Gone, OpOK, Announced,
          Acquiring, LockOps
  <2>3. Unmoved(t)
    BY <1>0, <1>18 DEF TypeOK, Unmoved, RecordOwner, Goto, Done, Return
  <2> QED
    BY <2>1, <2>2, <2>3, Others DEF IInv
<1>19. CASE Dequeue(t)
  <2>1. TypeOK' /\ (lock'.died => lock'.tid = NoTid)
    BY <1>0, <1>19 DEF TypeOK, Labels, Dequeue, Goto
  <2>2. ThreadInv(t)'
    <3>1. lock.tid = t /\ view[t] = "out" /\ pending[t] /\ op[t] \notin Acquiring
      BY <1>0, <1>19 DEF Dequeue, ThreadInv, Leaving, Announced, OpOK
    <3>2. /\ pc'[t] = "disown" /\ pending'[t] /\ op'[t] = op[t] /\ view'[t] = "out"
          /\ lock'.tid = t
      BY <1>0, <1>19, <3>1 DEF TypeOK, Dequeue, Goto
    <3> QED
      BY ONLY <3>1, <3>2 DEF ThreadInv, Outside, Taken, Leaving, Gone, OpOK, Announced,
          Acquiring, LockOps
  <2>3. Unmoved(t)
    BY <1>0, <1>19 DEF TypeOK, Unmoved, Dequeue, Goto
  <2> QED
    BY <2>1, <2>2, <2>3, Others DEF IInv
<1>20. CASE Disown(t)
  <2>1. TypeOK' /\ (lock'.died => lock'.tid = NoTid)
    BY <1>0, <1>20 DEF TypeOK, Labels, Disown, Goto, NewOwner
  <2>2. ThreadInv(t)'
    <3>1. lock.tid = t /\ view[t] = "out" /\ pending[t] /\ op[t] \notin Acquiring
      BY <1>0, <1>20 DEF Disown, ThreadInv, Leaving, Announced, OpOK
    <3>2. /\ pc'[t] = "release" /\ pending'[t] /\ op'[t] = op[t] /\ view'[t] = "out"
          /\ lock'.tid = t /\ owner' # t
      BY <1>0, <1>20, <3>1 DEF TypeOK, Disown, Goto, NewOwner
    <3> QED
      BY ONLY <3>1, <3>2 DEF ThreadInv, Outside, Taken, Leaving, Gone, OpOK, Announced,
          Acquiring, LockOps
  <2>3. Unmoved(t)
    BY <1>0, <1>20 DEF TypeOK, Unmoved, Disown, Goto, NewOwner
  <2> QED
    BY <2>1, <2>2, <2>3, Others DEF IInv
<1>21. CASE Release(t)
  <2>0. /\ lock' = Free /\ lock'.tid = NoTid /\ ~lock'.died /\ lock.tid = t
        /\ view[t] = "out" /\ owner # t /\ pending[t] /\ op[t] \notin Acquiring
    BY ZenonT(60), <1>0, <1>21 DEF Release, ThreadInv, Leaving, Announced, OpOK
  <2>1. TypeOK'
    BY <1>0, <1>21, <2>0 DEF TypeOK, Labels, Release, Goto
  <2>2. ThreadInv(t)'
    <3>1. /\ pc'[t] \in {"wake", "clear"} /\ pending'[t] /\ op'[t] = op[t]
          /\ view'[t] = "out" /\ owner' # t /\ lock'.tid # t
      BY <1>0, <1>21, <2>0 DEF TypeOK, Release, Goto
    <3> QED
      BY ONLY <2>0, <3>1 DEF ThreadInv, Outside, Taken, Leaving, Gone, OpOK, Announced,
          Acquiring, LockOps
  <2>3. \A u \in Threads \ {t} : lock.tid # u /\ lock'.tid # u
    BY ONLY <2>0, RobustAssumption
  <2>4. Unmoved(t)
    <3>1. \A u \in Threads \ {t} : pc'[u] = pc[u]
      BY <1>0, <1>21 DEF TypeOK, Release, Goto
    <3>2. UNCHANGED <<owner, pending, enqueued, alive, op, oldval, view>>
      BY ZenonT(60), <1>21 DEF Release
    <3> QED
      BY <2>3, <3>1, <3>2 DEF Unmoved
  <2> QED
    BY ZenonT(60), <2>0, <2>1, <2>2, <2>4, Others DEF IInv
<1>22. CASE Wake(t)
  <2>1. PICK W \in SUBSET Blocked :
          pc' = [u \in Threads |-> IF u \in W THEN "load" ELSE IF u = t THEN "clear" ELSE pc[u]]
    BY <1>22 DEF Wake, futex_wake
  <2>2. t \notin W /\ \A u \in W : u \in Threads /\ pc[u] = "blocked"
    BY <1>22 DEF Wake, Blocked
  <2>3. UNCHANGED <<shared, lock, owner, count, pending, enqueued, alive, op, oldval, assume, view>>
    BY <1>22 DEF Wake
  <2>4. pc' \in [Threads -> Labels]
    BY <1>0, <2>1 DEF TypeOK, Labels
  <2>5. TypeOK' /\ (lock'.died => lock'.tid = NoTid)
    BY <1>0, <2>3, <2>4 DEF TypeOK
  <2>6. ThreadInv(t)'
    <3>1. lock.tid # t /\ pending[t] /\ op[t] \notin Acquiring /\ view[t] = "out"
      BY ZenonT(60), <1>0, <1>22 DEF Wake, ThreadInv, Gone, Announced, OpOK
    <3>2. pc'[t] = "clear"
      BY ZenonT(60), <2>1, <2>2
    <3> QED
      BY ZenonT(60), <1>0, <2>3, <3>1, <3>2 DEF ThreadInv, Outside, Taken, Leaving, Gone, OpOK, Announced,
          Acquiring, LockOps
  <2>7. Unmoved(t)
    BY <2>1, <2>2, <2>3 DEF Unmoved
  <2> QED
    BY <2>5, <2>6, <2>7, Others DEF IInv
<1>23. CASE ClearPending(t)
  <2>0. /\ SetPending(t, FALSE)
        /\ \/ (Goto(t, "own") /\ UNCHANGED <<op, oldval, assume, view>>)
           \/ Return(t, "recover") \/ Return(t, "out")
    BY ZenonT(60), <1>23 DEF ClearPending
  <2>1. count' \in 0..UINT_MAX
    BY <1>0, <1>23 DEF TypeOK, ClearPending
  <2>2. UNCHANGED <<shared, lock, owner, count, enqueued, alive>>
    BY <1>23 DEF ClearPending
  <2>3. TypeOK'
    <3>1. CASE Goto(t, "own") /\ UNCHANGED <<op, oldval, assume, view>>
      BY <1>0, <2>0, <2>1, <2>2, <3>1 DEF TypeOK, Labels, shared, Goto, Done, Return, SetPending
    <3>2. CASE Return(t, "recover")
      BY <1>0, <2>0, <2>1, <2>2, <3>2 DEF TypeOK, Labels, shared, Goto, Done, Return, SetPending
    <3>3. CASE Return(t, "out")
      BY <1>0, <2>0, <2>1, <2>2, <3>3 DEF TypeOK, Labels, shared, Goto, Done, Return, SetPending
    <3> QED
      BY <2>0, <3>1, <3>2, <3>3
  <2>4. lock'.died => lock'.tid = NoTid
    BY ZenonT(60), <1>0, <2>2
  <2>5. ThreadInv(t)'
    BY <1>0, <1>23 DEF TypeOK, ThreadInv, Outside, Taken, Leaving, Gone, OpOK, Announced,
        Acquiring, LockOps, ClearPending, Goto, Done, Return, SetPending
  <2>6. Unmoved(t)
    BY <1>0, <1>23 DEF TypeOK, Unmoved, ClearPending, Goto, Done, Return, SetPending
  <2> QED
    BY <2>3, <2>4, <2>5, <2>6, Others DEF IInv
<1>24. CASE Die(t)
  <2>1. TypeOK' /\ (lock'.died => lock'.tid = NoTid)
    BY <1>0, <1>24 DEF TypeOK, Labels, LockOps, Kinds, Die
  <2>2. ThreadInv(t)'
    BY <1>0, <1>24 DEF TypeOK, ThreadInv, Outside, Taken, Leaving, Gone, OpOK, Announced,
        Acquiring, LockOps, Die
  <2>3. Unmoved(t)
    BY <1>0, <1>24 DEF TypeOK, Unmoved, Die
  <2> QED
    BY <2>1, <2>2, <2>3, Others DEF IInv
<1>25. CASE KernelExit(t)
  <2>1. /\ pending' = [pending EXCEPT ![t] = FALSE] /\ enqueued' = [enqueued EXCEPT ![t] = FALSE]
        /\ op' = [op EXCEPT ![t] = "none"] /\ oldval' = [oldval EXCEPT ![t] = Free]
        /\ assume' = [assume EXCEPT ![t] = FALSE] /\ view' = [view EXCEPT ![t] = "out"]
        /\ UNCHANGED <<kind, owner, count, alive>> /\ ~alive[t]
    BY ZenonT(60), <1>25 DEF KernelExit
  <2>2. dropped' \in BOOLEAN
    BY <1>25 DEF KernelExit
  <2>3. /\ pc' = [pc EXCEPT ![t] = "kwake"] \/ pc' = [pc EXCEPT ![t] = "dead"]
        /\ lock' = lock \/ (lock.tid = t /\ lock' = Word(NoTid, lock.waiters, TRUE))
    BY ZenonT(60), <1>25 DEF KernelExit, Goto
  <2>4. lock.tid = t => pending[t] \/ enqueued[t]
    <3>1. pc[t] \in Labels \ {"kwake", "dead"}
      BY <1>0, <1>25 DEF KernelExit, TypeOK
    <3> QED
      BY ONLY ZenonT(60), <1>0, <3>1 DEF Labels, ThreadInv, Outside, Gone, Announced
  <2>5. /\ lock' \in Words /\ lock'.tid # t
        /\ lock'.died => lock'.tid = NoTid
        /\ \A u \in Threads \ {t} : (lock'.tid = u) <=> (lock.tid = u)
    <3>1. CASE lock.tid = t
      <4>1. lock' = Word(NoTid, lock.waiters, TRUE) /\ lock.waiters \in BOOLEAN
        BY ZenonT(60), <1>0, <1>25, <2>4, <3>1 DEF KernelExit, TypeOK, Words
      <4>2. lock' \in Words /\ lock'.tid = NoTid
        BY ZenonT(60), <4>1
      <4> QED
        BY <3>1, <4>2
    <3>2. CASE lock.tid # t
      <4>1. lock' = lock
        BY ZenonT(60), <2>3, <3>2
      <4> QED
        BY <1>0, <3>2, <4>1 DEF TypeOK
    <3> QED
      BY <3>1, <3>2
  <2>6. TypeOK'
    <3>1. pc' \in [Threads -> Labels] /\ oldval' \in [Threads -> Words]
      BY ZenonT(60), <1>0, <2>1, <2>3 DEF TypeOK, Labels
    <3> QED
      BY <1>0, <2>1, <2>2, <2>5, <3>1 DEF TypeOK
  <2>7. ThreadInv(t)'
    <3>1. pc'[t] \in {"kwake", "dead"} /\ view'[t] = "out" /\ ~alive'[t]
      BY <1>0, <2>1, <2>3 DEF TypeOK
    <3> QED
      BY <2>5, <3>1 DEF ThreadInv, Outside, Taken, Leaving, Gone, OpOK, Announced
  <2>8. Unmoved(t)
    BY <1>0, <2>1, <2>3, <2>5 DEF TypeOK, Unmoved
  <2> QED
    BY ZenonT(60), <2>5, <2>6, <2>7, <2>8, Others DEF IInv
<1>26. CASE KernelWake(t)
  <2>1. PICK W \in SUBSET Blocked :
          pc' = [u \in Threads |-> IF u \in W THEN "load" ELSE IF u = t THEN "dead" ELSE pc[u]]
    BY <1>26 DEF KernelWake, futex_wake
  <2>2. t \notin W /\ \A u \in W : u \in Threads /\ pc[u] = "blocked"
    BY <1>26 DEF KernelWake, Blocked
  <2>3. UNCHANGED <<shared, lock, owner, count, pending, enqueued, alive, op, oldval, assume, view>>
    BY <1>26 DEF KernelWake
  <2>4. pc' \in [Threads -> Labels]
    BY <1>0, <2>1 DEF TypeOK, Labels
  <2>5. TypeOK' /\ (lock'.died => lock'.tid = NoTid)
    BY <1>0, <2>3, <2>4 DEF TypeOK
  <2>6. ThreadInv(t)'
    <3>1. lock.tid # t /\ view[t] = "out"
      BY ZenonT(60), <1>0, <1>26 DEF KernelWake, ThreadInv, Gone, Announced, OpOK
    <3>2. pc'[t] = "dead"
      BY ZenonT(60), <2>1, <2>2
    <3> QED
      BY ZenonT(60), <1>0, <2>3, <3>1, <3>2 DEF ThreadInv, Outside, Taken, Leaving, Gone, OpOK, Announced,
          Acquiring, LockOps
  <2>7. Unmoved(t)
    BY <2>1, <2>2, <2>3 DEF Unmoved
  <2> QED
    BY <2>5, <2>6, <2>7, Others DEF IInv
<1> QED
  BY <1>1, <1>2, <1>3, <1>4, <1>5, <1>6, <1>7, <1>8, <1>9, <1>10, <1>11, <1>12, <1>13, <1>14,
      <1>15, <1>16, <1>17, <1>18, <1>19, <1>20, <1>21, <1>22, <1>23, <1>24, <1>25,
      <1>26 DEF Call, Step

\* The kernel finds the mutex whenever a thread dies with its id in the word, and
\* at most one program has the mutex, for any number of threads and deaths.
THEOREM FoundAtDeathCorrect == Spec => []FoundAtDeath
<1>1. IInv => FoundAtDeath
  BY DEF IInv, TypeOK, Labels, ThreadInv, Outside, Gone, Announced, FoundAtDeath
<1>2. IInv /\ UNCHANGED vars => IInv'
  <2> SUFFICES ASSUME IInv, UNCHANGED vars
               PROVE  IInv'
    OBVIOUS
  <2>1. TypeOK' /\ (lock'.died => lock'.tid = NoTid)
    BY DEF vars, shared, IInv, TypeOK
  <2>2. ASSUME NEW t \in Threads
        PROVE  ThreadInv(t)'
    BY DEF vars, IInv, ThreadInv, Outside, Taken, Leaving, Gone, OpOK
  <2> QED
    BY <2>1, <2>2 DEF IInv
<1>3. IInv /\ [Next]_vars => IInv'
  BY <1>2, StepIInv DEF Next
<1> QED
  BY <1>1, <1>3, InitIInv, PTL DEF Spec
=============================================================================
