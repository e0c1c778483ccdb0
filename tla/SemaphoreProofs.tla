-------------------------- MODULE SemaphoreProofs --------------------------
(***************************************************************************)
(* Proofs about Semaphore for every finite set of threads and every        *)
(* SEM_VALUE_MAX: type correctness, the exactness of nwaiters, that no     *)
(* wake-up is lost, and that the calls implement CountingSemaphore.        *)
(***************************************************************************)
EXTENDS Semaphore, FiniteSetTheorems, TLAPS

USE SMTT(30), ZenonT(30)

\* Waking one thread of a nonempty set wakes exactly one.
LEMMA WakeOne ==
  ASSUME NEW S, S # {}, IsFiniteSet(S), NEW W \in futex_wake(S, 1)
  PROVE  \E u \in S : W = {u}
<1>1. W \in SUBSET S /\ IsFiniteSet(W) /\ Cardinality(W) \in Nat
  BY FS_Subset, FS_CardinalityType DEF futex_wake
<1>2. Cardinality(W) # 0 \/ W # S
  BY <1>1, FS_EmptySet
<1>3. Cardinality(W) = 1
  BY <1>1, <1>2 DEF futex_wake
<1>4. PICK u : W = {u}
  BY Zenon, <1>1, <1>3, FS_Singleton
<1> QED
  BY <1>1, <1>4

\* The threads that a control map f puts at a set of labels.
Where(S, f, labels) == {t \in S : f[t] \in labels}

\* 1 if label l is one of labels, else 0.
In(l, labels) == IF l \in labels THEN 1 ELSE 0

\* The threads at a set of labels are finitely many, so they can be counted.
LEMMA WhereFinite ==
  ASSUME NEW S, IsFiniteSet(S), NEW f, NEW labels
  PROVE  IsFiniteSet(Where(S, f, labels)) /\ Cardinality(Where(S, f, labels)) \in Nat
  BY FS_Subset, FS_CardinalityType DEF Where

\* The control map g is f after thread t has moved to l.
Moved(S, f, g, t, l) == DOMAIN f = S /\ g = [f EXCEPT ![t] = l]

\* How the number of threads at a set of labels changes when one thread moves.
LEMMA WhereMove ==
  ASSUME NEW S, IsFiniteSet(S), NEW f, NEW g, NEW t \in S, NEW l, Moved(S, f, g, t, l),
         NEW labels
  PROVE  Cardinality(Where(S, g, labels))
           = Cardinality(Where(S, f, labels)) + In(l, labels) - In(f[t], labels)
<1> DEFINE A == Where(S, f, labels)
           R == A \ {t}
           N == Where(S, g, labels)
<1> HIDE DEF A, R, N
<1>1. IsFiniteSet(A) /\ Cardinality(A) \in Nat
  BY WhereFinite DEF A
<1>2. IsFiniteSet(R) /\ Cardinality(R) \in Nat
  BY <1>1, FS_RemoveElement, FS_CardinalityType DEF R
<1>3. Cardinality(A) = Cardinality(R) + In(f[t], labels)
  <2>1. CASE f[t] \in labels
    <3>1. t \in A
      BY <2>1 DEF Where, A
    <3>2. Cardinality(R) = Cardinality(A) - 1
      BY Zenon, <3>1, <1>1, FS_RemoveElement DEF R
    <3> QED
      BY <3>2, <2>1, <1>1 DEF In
  <2>2. CASE f[t] \notin labels
    <3>1. R = A
      BY <2>2 DEF Where, A, R, N, Moved
    <3> QED
      BY <3>1, <2>2, <1>1 DEF In
  <2> QED
    BY <2>1, <2>2
<1>4. Cardinality(N) = Cardinality(R) + In(l, labels)
  <2>1. CASE l \in labels
    <3>1. N = R \cup {t}
      BY <2>1 DEF Where, A, R, N, Moved
    <3>2. t \notin R
      BY DEF R
    <3>3. Cardinality(R \cup {t}) = Cardinality(R) + 1
      BY Zenon, <3>2, <1>2, FS_AddElement
    <3> QED
      BY <3>1, <3>3, <2>1 DEF In
  <2>2. CASE l \notin labels
    <3>1. N = R
      BY <2>2 DEF Where, A, R, N, Moved
    <3> QED
      BY <3>1, <2>2, <1>2 DEF In
  <2> QED
    BY <2>1, <2>2
<1>5. Cardinality(N) = Cardinality(A) + In(l, labels)
                                      - In(f[t], labels)
  BY <1>1, <1>2, <1>3, <1>4 DEF In
<1> QED
  BY <1>5 DEF A, N

-----------------------------------------------------------------------------
\* The sets of labels behind Registered, Rechecking and Waking.
RegisteredLabels == {"futex", "blocked", "reload", "grab", "unregister", "cleanup"}
RecheckingLabels == {"reload", "grab"}

\* WhereMove for the sets that the invariants are about.
LEMMA Move ==
  ASSUME NEW t \in Threads, NEW l, TypeOK, pc' = [pc EXCEPT ![t] = l]
  PROVE  /\ Cardinality(Registered) \in Nat
         /\ Cardinality(Rechecking) \in Nat
         /\ Cardinality(Waking) \in Nat
         /\ Cardinality(Registered')
              = Cardinality(Registered) + In(l, RegisteredLabels)
                                        - In(pc[t], RegisteredLabels)
         /\ Cardinality(Rechecking')
              = Cardinality(Rechecking) + In(l, RecheckingLabels)
                                        - In(pc[t], RecheckingLabels)
         /\ Cardinality(Waking')
              = Cardinality(Waking) + In(l, {"postwake"})
                                    - In(pc[t], {"postwake"})
         /\ Blocked' # {} => Blocked # {} \/ l = "blocked"
<1>0. pc \in [Threads -> Labels]
  BY DEF TypeOK
<1>1. \A labels : Cardinality(Where(Threads, pc', labels))
                   = Cardinality(Where(Threads, pc, labels)) + In(l, labels) - In(pc[t], labels)
  <2>1. Moved(Threads, pc, pc', t, l)
    BY <1>0 DEF Moved
  <2> QED
    BY <2>1, SemaphoreAssumption, WhereMove
<1>2. \A labels : Cardinality(Where(Threads, pc, labels)) \in Nat
  BY SemaphoreAssumption, WhereFinite
<1>3. /\ Registered = Where(Threads, pc, RegisteredLabels)
      /\ Registered' = Where(Threads, pc', RegisteredLabels)
      /\ Rechecking = Where(Threads, pc, RecheckingLabels)
      /\ Rechecking' = Where(Threads, pc', RecheckingLabels)
      /\ Waking = Where(Threads, pc, {"postwake"})
      /\ Waking' = Where(Threads, pc', {"postwake"})
  BY DEF Registered, Rechecking, Waking, RegisteredLabels, RecheckingLabels, At, Where
<1>4. Blocked' # {} => Blocked # {} \/ l = "blocked"
  BY <1>0 DEF Blocked, At
<1>5. /\ Cardinality(Registered')
           = Cardinality(Registered) + In(l, RegisteredLabels) - In(pc[t], RegisteredLabels)
      /\ Cardinality(Rechecking')
           = Cardinality(Rechecking) + In(l, RecheckingLabels) - In(pc[t], RecheckingLabels)
      /\ Cardinality(Waking')
           = Cardinality(Waking) + In(l, {"postwake"}) - In(pc[t], {"postwake"})
  BY Zenon, <1>1, <1>3
<1>6. /\ Cardinality(Registered) \in Nat
      /\ Cardinality(Rechecking) \in Nat
      /\ Cardinality(Waking) \in Nat
  BY <1>2, <1>3
<1> QED
  BY <1>4, <1>5, <1>6

\* A registered thread is counted, so nwaiters can be decremented.
LEMMA RegisteredCounted ==
  ASSUME NEW t \in Threads, TypeOK, NwaitersExact, pc[t] \in RegisteredLabels
  PROVE  data.nwaiters >= 1
<1>1. t \in Registered
  BY DEF Registered, At, RegisteredLabels
<1>2. IsFiniteSet(Registered) /\ Cardinality(Registered) \in Nat
  BY SemaphoreAssumption, FS_Subset, FS_CardinalityType DEF Registered, At
<1>3. Cardinality(Registered \ {t}) = Cardinality(Registered) - 1
  BY Zenon, <1>1, <1>2, FS_RemoveElement
<1>4. Cardinality(Registered \ {t}) \in Nat
  BY <1>2, FS_RemoveElement, FS_CardinalityType
<1> QED
  BY <1>2, <1>3, <1>4 DEF NwaitersExact

\* A blocked thread is registered, so a poster that sees no waiters wakes nobody.
LEMMA BlockedCounted ==
  ASSUME TypeOK, NwaitersExact, Blocked # {}
  PROVE  data.nwaiters >= 1
<1>1. PICK t \in Threads : pc[t] = "blocked"
  BY DEF Blocked, At
<1> QED
  BY <1>1, RegisteredCounted DEF RegisteredLabels

-----------------------------------------------------------------------------
\* The inductive invariant holds of a freshly initialised semaphore.
LEMMA InitIInv == Init => IInv
<1> SUFFICES ASSUME Init PROVE IInv
  OBVIOUS
<1>1. TypeOK /\ SnapshotOK
  BY SemaphoreAssumption DEF Init, TypeOK, SnapshotOK, Labels, Word, Zero
<1>2. Registered = {} /\ Blocked = {}
  BY DEF Init, Registered, Blocked, At
<1>3. Cardinality(Registered) = 0
  BY <1>2, FS_EmptySet
<1> QED
  BY <1>1, <1>2, <1>3 DEF Init, IInv, NwaitersExact, NoLostWakeup

\* A step in which only thread t moves, to label l with locals c and s, and
\* what it must do to sem->data.
Moves(t, l, c, s) ==
  /\ l \in Labels /\ c \in Calls \cup {"none"} /\ s \in Word
  /\ l \in {"fastcas", "grab"} => s.value > 0
  /\ l = "postcas" => s.value < SEM_VALUE_MAX
  /\ pc' = [pc EXCEPT ![t] = l]
  /\ call' = [call EXCEPT ![t] = c]
  /\ d' = [d EXCEPT ![t] = s]
  /\ data' \in Word
  /\ data'.nwaiters = data.nwaiters + In(l, RegisteredLabels) - In(pc[t], RegisteredLabels)
  /\ l = "blocked" => data'.value = 0
  /\ Blocked # {} =>
       \/ data'.value = 0
       \/ data'.value <= data.value + In(l, RecheckingLabels) - In(pc[t], RecheckingLabels)
                                    + In(l, {"postwake"}) - In(pc[t], {"postwake"})

\* Such a step preserves the inductive invariant.
LEMMA StepOfOne ==
  ASSUME NEW t \in Threads, NEW l, NEW c, NEW s, IInv, Moves(t, l, c, s)
  PROVE  IInv'
<1>0. TypeOK' /\ SnapshotOK'
  BY DEF IInv, TypeOK, SnapshotOK, Moves
<1>1. NwaitersExact'
  BY Zenon, Move DEF IInv, NwaitersExact, Moves
<1>2. NoLostWakeup'
  <2> SUFFICES ASSUME Blocked' # {}
               PROVE  data'.value <= Cardinality(Rechecking') + Cardinality(Waking')
    BY DEF NoLostWakeup
  <2>0. /\ Cardinality(Rechecking') \in Nat
        /\ Cardinality(Waking') \in Nat
    BY SemaphoreAssumption, FS_Subset, FS_CardinalityType DEF Rechecking, Waking, At
  <2>1. CASE data'.value = 0
    BY <2>0, <2>1
  <2>2. CASE data'.value # 0
    <3>1. Blocked # {}
      BY Zenon, <2>2, Move DEF IInv, Moves
    <3>2. data.value <= Cardinality(Rechecking) + Cardinality(Waking)
      BY <3>1 DEF IInv, NoLostWakeup
    <3>3. data.value \in Int /\ data'.value \in Int
      BY <1>0 DEF IInv, TypeOK, Word
    <3>4. /\ Cardinality(Rechecking) \in Nat
          /\ Cardinality(Waking) \in Nat
          /\ Cardinality(Rechecking')
               = Cardinality(Rechecking) + In(l, RecheckingLabels)
                                         - In(pc[t], RecheckingLabels)
          /\ Cardinality(Waking')
               = Cardinality(Waking) + In(l, {"postwake"})
                                     - In(pc[t], {"postwake"})
      BY Zenon, Move DEF IInv, Moves
    <3> QED
      BY <2>0, <2>2, <3>1, <3>2, <3>3, <3>4 DEF Moves, In
  <2> QED
    BY <2>1, <2>2
<1> QED
  BY <1>0, <1>1, <1>2 DEF IInv


\* Every step preserves the inductive invariant.
LEMMA NextIInv == IInv /\ [Next]_vars => IInv'
<1> SUFFICES ASSUME IInv, [Next]_vars PROVE IInv'
  OBVIOUS
<1> USE SemaphoreAssumption
<1>0. TypeOK /\ SnapshotOK /\ NwaitersExact
  BY DEF IInv
<1>1. CASE UNCHANGED vars
  BY <1>1 DEF vars, IInv, TypeOK, SnapshotOK, NwaitersExact, NoLostWakeup,
              Registered, Blocked, Rechecking, Waking, At
<1>2. ASSUME NEW t \in Threads, Step(t) \/ Event(t) PROVE IInv'
  <2>1. CASE Invoke(t)
    <3>1. PICK c \in Calls : call' = [call EXCEPT ![t] = c]
      BY Zenon, <2>1 DEF Invoke
    <3>2. Moves(t, "load", c, d[t])
      BY <1>0, <2>1, <3>1
      DEF Moves, TypeOK, SnapshotOK, Word, Labels, RegisteredLabels, RecheckingLabels, In, Invoke, Goto
    <3> QED
      BY <3>2, StepOfOne
  <2>2. CASE InvalidTime(t)
    <3>1. Moves(t, "idle", "none", Zero)
      BY <1>0, <2>2
      DEF Moves, TypeOK, SnapshotOK, Word, Labels, RegisteredLabels, RecheckingLabels, In, InvalidTime, Return, Goto, Zero
    <3> QED
      BY <3>1, StepOfOne
  <2>3. CASE SpuriousWakeup(t)
    <3>1. Moves(t, "reload", call[t], d[t])
      BY <1>0, <2>3
      DEF Moves, TypeOK, SnapshotOK, Word, Labels, RegisteredLabels, RecheckingLabels, In, SpuriousWakeup, Goto
    <3> QED
      BY <3>1, StepOfOne
  <2>4. CASE WaitFails(t)
    <3>1. Moves(t, "unregister", call[t], d[t])
      BY <1>0, <2>4
      DEF Moves, TypeOK, SnapshotOK, Word, Labels, RegisteredLabels, RecheckingLabels, In, WaitFails, Goto
    <3> QED
      BY <3>1, StepOfOne
  <2>5. CASE Testcancel(t)
    <3>1. Moves(t, "exited", "none", Zero)
      BY <1>0, <2>5
      DEF Moves, TypeOK, SnapshotOK, Word, Labels, RegisteredLabels, RecheckingLabels, In, Testcancel, Exit, Goto, Zero
    <3> QED
      BY <3>1, StepOfOne
  <2>6. CASE WaitFastCAS(t)
    <3>1. Moves(t, "idle", "none", Zero)
      BY <1>0, <2>6
      DEF Moves, TypeOK, SnapshotOK, Word, Labels, RegisteredLabels, RecheckingLabels, In, WaitFastCAS, Return, Goto, Zero
    <3> QED
      BY <3>1, StepOfOne
  <2>7. CASE WaitCanceled(t)
    <3>1. Moves(t, "cleanup", call[t], d[t])
      BY <1>0, <2>7
      DEF Moves, TypeOK, SnapshotOK, Word, Labels, RegisteredLabels, RecheckingLabels, In, WaitCanceled, Goto
    <3> QED
      BY <3>1, StepOfOne
  <2>8. CASE Unregister(t)
    <3>1. Moves(t, "idle", "none", Zero)
      BY <1>0, <2>8, RegisteredCounted
      DEF Moves, TypeOK, SnapshotOK, Word, Labels, RegisteredLabels, RecheckingLabels, In, Unregister, Return, Goto, Zero
    <3> QED
      BY <3>1, StepOfOne
  <2>9. CASE WaitCleanup(t)
    <3>1. Moves(t, "exited", "none", Zero)
      BY <1>0, <2>9, RegisteredCounted
      DEF Moves, TypeOK, SnapshotOK, Word, Labels, RegisteredLabels, RecheckingLabels, In, WaitCleanup, Exit, Goto, Zero
    <3> QED
      BY <3>1, StepOfOne
  <2>11. CASE WaitFastLoad(t)
    <3>1. CASE data.value > 0
      <4>1. Moves(t, "fastcas", call[t], data)
        BY <1>0, <2>11, <3>1
        DEF Moves, TypeOK, SnapshotOK, Word, Labels, RegisteredLabels, RecheckingLabels, In, WaitFastLoad, Load, Goto
      <4> QED
        BY <4>1, StepOfOne
    <3>2. CASE ~(data.value > 0) /\ call[t] = "trywait"
      <4>1. Moves(t, "idle", "none", Zero)
        BY <1>0, <2>11, <3>2
        DEF Moves, TypeOK, SnapshotOK, Word, Labels, RegisteredLabels, RecheckingLabels, In, WaitFastLoad, Return, Goto, Zero
      <4> QED
        BY <4>1, StepOfOne
    <3>3. CASE ~(data.value > 0) /\ call[t] # "trywait"
      <4>1. Moves(t, "register", call[t], d[t])
        BY <1>0, <2>11, <3>3
        DEF Moves, TypeOK, SnapshotOK, Word, Labels, RegisteredLabels, RecheckingLabels, In, WaitFastLoad, Goto
      <4> QED
        BY <4>1, StepOfOne
    <3> QED
      BY <3>1, <3>2, <3>3
  <2>12. CASE WaitFastCASFails(t)
    <3>1. CASE call[t] = "trywait" /\ data.value > 0
      <4>1. Moves(t, "fastcas", call[t], data)
        BY <1>0, <2>12, <3>1
        DEF Moves, TypeOK, SnapshotOK, Word, Labels, RegisteredLabels, RecheckingLabels, In, WaitFastCASFails, Load
      <4> QED
        BY <4>1, StepOfOne
    <3>2. CASE call[t] = "trywait" /\ ~(data.value > 0)
      <4>1. Moves(t, "idle", "none", Zero)
        BY <1>0, <2>12, <3>2
        DEF Moves, TypeOK, SnapshotOK, Word, Labels, RegisteredLabels, RecheckingLabels, In, WaitFastCASFails, Return, Goto, Zero
      <4> QED
        BY <4>1, StepOfOne
    <3>3. CASE call[t] # "trywait"
      <4>1. Moves(t, "register", call[t], Zero)
        BY <1>0, <2>12, <3>3
        DEF Moves, TypeOK, SnapshotOK, Word, Labels, RegisteredLabels, RecheckingLabels, In, WaitFastCASFails, Goto, Zero
      <4> QED
        BY <4>1, StepOfOne
    <3> QED
      BY <3>1, <3>2, <3>3
  <2>13. CASE Register(t)
    <3>1. CASE data.value = 0
      <4>1. Moves(t, "futex", call[t], Zero)
        BY <1>0, <2>13, <3>1
        DEF Moves, TypeOK, SnapshotOK, Word, Labels, RegisteredLabels, RecheckingLabels, In, Register, SlowLoop, Goto, Zero
      <4> QED
        BY <4>1, StepOfOne
    <3>2. CASE data.value # 0
      <4>1. Moves(t, "grab", call[t], data)
        BY <1>0, <2>13, <3>2
        DEF Moves, TypeOK, SnapshotOK, Word, Labels, RegisteredLabels, RecheckingLabels, In, Register, SlowLoop, Load, Goto
      <4> QED
        BY <4>1, StepOfOne
    <3> QED
      BY <3>1, <3>2
  <2>14. CASE FutexWait(t)
    <3>1. CASE data.value = 0
      <4>1. Moves(t, "blocked", call[t], d[t])
        BY <1>0, <2>14, <3>1
        DEF Moves, TypeOK, SnapshotOK, Word, Labels, RegisteredLabels, RecheckingLabels, In, FutexWait, Goto
      <4> QED
        BY <4>1, StepOfOne
    <3>2. CASE data.value # 0
      <4>1. Moves(t, "reload", call[t], d[t])
        BY <1>0, <2>14, <3>2
        DEF Moves, TypeOK, SnapshotOK, Word, Labels, RegisteredLabels, RecheckingLabels, In, FutexWait, Goto
      <4> QED
        BY <4>1, StepOfOne
    <3> QED
      BY <3>1, <3>2
  <2>15. CASE Reload(t)
    <3>1. CASE data.value = 0
      <4>1. Moves(t, "futex", call[t], Zero)
        BY <1>0, <2>15, <3>1
        DEF Moves, TypeOK, SnapshotOK, Word, Labels, RegisteredLabels, RecheckingLabels, In, Reload, SlowLoop, Goto, Zero
      <4> QED
        BY <4>1, StepOfOne
    <3>2. CASE data.value # 0
      <4>1. Moves(t, "grab", call[t], data)
        BY <1>0, <2>15, <3>2
        DEF Moves, TypeOK, SnapshotOK, Word, Labels, RegisteredLabels, RecheckingLabels, In, Reload, SlowLoop, Load, Goto
      <4> QED
        BY <4>1, StepOfOne
    <3> QED
      BY <3>1, <3>2
  <2>16. CASE Grab(t)
    <3>1. CASE data = d[t]
      <4>1. Moves(t, "idle", "none", Zero)
        BY <1>0, <2>16, <3>1, RegisteredCounted
        DEF Moves, TypeOK, SnapshotOK, Word, Labels, RegisteredLabels, RecheckingLabels, In, Grab, Grabbed, Return, Goto, Zero
      <4> QED
        BY <4>1, StepOfOne
    <3>2. CASE data # d[t] /\ data.value = 0
      <4>1. Moves(t, "futex", call[t], Zero)
        BY <1>0, <2>16, <3>2
        DEF Moves, TypeOK, SnapshotOK, Word, Labels, RegisteredLabels, RecheckingLabels, In, Grab, SlowLoop, Goto, Zero
      <4> QED
        BY <4>1, StepOfOne
    <3>3. CASE data # d[t] /\ data.value # 0
      <4>1. Moves(t, "grab", call[t], data)
        BY <1>0, <2>16, <3>3
        DEF Moves, TypeOK, SnapshotOK, Word, Labels, RegisteredLabels, RecheckingLabels, In, Grab, SlowLoop, Load, Goto
      <4> QED
        BY <4>1, StepOfOne
    <3> QED
      BY <3>1, <3>2, <3>3
  <2>17. CASE PostLoad(t)
    <3>1. CASE PostFull(data)
      <4>1. Moves(t, "idle", "none", Zero)
        BY <1>0, <2>17, <3>1
        DEF Moves, TypeOK, SnapshotOK, Word, Labels, RegisteredLabels, RecheckingLabels, In, PostLoad, Return, Goto, PostFull, Zero
      <4> QED
        BY <4>1, StepOfOne
    <3>2. CASE ~PostFull(data)
      <4>1. Moves(t, "postcas", call[t], data)
        <5>1. Load(t) /\ Goto(t, "postcas") /\ UNCHANGED <<call, data>>
          BY <2>17, <3>2 DEF PostLoad
        <5>2. data.value < SEM_VALUE_MAX /\ pc[t] = "load"
          BY <1>0, <2>17, <3>2 DEF PostLoad, PostFull, TypeOK, Word
        <5> QED
          BY <1>0, <5>1, <5>2
          DEF Moves, TypeOK, Word, Labels, RegisteredLabels, RecheckingLabels, In, Load, Goto
      <4> QED
        BY <4>1, StepOfOne
    <3> QED
      BY <3>1, <3>2
  <2>18. CASE PostCAS(t)
    <3>1. CASE data = d[t] /\ MustWake(data)
      <4>1. Moves(t, "postwake", call[t], Zero)
        BY <1>0, <2>18, <3>1
        DEF Moves, TypeOK, SnapshotOK, Word, Labels, RegisteredLabels, RecheckingLabels, In, PostCAS, Goto, PostFull, MustWake, Zero
      <4> QED
        BY <4>1, StepOfOne
    <3>2. CASE data = d[t] /\ ~MustWake(data)
      <4>1. Moves(t, "idle", "none", Zero)
        BY <1>0, <2>18, <3>2, BlockedCounted
        DEF Moves, TypeOK, SnapshotOK, Word, Labels, RegisteredLabels, RecheckingLabels, In, PostCAS, Return, Goto, PostFull, MustWake, Zero
      <4> QED
        BY <4>1, StepOfOne
    <3>3. CASE data # d[t] /\ PostFull(data)
      <4>1. Moves(t, "idle", "none", Zero)
        BY <1>0, <2>18, <3>3
        DEF Moves, TypeOK, SnapshotOK, Word, Labels, RegisteredLabels, RecheckingLabels, In, PostCAS, Return, Goto, PostFull, Zero
      <4> QED
        BY <4>1, StepOfOne
    <3>4. CASE data # d[t] /\ ~PostFull(data)
      <4>1. Moves(t, "postcas", call[t], data)
        <5>1. Load(t) /\ UNCHANGED <<pc, call, data>>
          BY <2>18, <3>4 DEF PostCAS
        <5>2. data.value < SEM_VALUE_MAX /\ pc[t] = "postcas"
          BY <1>0, <2>18, <3>4 DEF PostCAS, PostFull, TypeOK, Word
        <5>3. pc' = [pc EXCEPT ![t] = "postcas"] /\ call' = [call EXCEPT ![t] = call[t]]
          BY <1>0, <5>1, <5>2 DEF TypeOK
        <5>4. data \in Word /\ data.value \in Nat /\ data.nwaiters \in Nat
          BY <1>0 DEF TypeOK, Word
        <5>5. call[t] \in Calls \cup {"none"}
          BY <1>0 DEF TypeOK
        <5>6. data' = data /\ d' = [d EXCEPT ![t] = data]
          BY <5>1 DEF Load
        <5>7. /\ In("postcas", RegisteredLabels) = 0
              /\ In("postcas", RecheckingLabels) = 0
              /\ In("postcas", {"postwake"}) = 0
          BY DEF In, RegisteredLabels, RecheckingLabels
        <5>8. /\ data.nwaiters = data.nwaiters + 0 - 0
              /\ data.value <= data.value + 0 - 0 + 0 - 0
          BY <5>4
        <5> QED
          BY <5>2, <5>3, <5>4, <5>5, <5>6, <5>7, <5>8 DEF Moves, Labels
      <4> QED
        BY <4>1, StepOfOne
    <3> QED
      BY <3>1, <3>2, <3>3, <3>4
  <2>19. CASE PostWake(t)
    <3>1. PICK W \in futex_wake(Blocked, 1) :
            pc' = [u \in Threads |-> IF u = t THEN "idle"
                                     ELSE IF u \in W THEN "reload" ELSE pc[u]]
      BY <2>19 DEF PostWake
    <3>2. TypeOK' /\ SnapshotOK'
      <4>1. /\ call' = [call EXCEPT ![t] = "none"]
            /\ d' = [d EXCEPT ![t] = Zero]
            /\ UNCHANGED data
        BY <2>19 DEF PostWake
      <4> QED
        BY <1>0, <3>1, <4>1 DEF TypeOK, SnapshotOK, Labels, Word, Zero
    <3>3. CASE Blocked = {}
      <4>1. \A u : u \notin W
        BY <3>1, <3>3 DEF futex_wake
      <4>2. pc' = [pc EXCEPT ![t] = "idle"]
        <5>1. \A u \in Threads : pc'[u] = IF u = t THEN "idle" ELSE pc[u]
          BY <3>1, <4>1
        <5>2. pc \in [Threads -> Labels] /\ pc' \in [Threads -> Labels]
          BY <1>0, <3>2 DEF TypeOK
        <5> QED
          BY <5>1, <5>2
      <4>3. Moves(t, "idle", "none", Zero)
        <5>1. /\ pc[t] = "postwake"
              /\ call' = [call EXCEPT ![t] = "none"]
              /\ d' = [d EXCEPT ![t] = Zero]
              /\ UNCHANGED data
          BY <2>19 DEF PostWake
        <5> QED
          BY <1>0, <3>3, <4>2, <5>1
          DEF Moves, TypeOK, Word, Zero, Labels, RegisteredLabels, RecheckingLabels, In
      <4> QED
        BY <4>3, StepOfOne
    <3>4. CASE Blocked # {}
      <4>1. PICK u \in Blocked : W = {u}
        <5>1. IsFiniteSet(Blocked)
          BY SemaphoreAssumption, FS_Subset DEF Blocked, At
        <5> QED
          BY <5>1, <3>1, <3>4, WakeOne
      <4>2. u \in Threads /\ pc[u] = "blocked" /\ u # t
        BY <4>1, <2>19 DEF Blocked, At, PostWake
      <4> DEFINE returned == [pc EXCEPT ![t] = "idle"]
           woken == [returned EXCEPT ![u] = "reload"]
      <4>3. returned \in [Threads -> Labels] /\ pc \in [Threads -> Labels]
        BY <1>0 DEF TypeOK, Labels
      <4>4. pc' = woken /\ returned[u] = "blocked"
        BY Zenon, <1>0, <3>1, <4>1, <4>2 DEF TypeOK
      <4>5. /\ Moved(Threads, returned, woken, u, "reload")
            /\ Moved(Threads, pc, returned, t, "idle")
        BY <4>3 DEF Moved
      <4>6. pc[t] = "postwake"
        BY <2>19 DEF PostWake
      <4> HIDE DEF returned, woken
      <4>7. \A labels : Cardinality(Where(Threads, woken, labels))
                         = Cardinality(Where(Threads, returned, labels))
                             + In("reload", labels)
                             - In("blocked", labels)
        BY <4>2, <4>3, <4>4, <4>5, SemaphoreAssumption, WhereMove
      <4>8. \A labels : Cardinality(Where(Threads, returned, labels))
                         = Cardinality(Where(Threads, pc, labels))
                             + In("idle", labels)
                             - In("postwake", labels)
        BY <4>3, <4>5, <4>6, SemaphoreAssumption, WhereMove
      <4>9. \A labels : Cardinality(Where(Threads, pc, labels)) \in Nat
        BY SemaphoreAssumption, WhereFinite
      <4>10. /\ Registered = Where(Threads, pc, RegisteredLabels)
            /\ Registered' = Where(Threads, pc', RegisteredLabels)
            /\ Rechecking = Where(Threads, pc, RecheckingLabels)
            /\ Rechecking' = Where(Threads, pc', RecheckingLabels)
            /\ Waking = Where(Threads, pc, {"postwake"})
            /\ Waking' = Where(Threads, pc', {"postwake"})
        BY DEF Registered, Rechecking, Waking, RegisteredLabels, RecheckingLabels, At, Where
      <4>11. Cardinality(Registered') = Cardinality(Registered)
        BY <4>4, <4>7, <4>8, <4>9, <4>10 DEF RegisteredLabels, In
      <4>12. Cardinality(Rechecking') = Cardinality(Rechecking) + 1
        BY <4>4, <4>7, <4>8, <4>9, <4>10 DEF RecheckingLabels, In
      <4>13. Cardinality(Waking') = Cardinality(Waking) - 1
        BY <4>4, <4>7, <4>8, <4>9, <4>10 DEF In
      <4>14. Cardinality(Rechecking) \in Nat /\ Cardinality(Waking) \in Nat
        BY <4>9, <4>10
      <4>15. data' = data /\ data.value \in Nat
        BY <1>0, <2>19 DEF PostWake, TypeOK, Word
      <4> QED
        BY <3>2, <3>4, <4>11, <4>12, <4>13, <4>14, <4>15 DEF IInv, NwaitersExact, NoLostWakeup
    <3> QED
      BY <3>3, <3>4
  <2> QED
    BY <1>2, <2>1, <2>2, <2>3, <2>4, <2>5, <2>6, <2>7, <2>8, <2>9, <2>11, <2>12,
       <2>13, <2>14, <2>15, <2>16, <2>17, <2>18, <2>19 DEF Step, Event
<1> QED
  BY <1>1, <1>2 DEF Next

\* Type correctness of the semaphore: in particular the token count stays
\* between 0 and SEM_VALUE_MAX and nwaiters never becomes negative, although
\* they share one word that every thread updates.
THEOREM TypeCorrect == Spec => []TypeOK
<1>1. IInv => TypeOK
  BY DEF IInv
<1> QED
  BY <1>1, InitIInv, NextIInv, PTL DEF Spec

\* Every registered waiter of __new_sem_wait_slow64 is counted exactly once.
THEOREM NwaitersCorrect == Spec => []NwaitersExact
<1>1. IInv => NwaitersExact
  BY DEF IInv
<1> QED
  BY <1>1, InitIInv, NextIInv, PTL DEF Spec

\* No wake-up is lost between sem_post and a thread blocked in sem_wait.
THEOREM NoLostWakeupCorrect == Spec => []NoLostWakeup
<1>1. IInv => NoLostWakeup
  BY DEF IInv
<1> QED
  BY <1>1, InitIInv, NextIInv, PTL DEF Spec

-----------------------------------------------------------------------------
\* Which function a thread can be in at each of its accesses.
WaitLabels == {"register"} \cup RegisteredLabels

CallOK ==
  \A t \in Threads :
    /\ pc[t] = "load" => call[t] \in Calls
    /\ pc[t] = "fastcas" => call[t] \in WaitCalls \cup {"trywait"}
    /\ pc[t] \in WaitLabels => call[t] \in WaitCalls
    /\ pc[t] = "postcas" => call[t] = "post"

RInv == IInv /\ CallOK

\* Only thread t moves.
Local(t) == \A u \in Threads \ {t} : pc'[u] = pc[u] /\ call'[u] = call[u]

\* Apart from the threads it wakes, every step moves one thread, to an access of
\* the function that it is in.
LEMMA NextCallOK == TypeOK /\ CallOK /\ [Next]_vars => CallOK'
<1> SUFFICES ASSUME TypeOK, CallOK, [Next]_vars PROVE CallOK'
  OBVIOUS
<1> USE DEF TypeOK, CallOK, WaitLabels, RegisteredLabels, Calls, WaitCalls, TimedCalls,
            CancelPoints, Goto, Return, Exit, Load
<1>1. CASE UNCHANGED vars
  BY <1>1 DEF vars
<1>2. ASSUME NEW t \in Threads, Event(t) PROVE CallOK'
  BY <1>2 DEF Event, Invoke, InvalidTime, SpuriousWakeup, WaitFails
<1>3. ASSUME NEW t \in Threads, Step(t) PROVE CallOK'
  <2>1. CASE Testcancel(t) \/ WaitFastLoad(t) \/ WaitFastCAS(t) \/ WaitFastCASFails(t)
    BY <2>1 DEF Testcancel, WaitFastLoad, WaitFastCAS, WaitFastCASFails
  <2>2. CASE Register(t) \/ FutexWait(t) \/ WaitCanceled(t) \/ Reload(t)
    BY <2>2 DEF Register, FutexWait, WaitCanceled, Reload, SlowLoop
  <2>3. CASE Grab(t) \/ Unregister(t) \/ WaitCleanup(t)
    BY <2>3 DEF Grab, Unregister, WaitCleanup, SlowLoop
  <2>4. CASE PostLoad(t) \/ PostCAS(t)
    BY <2>4 DEF PostLoad, PostCAS
  <2>5. CASE PostWake(t)
    <3>1. PICK W \in SUBSET Blocked :
            pc' = [u \in Threads |-> IF u = t THEN "idle"
                                     ELSE IF u \in W THEN "reload" ELSE pc[u]]
      BY <2>5 DEF PostWake, futex_wake
    <3> QED
      BY <2>5, <3>1 DEF PostWake, Blocked, At
  <2> QED
    BY <1>3, <2>1, <2>2, <2>3, <2>4, <2>5 DEF Step
<1> QED
  BY <1>1, <1>2, <1>3 DEF Next

\* Every step of the semaphore is a step of the counting semaphore or leaves
\* its tokens and its pending calls alone.
LEMMA NextRefines ==
  ASSUME RInv, [Next]_vars
  PROVE  [Abstract!Next]_(Abstract!vars)
<1>0. TypeOK /\ SnapshotOK /\ CallOK
  BY DEF RInv, IInv
<1>1. data.value \in 0..SEM_VALUE_MAX /\ DOMAIN data = {"value", "nwaiters"}
  BY <1>0 DEF TypeOK, Word
<1> DEFINE op == [u \in Threads |-> PendingOp(u)]
           Stutter == data'.value = data.value /\ op' = op
<1>2. Stutter => UNCHANGED Abstract!vars
  BY DEF Abstract!vars
<1>3. \A t \in Threads : Local(t) => op' = [op EXCEPT ![t] = PendingOp(t)']
  BY Zenon DEF Local, PendingOp
<1>4. \A t \in Threads : op[t] = PendingOp(t)
  OBVIOUS
<1> HIDE DEF op
<1>5. CASE UNCHANGED vars
  BY <1>2, <1>5 DEF vars, op, PendingOp
\* The ways in which a call ends.
<1>6. ASSUME NEW t \in Threads, Local(t), PendingOp(t)' = "none",
             \/ /\ PendingOp(t) \in {"wait", "trywait"}
                /\ data.value > 0 /\ data'.value = data.value - 1
             \/ PendingOp(t) = "wait" /\ data'.value = data.value
             \/ PendingOp(t) = "trywait" /\ data.value = 0 /\ data'.value = data.value
             \/ /\ PendingOp(t) = "post"
                /\ data.value < SEM_VALUE_MAX /\ data'.value = data.value + 1
             \/ PendingOp(t) = "post" /\ data.value = SEM_VALUE_MAX /\ data'.value = data.value
      PROVE  Abstract!Next
  <2>1. op' = [op EXCEPT ![t] = "none"] /\ op[t] = PendingOp(t)
    BY <1>3, <1>4, <1>6
  <2>2. \/ Abstract!TakeToken(t) \/ Abstract!GiveUp(t) \/ Abstract!TryFails(t)
        \/ Abstract!AddToken(t) \/ Abstract!PostOverflows(t)
    BY <1>6, <2>1 DEF Abstract!TakeToken, Abstract!GiveUp, Abstract!TryFails, Abstract!AddToken,
                      Abstract!PostOverflows, Abstract!Finish, Abstract!Blocking, op
  <2> QED
    BY <2>2 DEF Abstract!Next
<1>7. ASSUME NEW t \in Threads, Local(t), PendingOp(t)' = PendingOp(t), data'.value = data.value
      PROVE  Stutter
  BY Zenon, <1>3, <1>7 DEF op
<1>8. ASSUME NEW t \in Threads, Invoke(t) PROVE Abstract!Next
  <2>1. PICK c \in Calls : call' = [call EXCEPT ![t] = c]
    BY Zenon, <1>8 DEF Invoke
  <2>2. Local(t) /\ PendingOp(t) = "none" /\ PendingOp(t)' \in Abstract!Ops
    BY <1>0, <1>8, <2>1 DEF Invoke, Goto, Local, PendingOp, TypeOK, Calls, WaitCalls,
                            Abstract!Ops, Abstract!Blocking
  <2>3. op[t] = "none" /\ op' = [op EXCEPT ![t] = PendingOp(t)'] /\ data'.value = data.value
    BY <1>3, <1>4, <1>8, <2>2 DEF Invoke
  <2>4. Abstract!Invoke(t)
    BY Zenon, <2>2, <2>3 DEF Abstract!Invoke, op
  <2> QED
    BY <2>4 DEF Abstract!Next
<1>9. ASSUME NEW t \in Threads, Step(t) \/ Event(t) PROVE Abstract!Next \/ Stutter
  <2> USE <1>0, <1>1 DEF TypeOK, CallOK, Local, PendingOp, WaitLabels, RegisteredLabels,
            Calls, WaitCalls, TimedCalls, CancelPoints, Goto, Return, Exit, Load
  <2>1. CASE InvalidTime(t) \/ Testcancel(t)
    BY <2>1, <1>6 DEF InvalidTime, Testcancel
  <2>2. CASE SpuriousWakeup(t) \/ WaitFails(t) \/ FutexWait(t) \/ WaitCanceled(t)
    BY <2>2, <1>7 DEF SpuriousWakeup, WaitFails, FutexWait, WaitCanceled
  <2>3. CASE WaitFastLoad(t)
    <3>1. CASE data.value = 0 /\ call[t] = "trywait"
      BY <2>3, <3>1, <1>6 DEF WaitFastLoad
    <3>2. CASE ~(data.value = 0 /\ call[t] = "trywait")
      BY <2>3, <3>2, <1>7 DEF WaitFastLoad
    <3> QED
      BY <3>1, <3>2
  <2>4. CASE WaitFastCAS(t)
    BY <2>4, <1>6 DEF WaitFastCAS, SnapshotOK
  <2>5. CASE WaitFastCASFails(t)
    <3>1. CASE data.value = 0 /\ call[t] = "trywait"
      BY <2>5, <3>1, <1>6 DEF WaitFastCASFails
    <3>2. CASE ~(data.value = 0 /\ call[t] = "trywait")
      BY <2>5, <3>2, <1>7 DEF WaitFastCASFails
    <3> QED
      BY <3>1, <3>2
  <2>6. CASE Register(t) \/ Reload(t)
    BY <2>6, <1>7 DEF Register, Reload, SlowLoop
  <2>7. CASE Grab(t)
    <3>1. CASE data = d[t]
      BY <2>7, <3>1, <1>6 DEF Grab, Grabbed, SnapshotOK
    <3>2. CASE data # d[t]
      BY <2>7, <3>2, <1>7 DEF Grab, SlowLoop
    <3> QED
      BY <3>1, <3>2
  <2>8. CASE Unregister(t) \/ WaitCleanup(t)
    BY <2>8, <1>6 DEF Unregister, WaitCleanup
  <2>9. CASE PostLoad(t)
    <3>1. CASE PostFull(data)
      BY <2>9, <3>1, <1>6 DEF PostLoad, PostFull
    <3>2. CASE ~PostFull(data)
      BY <2>9, <3>2, <1>7 DEF PostLoad
    <3> QED
      BY <3>1, <3>2
  <2>10. CASE PostCAS(t)
    <3>1. CASE data = d[t]
      BY <2>10, <3>1, <1>6 DEF PostCAS, SnapshotOK
    <3>2. CASE data # d[t] /\ PostFull(data)
      BY <2>10, <3>2, <1>6 DEF PostCAS, PostFull
    <3>3. CASE data # d[t] /\ ~PostFull(data)
      BY <2>10, <3>3, <1>7 DEF PostCAS
    <3> QED
      BY <3>1, <3>2, <3>3
  <2>11. CASE PostWake(t)
    <3>1. PICK W \in SUBSET Blocked :
            pc' = [u \in Threads |-> IF u = t THEN "idle"
                                     ELSE IF u \in W THEN "reload" ELSE pc[u]]
      BY <2>11 DEF PostWake, futex_wake
    <3>2. \A u \in Threads : PendingOp(u)' = PendingOp(u)
      BY <2>11, <3>1 DEF PostWake, Blocked, At
    <3> QED
      BY <2>11, <3>2 DEF PostWake, op
  <2> QED
    BY <1>8, <1>9, <2>1, <2>2, <2>3, <2>4, <2>5, <2>6, <2>7, <2>8, <2>9, <2>10, <2>11
       DEF Step, Event
<1> QED
  BY <1>2, <1>5, <1>9 DEF Next

\* sem_wait, sem_trywait and sem_post are linearizable, for any number of threads:
\* the word with its fast path, slow path and compare-and-swaps implements
\* the counting semaphore.
THEOREM Refinement == Spec => ImplementsCountingSemaphore
<1>1. Init => Abstract!Init /\ RInv
  <2> SUFFICES ASSUME Init PROVE Abstract!Init /\ RInv
    OBVIOUS
  <2>1. [t \in Threads |-> PendingOp(t)] = [t \in Threads |-> "none"]
    BY DEF Init, PendingOp
  <2>2. data.value \in 0..SEM_VALUE_MAX
    BY DEF Init
  <2>3. CallOK
    BY DEF Init, CallOK, WaitLabels, RegisteredLabels
  <2> QED
    BY <2>1, <2>2, <2>3, InitIInv DEF Abstract!Init, RInv
<1>2. RInv /\ [Next]_vars => RInv'
  BY NextIInv, NextCallOK DEF RInv, IInv
<1>3. RInv /\ [Next]_vars => [Abstract!Next]_(Abstract!vars)
  BY NextRefines
<1> QED
  BY <1>1, <1>2, <1>3, PTL DEF Spec, ImplementsCountingSemaphore, Abstract!Spec
=============================================================================
