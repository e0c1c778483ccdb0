--------------------------- MODULE BarrierProofs ---------------------------
(***************************************************************************)
(* Proofs about Barrier for any number of threads, any count and any       *)
(* threshold: no thread leaves early, the reset finds nobody inside,       *)
(* destruction waits for the threads that leave, and the barrier           *)
(* implements AbstractBarrier.                                             *)
(***************************************************************************)
EXTENDS Barrier, FiniteSetTheorems, TLAPS

USE SMTT(30), ZenonT(30)

\* The threads that a control map f puts at a set of labels.
Where(S, f, labels) == {t \in S : f[t] \in labels}

\* 1 if label l is one of labels, else 0.
In(l, labels) == IF l \in labels THEN 1 ELSE 0

\* The threads at a set of labels are finitely many, so they can be counted.
LEMMA WhereFinite ==
  ASSUME NEW S, IsFiniteSet(S), NEW f, NEW labels
  PROVE  IsFiniteSet(Where(S, f, labels)) /\ Cardinality(Where(S, f, labels)) \in Nat
  BY FS_Subset, FS_CardinalityType DEF Where

\* The control map g is f after thread t has moved to l.
Moved(S, f, g, t, l) == DOMAIN f = S /\ g = [f EXCEPT ![t] = l]

\* How the number of threads at a set of labels changes when one thread moves.
LEMMA WhereMove ==
  ASSUME NEW S, IsFiniteSet(S), NEW f, NEW g, NEW t \in S, NEW l, Moved(S, f, g, t, l),
         NEW labels
  PROVE  Cardinality(Where(S, g, labels))
           = Cardinality(Where(S, f, labels)) + In(l, labels) - In(f[t], labels)
<1> DEFINE A == Where(S, f, labels)
           R == A \ {t}
           N == Where(S, g, labels)
<1> HIDE DEF A, R, N
<1>1. IsFiniteSet(A) /\ Cardinality(A) \in Nat
  BY WhereFinite DEF A
<1>2. IsFiniteSet(R) /\ Cardinality(R) \in Nat
  BY <1>1, FS_RemoveElement, FS_CardinalityType DEF R
<1>3. Cardinality(A) = Cardinality(R) + In(f[t], labels)
  <2>1. CASE f[t] \in labels
    <3>1. t \in A
      BY <2>1 DEF Where, A
    <3>2. Cardinality(R) = Cardinality(A) - 1
      BY Zenon, <3>1, <1>1, FS_RemoveElement DEF R
    <3> QED
      BY <3>2, <2>1, <1>1 DEF In
  <2>2. CASE f[t] \notin labels
    <3>1. R = A
      BY <2>2 DEF Where, A, R, N, Moved
    <3> QED
      BY <3>1, <2>2, <1>1 DEF In
  <2> QED
    BY <2>1, <2>2
<1>4. Cardinality(N) = Cardinality(R) + In(l, labels)
  <2>1. CASE l \in labels
    <3>1. N = R \cup {t}
      BY <2>1 DEF Where, A, R, N, Moved
    <3>2. t \notin R
      BY DEF R
    <3>3. Cardinality(R \cup {t}) = Cardinality(R) + 1
      BY Zenon, <3>2, <1>2, FS_AddElement
    <3> QED
      BY <3>1, <3>3, <2>1 DEF In
  <2>2. CASE l \notin labels
    <3>1. N = R
      BY <2>2 DEF Where, A, R, N, Moved
    <3> QED
      BY <3>1, <2>2, <1>2 DEF In
  <2> QED
    BY <2>1, <2>2
<1>5. Cardinality(N) = Cardinality(A) + In(l, labels)
                                      - In(f[t], labels)
  BY <1>1, <1>2, <1>3, <1>4 DEF In
<1> QED
  BY <1>5 DEF A, N

-----------------------------------------------------------------------------
Entering == {"enter", "waitIn", "blockedIn", "reloadIn"}
Resetting == {"resetRound", "resetOut", "resetIn"}
Added == {"d_wait", "d_blocked", "d_reload"}

Labels == {"idle"} \cup Entering \cup Exiting \cup Destroying

TypeOK ==
  /\ in \in Nat /\ out \in Nat /\ current_round \in Nat
  /\ pc \in [Threads -> Labels]
  /\ i \in [Threads -> Nat]
  /\ cr \in [Threads -> Nat]
  /\ destroyed \in BOOLEAN

\* The positions given out since the last reset: `in' without the threads that
\* found the barrier full.
Entered == IF in <= MaxIn THEN in ELSE MaxIn

\* The threads that have a position and have not confirmed that they left.
Inside == Cardinality(Where(Threads, pc, InRound))

\* pthread_barrier_destroy has added to `out'.
Pretended == destroyed \/ \E t \in Threads : pc[t] \in Added

\* Where a thread's locals stand relative to the counters.
Positions ==
  /\ current_round <= Entered /\ current_round % Count = 0
  /\ \A t \in Threads :
       /\ pc[t] \in InRound => i[t] \in 1 .. Entered
       /\ pc[t] = "finish" => cr[t] + Count <= i[t]
       /\ pc[t] = "wakeRound" => cr[t] <= current_round
       /\ pc[t] = "leave" => i[t] <= current_round

\* Whoever found the barrier full is still there while it is.
FullHasWaiter ==
  in > MaxIn => \E t \in Threads : pc[t] \in {"waitIn", "blockedIn", "reloadIn"}

\* One thread resets, one destroys, and nobody enters a barrier being destroyed.
Alone ==
  /\ \A t, u \in Threads : pc[t] \in Resetting /\ pc[u] \in Resetting => t = u
  /\ \A t, u \in Threads : pc[t] \in Destroying => pc[u] \notin Entering /\ (pc[u] \in Destroying => t = u)
  /\ destroyed => \A t \in Threads : pc[t] \notin Entering \cup Destroying

\* The counters while a thread resets them.
ResetInv ==
  \A t \in Threads :
    pc[t] \in Resetting =>
      /\ Inside = 0
      /\ in > 0 /\ (in >= MaxIn \/ Pretended)
      /\ out = IF pc[t] = "resetIn" THEN 0 ELSE MaxIn
      /\ pc[t] # "resetRound" => current_round = 0
      /\ destroyed => in = MaxIn

\* The counters otherwise: `out' and the threads inside make up the positions
\* given out, or MaxIn once pthread_barrier_destroy has added to `out'.
Accounted ==
  (\A t \in Threads : pc[t] \notin Resetting) =>
     IF Pretended
       THEN out + Inside = MaxIn \/ (in = 0 /\ out = 0 /\ Inside = 0)
       ELSE out + Inside = Entered

\* What pthread_barrier_destroy read is current unless the reset came between.
DestroyInv ==
  /\ destroyed => Inside = 0
  /\ \A t \in Threads :
       pc[t] = "d_add" => \/ i[t] = in
                          \/ /\ i[t] = MaxIn /\ in = 0 /\ out = 0 /\ Inside = 0
                             /\ \A u \in Threads : pc[u] \notin Resetting

\* The threads that wait for their round are those of the incomplete round.
WaitSet == {t \in Threads : pc[t] \in InRound /\ in < RoundEnd(i[t])}
RoundFilling == Cardinality(WaitSet) = Entered % Count

IInv == TypeOK /\ Positions /\ FullHasWaiter /\ Alone /\ ResetInv /\ Accounted /\ DestroyInv /\ RoundFilling

-----------------------------------------------------------------------------
\* Rounds: multiples of Count.

\* A number is a multiple of Count plus a remainder.
LEMMA DivMod ==
  ASSUME NEW n \in Int, NEW d \in Nat \ {0}
  PROVE  /\ n % d \in 0 .. d - 1
         /\ n \div d \in Int
         /\ n = d * (n \div d) + (n % d)
  OBVIOUS

\* ... in exactly one way.
LEMMA Remainder ==
  ASSUME NEW d \in Nat \ {0}, NEW q \in Int, NEW r \in 0 .. d - 1
  PROVE  (d * q + r) % d = r
<1> DEFINE n == d * q + r
           k == n \div d
           s == n % d
<1>1. n \in Int /\ d * q \in Int
  OBVIOUS
<1>2. s \in 0 .. d - 1 /\ k \in Int /\ n = d * k + s
  BY <1>1, DivMod
<1>3. d * (q - k) = s - r
  BY <1>2
<1> HIDE DEF n, k, s
<1>4. q - k = 0
  <2> DEFINE e == q - k
  <2>1. e \in Int /\ d * e = s - r
    BY <1>2, <1>3
  <2>2. -d < d * e /\ d * e < d
    BY <2>1, <1>2
  <2> HIDE DEF e
  <2>3. ~(e >= 1)
    <3>1. e >= 1 => d * e >= d
      BY <2>1
    <3> QED
      BY <3>1, <2>1, <2>2
  <2>4. ~(e <= -1)
    <3>1. e <= -1 => d * e <= -d
      BY <2>1
    <3> QED
      BY <3>1, <2>1, <2>2
  <2>5. e = 0
    BY <2>1, <2>3, <2>4
  <2> QED
    BY <2>5 DEF e
<1>5. d * (q - k) = 0
  BY <1>4
<1>6. s = r
  BY <1>2, <1>3, <1>5
<1> QED
  BY <1>6 DEF s, n

\* The last round end up to a position, and the first from it on.
LEMMA Rounds ==
  ASSUME NEW n \in Nat
  PROVE  /\ NewRound(n) \in Nat /\ NewRound(n) <= n /\ n < NewRound(n) + Count
         /\ NewRound(n) % Count = 0
         /\ RoundEnd(n) \in Nat /\ n <= RoundEnd(n) /\ RoundEnd(n) < n + Count
         /\ RoundEnd(n) % Count = 0
         /\ n % Count = 0 => RoundEnd(n) = n
<1>0. Count \in Nat \ {0}
  BY BarrierAssumption
<1>1. /\ n % Count \in 0 .. Count - 1 /\ n \div Count \in Int
      /\ n = Count * (n \div Count) + (n % Count)
  BY <1>0, DivMod
<1>2. NewRound(n) = Count * (n \div Count) + 0
  BY <1>0, <1>1 DEF NewRound
<1>3. NewRound(n) % Count = 0
  BY <1>0, <1>1, <1>2, Remainder
<1>4. n \div Count >= 0
  BY <1>0
<1>5. NewRound(n) \in Nat
  BY <1>0, <1>1, <1>2, <1>4
<1> DEFINE m == -n
<1>6. /\ m \in Int /\ m % Count \in 0 .. Count - 1 /\ m \div Count \in Int
      /\ m = Count * (m \div Count) + (m % Count)
  BY <1>0, DivMod
<1>7. RoundEnd(n) = n + (m % Count)
  BY DEF RoundEnd
<1> DEFINE k == -(m \div Count)
<1>8. k \in Int /\ RoundEnd(n) = Count * k + 0
  BY <1>0, <1>6, <1>7
<1> HIDE DEF k
<1>9. RoundEnd(n) % Count = 0
  BY <1>0, <1>8, Remainder
<1>10. ASSUME n % Count = 0 PROVE m % Count = 0
  <2> DEFINE j == -(n \div Count)
  <2>1. j \in Int /\ m = Count * j + 0
    BY <1>0, <1>1, <1>10
  <2> HIDE DEF j, m
  <2> QED
    BY <2>1, <1>0, Remainder
<1> QED
  BY <1>0, <1>1, <1>3, <1>5, <1>6, <1>7, <1>9, <1>10 DEF NewRound

\* Between two round ends there is a whole round.
LEMMA Apart ==
  ASSUME NEW m \in Nat, NEW n \in Nat, m % Count = 0, n % Count = 0, m < n
  PROVE  m + Count <= n
<1> DEFINE a == m \div Count
           b == n \div Count
<1>1. Count \in Nat \ {0} /\ a \in Int /\ b \in Int /\ m = Count * a /\ n = Count * b
  BY BarrierAssumption, DivMod
<1> HIDE DEF a, b
<1>2. a < b
  BY <1>1
<1>3. Count * (a + 1) <= Count * b
  BY <1>1, <1>2
<1> QED
  BY <1>1, <1>3

\* The round of a position ends by every later round end.
LEMMA EndsBy ==
  ASSUME NEW m \in Nat, NEW n \in Nat, m % Count = 0, n <= m
  PROVE  RoundEnd(n) <= m
  BY Rounds, Apart, BarrierAssumption

\* The remainder of the successor.
LEMMA Successor ==
  ASSUME NEW n \in Nat
  PROVE  /\ n % Count \in 0 .. Count - 1
         /\ (n + 1) % Count = IF (n % Count) + 1 = Count THEN 0 ELSE (n % Count) + 1
<1> DEFINE q == n \div Count
           r == n % Count
<1>1. Count \in Nat \ {0} /\ q \in Int /\ r \in 0 .. Count - 1 /\ n = Count * q + r
  BY BarrierAssumption, DivMod
<1> HIDE DEF q, r
<1>2. CASE r + 1 = Count
  <2>1. n + 1 = Count * (q + 1) + 0
    BY <1>1, <1>2
  <2>2. (n + 1) % Count = 0
    BY <1>1, <2>1, Remainder
  <2> QED
    BY <1>1, <1>2, <2>2 DEF r
<1>3. CASE r + 1 # Count
  <2>1. n + 1 = Count * q + (r + 1) /\ r + 1 \in 0 .. Count - 1
    BY <1>1, <1>3
  <2>2. (n + 1) % Count = r + 1
    BY <1>1, <2>1, Remainder
  <2> QED
    BY <1>1, <1>3, <2>2 DEF r
<1> QED
  BY <1>2, <1>3

\* max_in_before_reset is the end of a round and not 0.
LEMMA MaxInFact == MaxIn \in Nat /\ MaxIn >= Count /\ Count \in Nat \ {0} /\ MaxIn % Count = 0
<1>0. Count \in Nat \ {0} /\ BARRIER_IN_THRESHOLD \in Nat /\ Count < BARRIER_IN_THRESHOLD
  BY BarrierAssumption
<1>1. MaxIn = NewRound(BARRIER_IN_THRESHOLD)
  BY DEF MaxIn, NewRound
<1>2. MaxIn \in Nat /\ MaxIn % Count = 0 /\ BARRIER_IN_THRESHOLD < MaxIn + Count
  BY <1>0, <1>1, Rounds
<1>3. 0 % Count = 0
  BY <1>0, Remainder
<1>4. MaxIn > 0
  BY <1>0, <1>2
<1> QED
  BY <1>0, <1>2, <1>3, <1>4, Apart

-----------------------------------------------------------------------------
\* Counting the threads inside.

\* The threads inside can be counted, and there are none iff the count is 0.
LEMMA InsideFact ==
  /\ Inside \in Nat
  /\ Inside = 0 <=> \A t \in Threads : pc[t] \notin InRound
<1> DEFINE S == Where(Threads, pc, InRound)
<1>1. IsFiniteSet(S) /\ Cardinality(S) \in Nat
  BY BarrierAssumption, WhereFinite
<1>2. S = {} <=> \A t \in Threads : pc[t] \notin InRound
  BY DEF Where
<1> HIDE DEF S
<1>3. Cardinality(S) = 0 <=> S = {}
  BY <1>1, FS_EmptySet
<1> QED
  BY <1>1, <1>2, <1>3 DEF Inside, S

\* How the count changes when one thread moves.
LEMMA InsideMove ==
  ASSUME NEW t \in Threads, NEW l, pc \in [Threads -> Labels], pc' = [pc EXCEPT ![t] = l]
  PROVE  Inside' = Inside + In(l, InRound) - In(pc[t], InRound)
<1>1. Moved(Threads, pc, pc', t, l)
  BY DEF Moved
<1>2. IsFiniteSet(Threads)
  BY BarrierAssumption
<1> QED
  BY <1>1, <1>2, WhereMove DEF Inside

\* A step in which nobody enters or leaves changes neither the count nor the
\* set of threads that wait for their round.
LEMMA InsideSame ==
  ASSUME \A u \in Threads : pc'[u] \in InRound <=> pc[u] \in InRound
  PROVE  /\ Inside' = Inside
         /\ in' = in /\ (\A u \in Threads : pc[u] \in InRound => i'[u] = i[u]) => WaitSet' = WaitSet
<1>1. Where(Threads, pc', InRound) = Where(Threads, pc, InRound)
  BY DEF Where
<1> QED
  BY <1>1 DEF Inside, WaitSet, RoundEnd

-----------------------------------------------------------------------------
\* The inductive invariant.

\* It holds initially.
LEMMA InitIInv == Init => IInv
<1> SUFFICES ASSUME Init PROVE IInv
  OBVIOUS
<1>1. \A t \in Threads : pc[t] = "idle"
  BY DEF Init
<1>2. Inside = 0
  BY <1>1, InsideFact DEF InRound, Exiting
<1>3. WaitSet = {} /\ Cardinality({}) = 0
  BY <1>1, FS_EmptySet DEF WaitSet, InRound, Exiting
<1>4. 0 % Count = 0 /\ MaxIn >= 0 /\ Entered = 0
  BY MaxInFact, Rounds DEF Entered, Init
<1>5. RoundFilling
  BY <1>3, <1>4 DEF RoundFilling
<1>6. TypeOK
  BY Zenon DEF Init, TypeOK, Labels
<1>7. Positions /\ FullHasWaiter /\ Alone
  BY <1>1, <1>4, MaxInFact DEF Init, Positions, FullHasWaiter, Alone, InRound, Exiting, Resetting, Destroying, Entering
<1>8. ResetInv /\ Accounted /\ DestroyInv
  BY <1>1, <1>2, <1>4, MaxInFact DEF Init, ResetInv, Accounted, DestroyInv, Pretended, Resetting, Added
<1> QED
  BY <1>5, <1>6, <1>7, <1>8 DEF IInv

\* A step of a thread inside that stays inside: it may raise current_round and
\* may wake threads that wait for their round.
InnerStep(t) ==
  /\ pc[t] \in InRound /\ pc'[t] \in InRound
  /\ UNCHANGED <<in, out, i, destroyed>>
  /\ \A u \in Threads \ {t} : /\ \/ pc'[u] = pc[u]
                                 \/ pc[u] = "blockedRound" /\ pc'[u] = "reloadRound"
                              /\ cr'[u] = cr[u]
  /\ current_round <= current_round' /\ current_round' <= Entered /\ current_round' % Count = 0
  /\ pc'[t] = "finish" => cr'[t] + Count <= i[t]
  /\ pc'[t] = "wakeRound" => cr'[t] <= current_round'
  /\ pc'[t] = "leave" => i[t] <= current_round'

LEMMA InnerPreserves ==
  ASSUME NEW t \in Threads, IInv, TypeOK', InnerStep(t)
  PROVE  IInv'
<1> USE DEF InRound, Exiting
<1>1. Inside' = Inside /\ WaitSet' = WaitSet /\ Entered' = Entered /\ Inside # 0
  BY InsideSame, InsideFact DEF InnerStep, Entered
<1>2. \A u \in Threads : pc[u] \notin Resetting /\ pc'[u] \notin Resetting
  BY <1>1, InsideFact DEF IInv, ResetInv, InnerStep, Resetting
<1>3. \A u \in Threads : /\ pc'[u] \in Entering <=> pc[u] \in Entering
                         /\ pc'[u] \in Destroying <=> pc[u] \in Destroying
                         /\ pc'[u] \in Added <=> pc[u] \in Added
                         /\ pc'[u] = "d_add" <=> pc[u] = "d_add"
                         /\ pc'[u] \in {"waitIn", "blockedIn", "reloadIn"} <=> pc[u] \in {"waitIn", "blockedIn", "reloadIn"}
  BY DEF InnerStep, Entering, Destroying, Added
<1>4. Pretended' = Pretended
  BY <1>3 DEF Pretended, InnerStep
<1>5. Positions'
  BY <1>1 DEF IInv, TypeOK, Positions, InnerStep
<1>6. FullHasWaiter' /\ Alone'
  BY <1>2, <1>3 DEF IInv, FullHasWaiter, Alone, InnerStep
<1>7. ResetInv' /\ Accounted' /\ DestroyInv'
  BY <1>1, <1>2, <1>3, <1>4 DEF IInv, ResetInv, Accounted, DestroyInv, InnerStep
<1>8. RoundFilling'
  BY <1>1 DEF IInv, RoundFilling
<1> QED
  BY <1>5, <1>6, <1>7, <1>8 DEF IInv

\* The steps of pthread_barrier_wait between the entry and the exit.
LEMMA InnerActions ==
  ASSUME NEW t \in Threads, IInv,
         LoadRound(t) \/ FinishRounds(t) \/ WakeRound(t) \/ WaitRound(t) \/ ReloadRound(t)
         \/ (SpuriousWakeup(t) /\ pc[t] = "blockedRound")
  PROVE  IInv'
<1> USE DEF InRound, Exiting, Labels, Destroying, Entering
<1>0. TypeOK /\ Positions
  BY DEF IInv
<1>1. CASE LoadRound(t)
  <2>1. TypeOK'
    BY <1>0, <1>1 DEF TypeOK, LoadRound, Goto, AfterRound
  <2>2. InnerStep(t)
    BY <1>0, <1>1, MaxInFact DEF TypeOK, Positions, InnerStep, LoadRound, Goto, AfterRound, CanFinish
  <2> QED
    BY <2>1, <2>2, InnerPreserves
<1>2. CASE FinishRounds(t)
  <2>0. /\ NewRound(i[t]) \in Nat /\ NewRound(i[t]) <= i[t] /\ i[t] < NewRound(i[t]) + Count
        /\ NewRound(i[t]) % Count = 0
    BY <1>0, Rounds DEF TypeOK
  <2>1. TypeOK'
    BY <1>0, <1>2, <2>0 DEF TypeOK, FinishRounds, Goto, AfterRound
  <2>2. i[t] \in 1 .. Entered /\ cr[t] + Count <= i[t] /\ Entered \in Nat
    BY <1>0, <1>2, MaxInFact DEF TypeOK, Positions, FinishRounds, Entered
  <2>3. InnerStep(t)
    BY <1>0, <1>2, <2>0, <2>2, MaxInFact DEF TypeOK, Positions, InnerStep, FinishRounds, Goto, AfterRound, CanFinish
  <2> QED
    BY <2>1, <2>3, InnerPreserves
<1>3. CASE WakeRound(t)
  <2>1. PICK woken \in SUBSET At({"blockedRound"}) :
          pc' = [u \in Threads |-> IF u = t THEN IF i[t] <= cr[t] THEN "leave" ELSE "waitRound"
                                   ELSE IF u \in woken THEN "reloadRound" ELSE pc[u]]
    BY <1>3 DEF WakeRound, WakeAll, futex_wake, ResumeRound
  <2>2. TypeOK'
    BY <1>0, <1>3, <2>1 DEF TypeOK, WakeRound
  <2>3. InnerStep(t)
    BY <1>0, <1>3, <2>1 DEF TypeOK, Positions, InnerStep, WakeRound, At
  <2> QED
    BY <2>2, <2>3, InnerPreserves
<1>4. CASE WaitRound(t)
  <2>1. TypeOK'
    BY <1>0, <1>4 DEF TypeOK, WaitRound, Goto
  <2>2. InnerStep(t)
    BY <1>0, <1>4 DEF TypeOK, Positions, InnerStep, WaitRound, Goto
  <2> QED
    BY <2>1, <2>2, InnerPreserves
<1>5. CASE ReloadRound(t)
  <2>1. TypeOK'
    BY <1>0, <1>5 DEF TypeOK, ReloadRound, Goto
  <2>2. InnerStep(t)
    BY <1>0, <1>5 DEF TypeOK, Positions, InnerStep, ReloadRound, Goto, RoundOver
  <2> QED
    BY <2>1, <2>2, InnerPreserves
<1>6. CASE SpuriousWakeup(t) /\ pc[t] = "blockedRound"
  <2>1. TypeOK'
    BY <1>0, <1>6 DEF TypeOK, SpuriousWakeup, Goto
  <2>2. InnerStep(t)
    BY <1>0, <1>6 DEF TypeOK, Positions, InnerStep, SpuriousWakeup, Goto
  <2> QED
    BY <2>1, <2>2, InnerPreserves
<1> QED
  BY <1>1, <1>2, <1>3, <1>4, <1>5, <1>6

\* A step of threads that neither are inside nor reset: it changes no counter.
OuterStep ==
  /\ UNCHANGED <<in, out, current_round, cr>>
  /\ \A u \in Threads : /\ \/ pc'[u] = pc[u]
                           \/ pc[u] \notin InRound \cup Resetting /\ pc'[u] \notin InRound \cup Resetting
                        /\ pc[u] \in InRound => i'[u] = i[u]

LEMMA OuterPreserves ==
  ASSUME IInv, OuterStep
  PROVE  /\ Positions' /\ RoundFilling' /\ Inside' = Inside
         /\ \A u \in Threads : pc[u] \in Resetting \/ pc'[u] \in Resetting => pc'[u] = pc[u]
         /\ UNCHANGED destroyed /\ Pretended' = Pretended => ResetInv' /\ Accounted'
<1>1. Inside' = Inside /\ WaitSet' = WaitSet /\ Entered' = Entered
  BY InsideSame DEF OuterStep, Entered
<1>2. \A u \in Threads : pc'[u] \in InRound \/ pc[u] \in InRound => pc'[u] = pc[u] /\ i'[u] = i[u]
  BY DEF OuterStep
<1>3. \A u \in Threads : pc[u] \in Resetting \/ pc'[u] \in Resetting => pc'[u] = pc[u]
  BY DEF OuterStep
<1>4. Positions'
  BY <1>1, <1>2 DEF IInv, Positions, OuterStep, InRound, Exiting
<1>5. RoundFilling'
  BY <1>1 DEF IInv, RoundFilling
<1>6. ASSUME UNCHANGED destroyed, Pretended' = Pretended PROVE ResetInv' /\ Accounted'
  BY <1>1, <1>3, <1>6 DEF IInv, ResetInv, Accounted, OuterStep
<1> QED
  BY <1>1, <1>3, <1>4, <1>5, <1>6

\* The steps of threads that wait for the reset or wake them, and those of
\* pthread_barrier_destroy that change no counter.
LEMMA OuterActions ==
  ASSUME NEW t \in Threads, IInv,
         Invoke(t) \/ WaitIn(t) \/ ReloadIn(t) \/ WakeIn(t) \/ Destroy(t) \/ DestroyLoad(t)
         \/ DestroyWait(t) \/ DestroyReload(t) \/ (SpuriousWakeup(t) /\ pc[t] # "blockedRound")
  PROVE  IInv'
<1>0. TypeOK /\ FullHasWaiter /\ Alone /\ ResetInv /\ Accounted /\ DestroyInv
  BY DEF IInv
<1> DEFINE Rest == TypeOK' /\ OuterStep /\ UNCHANGED destroyed /\ Pretended' = Pretended /\ FullHasWaiter' /\ Alone' /\ DestroyInv'
<1>1. Rest => IInv'
  BY OuterPreserves DEF IInv
<1> USE DEF InRound, Exiting, Labels, Destroying, Entering, Resetting, Added, Goto
<1>2. CASE Invoke(t)
  <2>1. TypeOK' /\ OuterStep
    BY <1>0, <1>2 DEF TypeOK, Invoke, OuterStep
  <2>2. Inside' = Inside
    BY <2>1, OuterPreserves
  <2>3. UNCHANGED destroyed /\ Pretended' = Pretended
    BY <1>0, <1>2 DEF TypeOK, Invoke, Pretended
  <2>4. FullHasWaiter' /\ Alone' /\ DestroyInv'
    BY <1>0, <1>2, <2>2 DEF TypeOK, Invoke, FullHasWaiter, Alone, DestroyInv, At
  <2> QED
    BY <2>1, <2>3, <2>4, <1>1
<1>3. CASE WaitIn(t)
  <2>1. TypeOK' /\ OuterStep
    BY <1>0, <1>3 DEF TypeOK, WaitIn, OuterStep
  <2>2. Inside' = Inside
    BY <2>1, OuterPreserves
  <2>3. UNCHANGED destroyed /\ Pretended' = Pretended
    BY <1>0, <1>3 DEF TypeOK, WaitIn, Pretended
  <2>4. FullHasWaiter' /\ Alone' /\ DestroyInv'
    BY <1>0, <1>3, <2>2 DEF TypeOK, WaitIn, FullHasWaiter, Alone, DestroyInv
  <2> QED
    BY <2>1, <2>3, <2>4, <1>1
<1>4. CASE ReloadIn(t)
  <2>1. TypeOK' /\ OuterStep
    BY <1>0, <1>4 DEF TypeOK, ReloadIn, OuterStep
  <2>2. Inside' = Inside
    BY <2>1, OuterPreserves
  <2>3. UNCHANGED destroyed /\ Pretended' = Pretended
    BY <1>0, <1>4 DEF TypeOK, ReloadIn, Pretended
  <2>4. FullHasWaiter' /\ Alone' /\ DestroyInv'
    BY <1>0, <1>4, <2>2 DEF TypeOK, ReloadIn, FullHasWaiter, Alone, DestroyInv
  <2> QED
    BY <2>1, <2>3, <2>4, <1>1
<1>5. CASE WakeIn(t)
  <2>0. PICK woken \in SUBSET At({"blockedIn", "d_blocked"}) :
          pc' = [u \in Threads |-> IF u = t THEN "idle" ELSE IF u \in woken
                                   THEN IF pc[u] = "d_blocked" THEN "d_reload" ELSE "reloadIn" ELSE pc[u]]
    BY <1>5 DEF WakeIn, WakeAll, futex_wake, ResumeIn
  <2>1. TypeOK' /\ OuterStep
    BY <1>0, <1>5, <2>0 DEF TypeOK, WakeIn, OuterStep, At
  <2>2. Inside' = Inside
    BY <2>1, OuterPreserves
  <2>3. UNCHANGED destroyed /\ Pretended' = Pretended
    BY <1>0, <1>5, <2>0 DEF TypeOK, WakeIn, Pretended, At
  <2>4. FullHasWaiter' /\ Alone' /\ DestroyInv'
    BY <1>0, <1>5, <2>0, <2>2 DEF TypeOK, WakeIn, FullHasWaiter, Alone, DestroyInv, At
  <2> QED
    BY <2>1, <2>3, <2>4, <1>1
<1>6. CASE Destroy(t)
  <2>1. TypeOK' /\ OuterStep
    BY <1>0, <1>6 DEF TypeOK, Destroy, OuterStep
  <2>2. Inside' = Inside
    BY <2>1, OuterPreserves
  <2>3. UNCHANGED destroyed /\ Pretended' = Pretended
    BY <1>0, <1>6 DEF TypeOK, Destroy, Pretended
  <2>4. FullHasWaiter' /\ Alone' /\ DestroyInv'
    BY <1>0, <1>6, <2>2 DEF TypeOK, Destroy, FullHasWaiter, Alone, DestroyInv
  <2> QED
    BY <2>1, <2>3, <2>4, <1>1
<1>7. CASE DestroyLoad(t)
  <2>1. TypeOK' /\ OuterStep
    BY <1>0, <1>7 DEF TypeOK, DestroyLoad, OuterStep
  <2>2. Inside' = Inside
    BY <2>1, OuterPreserves
  <2>3. UNCHANGED destroyed /\ Pretended' = Pretended
    BY <1>0, <1>7 DEF TypeOK, DestroyLoad, Pretended
  <2>4. FullHasWaiter' /\ Alone' /\ DestroyInv'
    BY <1>0, <1>7, <2>2 DEF TypeOK, DestroyLoad, FullHasWaiter, Alone, DestroyInv
  <2> QED
    BY <2>1, <2>3, <2>4, <1>1
<1>8. CASE DestroyWait(t)
  <2>1. TypeOK' /\ OuterStep
    BY <1>0, <1>8 DEF TypeOK, DestroyWait, OuterStep
  <2>2. Inside' = Inside
    BY <2>1, OuterPreserves
  <2>3. UNCHANGED destroyed /\ Pretended' = Pretended
    BY <1>0, <1>8 DEF TypeOK, DestroyWait, Pretended
  <2>4. FullHasWaiter' /\ Alone' /\ DestroyInv'
    BY <1>0, <1>8, <2>2 DEF TypeOK, DestroyWait, FullHasWaiter, Alone, DestroyInv
  <2> QED
    BY <2>1, <2>3, <2>4, <1>1
<1>9. CASE DestroyReload(t) /\ in # 0
  <2>1. TypeOK' /\ OuterStep
    BY <1>0, <1>9 DEF TypeOK, DestroyReload, OuterStep
  <2>2. Inside' = Inside
    BY <2>1, OuterPreserves
  <2>3. UNCHANGED destroyed /\ Pretended' = Pretended
    BY <1>0, <1>9 DEF TypeOK, DestroyReload, Pretended
  <2>4. FullHasWaiter' /\ Alone' /\ DestroyInv'
    BY <1>0, <1>9, <2>2 DEF TypeOK, DestroyReload, FullHasWaiter, Alone, DestroyInv
  <2> QED
    BY <2>1, <2>3, <2>4, <1>1
<1>10. CASE DestroyReload(t) /\ in = 0
  <2>1. TypeOK' /\ OuterStep
    BY <1>0, <1>10 DEF TypeOK, DestroyReload, DestroyReturn, OuterStep
  <2>2. Inside' = Inside /\ Positions' /\ RoundFilling'
    BY <2>1, OuterPreserves
  <2>3. Pretended /\ Pretended' /\ (\A u \in Threads : pc[u] \notin Resetting /\ pc'[u] \notin Resetting)
    BY <1>0, <1>10 DEF TypeOK, DestroyReload, DestroyReturn, Pretended, ResetInv
  <2>4. Inside = 0
    BY <1>10, MaxInFact, InsideFact DEF IInv, TypeOK, Positions, Entered
  <2>5. FullHasWaiter' /\ Alone' /\ DestroyInv'
    BY <1>0, <1>10, <2>2, <2>4, <2>3, MaxInFact DEF TypeOK, DestroyReload, DestroyReturn, FullHasWaiter, Alone, DestroyInv
  <2>6. ResetInv' /\ Accounted'
    BY <1>0, <1>10, <2>2, <2>3 DEF TypeOK, DestroyReload, DestroyReturn, ResetInv, Accounted
  <2> QED
    BY <2>1, <2>2, <2>5, <2>6 DEF IInv
<1>11. CASE SpuriousWakeup(t) /\ pc[t] # "blockedRound"
  <2>1. TypeOK' /\ OuterStep
    BY <1>0, <1>11 DEF TypeOK, SpuriousWakeup, ResumeIn, OuterStep
  <2>2. Inside' = Inside
    BY <2>1, OuterPreserves
  <2>3. UNCHANGED destroyed /\ Pretended' = Pretended
    BY <1>0, <1>11 DEF TypeOK, SpuriousWakeup, ResumeIn, Pretended
  <2>4. FullHasWaiter' /\ Alone' /\ DestroyInv'
    BY <1>0, <1>11, <2>2 DEF TypeOK, SpuriousWakeup, ResumeIn, FullHasWaiter, Alone, DestroyInv
  <2> QED
    BY <2>1, <2>3, <2>4, <1>1
<1> QED
  BY <1>2, <1>3, <1>4, <1>5, <1>6, <1>7, <1>8, <1>9, <1>10, <1>11

\* A thread enters a barrier that is full: it gets no position.
LEMMA EnterFull ==
  ASSUME NEW t \in Threads, IInv, Enter(t), in + 1 > MaxIn
  PROVE  IInv'
<1> USE DEF InRound, Exiting, Labels, Destroying, Entering, Resetting, Added, Goto
<1>0. TypeOK /\ Positions /\ FullHasWaiter /\ Alone /\ ResetInv /\ Accounted /\ DestroyInv /\ RoundFilling
  BY DEF IInv
<1>1. TypeOK' /\ MaxIn \in Nat /\ in >= MaxIn /\ in' = in + 1
  BY <1>0, MaxInFact DEF TypeOK, Enter
<1>2. \A u \in Threads : /\ pc'[u] = IF u = t THEN "waitIn" ELSE pc[u]
                         /\ i'[u] = IF u = t THEN in + 1 ELSE i[u]
  BY <1>0, <1>1 DEF TypeOK, Enter
<1>3. Entered = MaxIn /\ Entered' = MaxIn
  BY <1>0, <1>1 DEF Entered, TypeOK
<1>4. pc[t] = "enter" /\ Inside' = Inside
  BY <1>2, InsideSame DEF Enter
<1>5. ASSUME NEW u \in Threads, pc[u] \in InRound
      PROVE  RoundEnd(i[u]) \in Nat /\ RoundEnd(i[u]) <= MaxIn
  <2>1. i[u] \in Nat /\ i[u] <= MaxIn
    BY <1>0, <1>1, <1>3, <1>5 DEF TypeOK, Positions
  <2> QED
    BY Zenon, <2>1, MaxInFact, EndsBy, Rounds
<1>6. WaitSet = {} /\ WaitSet' = {}
  BY <1>0, <1>1, <1>2, <1>4, <1>5 DEF WaitSet, RoundEnd, TypeOK
<1>7. RoundFilling'
  BY <1>0, <1>3, <1>6 DEF RoundFilling
<1>8. ~Pretended /\ ~Pretended' /\ ~destroyed /\ ~destroyed'
  BY <1>0, <1>2, <1>4 DEF Alone, Pretended, Enter
<1>9. Positions'
  BY <1>0, <1>2, <1>3, <1>4 DEF Positions, Enter
<1>10. FullHasWaiter' /\ Alone'
  BY <1>0, <1>2, <1>4, <1>8 DEF FullHasWaiter, Alone
<1>11. ResetInv' /\ Accounted' /\ DestroyInv'
  BY <1>0, <1>1, <1>2, <1>3, <1>4, <1>8 DEF ResetInv, Accounted, DestroyInv, Enter, TypeOK, Alone
<1> QED
  BY <1>1, <1>7, <1>9, <1>10, <1>11 DEF IInv

\* A thread enters and gets the next position; the round it completes is over
\* for every thread that waited, and no other thread waits less.
LEMMA EnterWaitSet ==
  ASSUME NEW t \in Threads, IInv, Enter(t), in + 1 <= MaxIn
  PROVE  /\ t \notin WaitSet
         /\ (in + 1) % Count = 0 => WaitSet' = {}
         /\ (in + 1) % Count # 0 => WaitSet' = WaitSet \cup {t}
<1> USE DEF InRound, Exiting
<1>0. TypeOK /\ Positions
  BY DEF IInv
<1>1. Entered = in /\ in' = in + 1 /\ in \in Nat /\ pc[t] = "enter"
  BY <1>0, MaxInFact DEF Entered, TypeOK, Enter
<1>2. \A u \in Threads : /\ pc'[u] = IF u = t THEN "loadRound" ELSE pc[u]
                         /\ i'[u] = IF u = t THEN in + 1 ELSE i[u]
  BY <1>0, MaxInFact DEF TypeOK, Enter, Goto
<1> DEFINE G(u) == pc'[u] \in InRound => i'[u] \in Nat /\ i'[u] <= in + 1
<1>3. \A u \in Threads : G(u)
  BY <1>0, <1>1, <1>2 DEF Positions, TypeOK
<1>4. CASE (in + 1) % Count = 0
  <2>1. \A u \in Threads : pc'[u] \in InRound => RoundEnd(i'[u]) <= in + 1 /\ RoundEnd(i'[u]) \in Nat
    BY <1>1, <1>3, <1>4, EndsBy, Rounds
  <2>2. \A u \in Threads : pc'[u] \in InRound => ~(in' < RoundEnd(i'[u]))
    BY <2>1, <1>1
  <2>3. WaitSet' = {}
    BY <2>2 DEF WaitSet, RoundEnd
  <2> QED
    BY <2>3, <1>1, <1>4 DEF WaitSet
<1>5. CASE (in + 1) % Count # 0
  <2>1. \A u \in Threads : pc[u] \in InRound => RoundEnd(i[u]) \in Nat /\ RoundEnd(i[u]) # in + 1
    BY <1>0, <1>1, <1>5, Rounds DEF TypeOK
  <2>2. RoundEnd(in + 1) \in Nat /\ RoundEnd(in + 1) > in + 1
    BY <1>1, <1>5, Rounds
  <2>3. \A u \in Threads : (pc'[u] \in InRound /\ in' < RoundEnd(i'[u])) <=> u = t \/ (pc[u] \in InRound /\ in < RoundEnd(i[u]))
    BY <1>1, <1>2, <2>1, <2>2
  <2>4. WaitSet' = WaitSet \cup {t}
    BY <2>3 DEF WaitSet, RoundEnd
  <2> QED
    BY <2>4, <1>1, <1>5 DEF WaitSet
<1> QED
  BY <1>4, <1>5

LEMMA EnterRound ==
  ASSUME NEW t \in Threads, IInv, Enter(t), in + 1 <= MaxIn
  PROVE  IInv'
<1> USE DEF InRound, Exiting, Labels, Destroying, Entering, Resetting, Added, Goto
<1>0. TypeOK /\ Positions /\ FullHasWaiter /\ Alone /\ ResetInv /\ Accounted /\ DestroyInv /\ RoundFilling
  BY DEF IInv
<1>1. TypeOK' /\ MaxIn \in Nat /\ in' = in + 1 /\ pc[t] = "enter"
  BY <1>0, MaxInFact DEF TypeOK, Enter
<1>2. \A u \in Threads : /\ pc'[u] = IF u = t THEN "loadRound" ELSE pc[u]
                         /\ i'[u] = IF u = t THEN in + 1 ELSE i[u]
  BY <1>0, <1>1 DEF TypeOK, Enter
<1>3. Entered = in /\ Entered' = in + 1 /\ in \in Nat
  <2>1. in \in Nat /\ in <= MaxIn /\ in' <= MaxIn
    BY <1>0, <1>1 DEF TypeOK
  <2> QED
    BY <1>1, <2>1 DEF Entered
<1>4. Inside' = Inside + 1 /\ Inside \in Nat
  <2>0. ~(in + 1 > MaxIn)
    BY <1>1, <1>3
  <2>1. pc' = [pc EXCEPT ![t] = "loadRound"] /\ pc \in [Threads -> Labels]
    BY <1>0, <2>0, Zenon DEF Enter, TypeOK
  <2>2. Inside' = Inside + In("loadRound", InRound) - In("enter", InRound)
    BY Zenon, <2>1, <1>1, InsideMove
  <2> QED
    BY <2>2, InsideFact DEF In
<1>5. RoundFilling'
  <2>1. IsFiniteSet(WaitSet) /\ Cardinality(WaitSet) = in % Count /\ t \notin WaitSet
    BY <1>0, <1>3, BarrierAssumption, FS_Subset, EnterWaitSet DEF RoundFilling, WaitSet
  <2>2. Cardinality(WaitSet \cup {t}) = (in % Count) + 1
    BY <2>1, FS_AddElement
  <2>3. /\ in % Count \in Nat
        /\ (in + 1) % Count = 0 \/ (in + 1) % Count = (in % Count) + 1
    BY <1>3, Successor
  <2>4. CASE (in + 1) % Count = 0
    BY Zenon, <2>4, <1>3, EnterWaitSet, FS_EmptySet DEF RoundFilling
  <2>5. CASE (in + 1) % Count # 0
    BY Zenon, <2>2, <2>3, <2>5, <1>3, EnterWaitSet DEF RoundFilling
  <2> QED
    BY <2>4, <2>5
<1>8. ~Pretended /\ ~Pretended' /\ ~destroyed /\ ~destroyed'
  BY <1>0, <1>1, <1>2 DEF Alone, Pretended, Enter
<1>9. Positions'
  BY <1>0, <1>1, <1>2, <1>3 DEF Positions, Enter, TypeOK
<1>10. FullHasWaiter' /\ Alone'
  <2>1. FullHasWaiter'
    BY <1>1, <1>3 DEF FullHasWaiter
  <2>2. \A u \in Threads : u # t => pc'[u] = pc[u]
    BY <1>2
  <2>3. pc'[t] = "loadRound"
    BY <1>2
  <2>4. Alone'
    BY <1>0, <1>1, <1>8, <2>2, <2>3 DEF Alone
  <2> QED
    BY <2>1, <2>4
<1>11. \A u \in Threads : pc[u] \notin Resetting /\ pc'[u] \notin Resetting
  BY <1>0, <1>1, <1>2, <1>8 DEF ResetInv, TypeOK
<1>12. ResetInv' /\ Accounted' /\ DestroyInv'
  BY <1>0, <1>1, <1>2, <1>3, <1>4, <1>8, <1>11 DEF ResetInv, Accounted, DestroyInv, Enter, TypeOK, Alone
<1> QED
  BY <1>1, <1>5, <1>9, <1>10, <1>12 DEF IInv

\* A thread confirms that it leaves; the last one of a full or destroyed barrier
\* starts the reset.
LEMMA LeavePreserves ==
  ASSUME NEW t \in Threads, IInv, Leave(t)
  PROVE  IInv'
<1> USE DEF InRound, Exiting, Labels, Destroying, Entering, Resetting, Added
<1>0. TypeOK /\ Positions /\ FullHasWaiter /\ Alone /\ ResetInv /\ Accounted /\ DestroyInv /\ RoundFilling
  BY DEF IInv
<1> DEFINE l == IF out + 1 = MaxIn THEN "resetRound" ELSE "idle"
<1>1. pc[t] = "leave" /\ pc' = [pc EXCEPT ![t] = l] /\ l \in {"resetRound", "idle"}
  BY DEF Leave, Goto
<1>2. TypeOK' /\ MaxIn \in Nat
  BY <1>0, MaxInFact DEF TypeOK, Leave, Goto
<1>3. \A u \in Threads : /\ pc'[u] = IF u = t THEN l ELSE pc[u]
                         /\ i'[u] = IF u = t THEN 0 ELSE i[u]
                         /\ cr'[u] = IF u = t THEN 0 ELSE cr[u]
  BY <1>0 DEF TypeOK, Leave, Goto
<1>4. l = "resetRound" <=> out + 1 = MaxIn
  OBVIOUS
<1> HIDE DEF l
<1>5. Inside' = Inside - 1 /\ Inside \in Nat /\ Inside' \in Nat /\ Inside # 0
  <2>1. Inside' = Inside + In(l, InRound) - In("leave", InRound)
    BY Zenon, <1>0, <1>1, InsideMove DEF TypeOK
  <2>2. In(l, InRound) = 0 /\ In("leave", InRound) = 1
    BY <1>1 DEF In
  <2> QED
    BY <2>1, <2>2, <1>1, InsideFact DEF In
<1>6. \A u \in Threads : pc[u] \notin Resetting
  BY <1>0, <1>5 DEF ResetInv
<1>7. in >= RoundEnd(i[t])
  <2>1. current_round \in Nat /\ i[t] \in Nat /\ i[t] <= current_round /\ current_round % Count = 0
    BY <1>0, <1>1 DEF TypeOK, Positions
  <2>2. current_round <= in /\ in \in Nat
    BY <1>0, MaxInFact DEF TypeOK, Positions, Entered
  <2>3. RoundEnd(i[t]) <= current_round /\ RoundEnd(i[t]) \in Nat
    BY <2>1, EndsBy, Rounds
  <2> QED
    BY <2>1, <2>2, <2>3
<1>8. WaitSet' = WaitSet
  <2>1. in' = in /\ in \in Nat /\ RoundEnd(i[t]) \in Nat
    BY <1>0, Rounds DEF Leave, TypeOK
  <2>2. t \notin WaitSet /\ t \notin WaitSet'
    BY <1>1, <1>3, <1>7, <2>1 DEF WaitSet
  <2> QED
    BY <1>3, <2>1, <2>2 DEF WaitSet, RoundEnd
<1>9. Entered' = Entered /\ Entered \in Nat /\ Entered <= MaxIn /\ RoundFilling'
  BY <1>0, <1>2, <1>8 DEF RoundFilling, Entered, Leave, TypeOK
<1>10. Pretended' = Pretended /\ destroyed' = destroyed /\ ~destroyed
  BY <1>0, <1>1, <1>3, <1>5 DEF Pretended, Leave, DestroyInv
<1>11. Positions' /\ FullHasWaiter' /\ Alone'
  BY <1>0, <1>1, <1>3, <1>6, <1>9, <1>10 DEF Positions, FullHasWaiter, Alone, Leave
<1>12. out \in Nat /\ out' = out + 1 /\ (out + Inside = IF Pretended THEN MaxIn ELSE Entered)
  BY <1>0, <1>5, <1>6 DEF Accounted, Leave, TypeOK
<1>13. in' = in /\ in > 0
  BY <1>0, <1>1, <1>2 DEF Leave, Positions, TypeOK, Entered
<1>14. ResetInv'
  <2> SUFFICES ASSUME NEW u \in Threads, pc'[u] \in Resetting
               PROVE  /\ u = t /\ pc'[u] = "resetRound"
                      /\ Inside' = 0
                      /\ in' > 0 /\ (in' >= MaxIn \/ Pretended')
                      /\ out' = MaxIn
    BY <1>10 DEF ResetInv
  <2>1. u = t /\ pc'[u] = "resetRound" /\ out' = MaxIn
    BY <1>1, <1>3, <1>4, <1>6, <1>12
  <2>2. Inside' = 0
    BY <2>1, <1>2, <1>5, <1>9, <1>12
  <2>3. in' >= MaxIn \/ Pretended'
    BY <2>1, <2>2, <1>0, <1>2, <1>5, <1>9, <1>10, <1>12, <1>13 DEF Entered, TypeOK
  <2> QED
    BY <2>1, <2>2, <2>3, <1>13
<1>15. Accounted' /\ DestroyInv'
  BY <1>0, <1>1, <1>3, <1>5, <1>6, <1>9, <1>10, <1>12, <1>13 DEF Accounted, DestroyInv
<1> QED
  BY <1>2, <1>9, <1>11, <1>14, <1>15 DEF IInv

\* The three steps of the reset.
LEMMA ResetPreserves ==
  ASSUME NEW t \in Threads, IInv, ResetRound(t) \/ ResetOut(t) \/ ResetIn(t)
  PROVE  IInv'
<1> USE DEF InRound, Exiting, Labels, Destroying, Entering, Resetting, Added, Goto
<1>0. TypeOK /\ Positions /\ FullHasWaiter /\ Alone /\ ResetInv /\ Accounted /\ DestroyInv /\ RoundFilling
  BY DEF IInv
<1>1. TypeOK' /\ pc[t] \in Resetting
  BY <1>0 DEF TypeOK, ResetRound, ResetOut, ResetIn
<1>2. Inside = 0 /\ Inside' = 0
  <2>1. Inside = 0
    BY <1>0, <1>1 DEF ResetInv
  <2>2. \A u \in Threads : pc'[u] \in InRound <=> pc[u] \in InRound
    BY <1>0 DEF TypeOK, ResetRound, ResetOut, ResetIn
  <2> QED
    BY <2>1, <2>2, InsideSame
<1>3. \A u \in Threads : pc[u] \notin InRound /\ pc'[u] \notin InRound
  <2>1. \A u \in Threads : pc[u] \notin InRound
    BY <1>2, InsideFact
  <2> QED
    BY <2>1, <1>0 DEF TypeOK, ResetRound, ResetOut, ResetIn
<1>4. WaitSet = {} /\ WaitSet' = {}
  BY <1>3 DEF WaitSet
<1>5. Entered % Count = 0 /\ 0 % Count = 0 /\ 0 <= MaxIn /\ MaxIn > 0
  BY <1>0, <1>4, FS_EmptySet, MaxInFact, Rounds DEF RoundFilling
<1>6. Pretended' = Pretended /\ destroyed' = destroyed
  BY <1>0 DEF TypeOK, Pretended, ResetRound, ResetOut, ResetIn
<1>7. \A u \in Threads : pc[u] \in Resetting => u = t
  BY <1>0, <1>1 DEF Alone
<1>8. CASE ResetRound(t) \/ ResetOut(t)
  <2>1. Entered' = Entered /\ Entered \in Nat
    BY <1>0, <1>8, MaxInFact DEF Entered, TypeOK, ResetRound, ResetOut
  <2>2. Positions' /\ RoundFilling'
    BY <1>0, <1>3, <1>4, <1>5, <1>8, <2>1 DEF Positions, RoundFilling, ResetRound, ResetOut
  <2>3. FullHasWaiter' /\ Alone'
    BY <1>0, <1>8 DEF TypeOK, FullHasWaiter, Alone, ResetRound, ResetOut
  <2>4. ResetInv' /\ Accounted' /\ DestroyInv'
    BY <1>0, <1>2, <1>6, <1>7, <1>8 DEF TypeOK, ResetInv, Accounted, DestroyInv, ResetRound, ResetOut
  <2> QED
    BY <1>1, <2>2, <2>3, <2>4 DEF IInv
<1>9. CASE ResetIn(t)
  <2>1. in' = 0 /\ Entered' = 0 /\ current_round' = 0 /\ out' = 0
    BY <1>0, <1>5, <1>9 DEF Entered, TypeOK, ResetIn, ResetInv
  <2>2. \A u \in Threads : pc'[u] \notin Resetting
    BY <1>0, <1>7, <1>9 DEF TypeOK, ResetIn
  <2>3. Positions' /\ RoundFilling'
    BY <1>0, <1>3, <1>4, <1>5, <2>1, FS_EmptySet DEF Positions, RoundFilling
  <2>4. FullHasWaiter'
    BY <1>5, <2>1, MaxInFact DEF FullHasWaiter
  <2>7. Alone'
    BY <1>0, <1>9 DEF TypeOK, Alone, ResetIn
  <2>5. ResetInv' /\ Accounted'
    BY <1>2, <1>6, <2>1, <2>2 DEF ResetInv, Accounted
  <2>6. DestroyInv'
    <3>1. \A u \in Threads : pc'[u] = "d_add" => i'[u] = i[u] /\ pc[u] = "d_add"
      BY <1>0, <1>9 DEF TypeOK, ResetIn
    <3>2. \A u \in Threads : pc[u] = "d_add" => i[u] = in /\ in = MaxIn
      BY <1>0, <1>1, MaxInFact DEF DestroyInv, ResetInv, Pretended, Alone, FullHasWaiter, TypeOK
    <3> QED
      BY <1>2, <2>1, <2>2, <3>1, <3>2 DEF DestroyInv
  <2> QED
    BY <1>1, <2>3, <2>4, <2>5, <2>6, <2>7 DEF IInv
<1> QED
  BY <1>8, <1>9

\* pthread_barrier_destroy pretends that the threshold is reached.
LEMMA DestroyAddPreserves ==
  ASSUME NEW t \in Threads, IInv, DestroyAdd(t)
  PROVE  IInv'
<1> USE DEF InRound, Exiting, Labels, Destroying, Entering, Resetting, Added, Goto
<1>0. TypeOK /\ Positions /\ FullHasWaiter /\ Alone /\ ResetInv /\ Accounted /\ DestroyInv /\ RoundFilling
  BY DEF IInv
<1>1. pc[t] = "d_add" /\ pc' = [pc EXCEPT ![t] = pc'[t]] /\ pc'[t] \in {"d_wait", "idle"}
  BY <1>0 DEF TypeOK, DestroyAdd, DestroyReturn
<1>2. \/ pc'[t] = "d_wait" /\ out < i[t] /\ UNCHANGED <<i, destroyed>>
      \/ pc'[t] = "idle" /\ ~(out < i[t]) /\ destroyed' = TRUE /\ i' = [i EXCEPT ![t] = 0]
  <2>1. pc \in [Threads -> Labels]
    BY <1>0 DEF TypeOK
  <2> QED
    BY <2>1, Zenon DEF DestroyAdd, DestroyReturn, StillExiting
<1>3. \A u \in Threads : pc'[u] = IF u = t THEN pc'[t] ELSE pc[u]
  BY <1>0, <1>1 DEF TypeOK
<1>4. UNCHANGED <<in, current_round, cr>> /\ out' = out + (MaxIn - i[t]) /\ MaxIn \in Nat /\ MaxIn > 0
  BY MaxInFact DEF DestroyAdd
<1>5. Inside' = Inside /\ WaitSet' = WaitSet /\ Inside \in Nat
  BY <1>0, <1>1, <1>2, <1>3, <1>4, InsideSame, InsideFact DEF TypeOK
<1>6. in <= MaxIn /\ Entered = in /\ Entered' = in /\ ~Pretended /\ Pretended' /\ i[t] <= MaxIn
  <2>1. in \in Nat /\ in <= MaxIn
    BY <1>0, <1>1, <1>4 DEF FullHasWaiter, Alone, TypeOK
  <2>2. Entered = in /\ Entered' = in
    BY <2>1, <1>4 DEF Entered
  <2>3. ~Pretended
    BY <1>0, <1>1 DEF Alone, Pretended
  <2>4. Pretended'
    BY <1>2 DEF Pretended
  <2>5. i[t] <= MaxIn
    BY <1>0, <1>1, <1>4, <2>1 DEF DestroyInv
  <2> QED
    BY <2>1, <2>2, <2>3, <2>4, <2>5
<1>7. TypeOK'
  <2>1. pc' \in [Threads -> Labels]
    BY <1>0, <1>1 DEF TypeOK
  <2>2. out' \in Nat
    BY <1>0, <1>4, <1>6 DEF TypeOK
  <2>3. i' \in [Threads -> Nat]
    BY <1>0, <1>2 DEF TypeOK
  <2>4. destroyed' \in BOOLEAN
    BY <1>0, <1>2, Zenon DEF TypeOK
  <2> QED
    BY <1>0, <1>4, <2>1, <2>2, <2>3, <2>4 DEF TypeOK
<1>8. Positions' /\ RoundFilling'
  BY <1>0, <1>1, <1>2, <1>3, <1>4, <1>5, <1>6 DEF TypeOK, Positions, RoundFilling
<1>9. FullHasWaiter'
  BY <1>0, <1>4, <1>6 DEF TypeOK, FullHasWaiter
<1>13. Alone'
  BY <1>0, <1>1, <1>2, <1>3 DEF Alone
<1>10. ResetInv'
  <2> SUFFICES ASSUME NEW u \in Threads, pc'[u] \in Resetting
               PROVE  /\ Inside' = 0
                      /\ in' > 0 /\ in' = MaxIn
                      /\ out' = IF pc'[u] = "resetIn" THEN 0 ELSE MaxIn
                      /\ pc'[u] # "resetRound" => current_round' = 0
    BY <1>6 DEF ResetInv
  <2>1. pc'[u] = pc[u] /\ pc[u] \in Resetting
    BY <1>1, <1>3
  <2>2. in = MaxIn /\ i[t] = in
    BY <1>0, <1>1, <1>4, <1>6, <2>1 DEF ResetInv, DestroyInv, TypeOK
  <2>3. out' = out
    BY <1>0, <1>4, <2>2 DEF TypeOK
  <2> QED
    BY <1>0, <1>4, <1>5, <2>1, <2>2, <2>3 DEF ResetInv
<1>11. Accounted'
  BY <1>0, <1>1, <1>2, <1>3, <1>4, <1>5, <1>6 DEF TypeOK, Accounted, DestroyInv
<1>12. DestroyInv'
  BY <1>0, <1>1, <1>2, <1>3, <1>4, <1>5, <1>6 DEF TypeOK, Accounted, DestroyInv, ResetInv, Alone
<1> QED
  BY <1>7, <1>8, <1>9, <1>10, <1>11, <1>12, <1>13 DEF IInv

\* Every step preserves the inductive invariant.
LEMMA NextIInv == IInv /\ [Next]_vars => IInv'
<1> SUFFICES ASSUME IInv, [Next]_vars PROVE IInv'
  OBVIOUS
<1>1. CASE UNCHANGED vars
  <2>1. Inside' = Inside /\ WaitSet' = WaitSet /\ Entered' = Entered /\ Pretended' = Pretended
    BY <1>1 DEF vars, Inside, WaitSet, RoundEnd, Entered, Pretended
  <2> QED
    BY <1>1, <2>1 DEF vars, IInv, TypeOK, Positions, FullHasWaiter, Alone, ResetInv, Accounted, DestroyInv, RoundFilling
<1>2. ASSUME NEW t \in Threads, Invoke(t) \/ Destroy(t) \/ Step(t) \/ SpuriousWakeup(t)
      PROVE  IInv'
  <2>1. CASE Enter(t)
    <3>1. in + 1 > MaxIn \/ in + 1 <= MaxIn
      BY MaxInFact DEF IInv, TypeOK
    <3> QED
      BY <2>1, <3>1, EnterFull, EnterRound
  <2> QED
    BY <1>2, <2>1, InnerActions, OuterActions, LeavePreserves, ResetPreserves, DestroyAddPreserves DEF Step
<1> QED
  BY <1>1, <1>2 DEF Next

\* The inductive invariant gives what the runs check.
LEMMA IInvImplies == IInv => NoEarlyExit /\ DestroySafeButReset
<1> SUFFICES ASSUME IInv PROVE NoEarlyExit /\ DestroySafeButReset
  OBVIOUS
<1>1. ASSUME NEW t \in Threads, pc[t] = "leave"
      PROVE  in >= RoundEnd(i[t]) /\ current_round >= i[t]
  <2>1. /\ current_round \in Nat /\ i[t] \in Nat /\ i[t] <= current_round /\ current_round % Count = 0
        /\ in \in Nat /\ current_round <= in
    BY <1>1, MaxInFact DEF IInv, TypeOK, Positions, Entered
  <2>2. RoundEnd(i[t]) \in Nat /\ RoundEnd(i[t]) <= current_round
    BY <2>1, EndsBy, Rounds
  <2> QED
    BY <2>1, <2>2
<1>2. (\E t \in Threads : pc[t] \in Resetting) \/ destroyed => \A u \in Threads : pc[u] \notin InRound
  BY InsideFact DEF IInv, ResetInv, DestroyInv
<1>3. NoEarlyExit
  BY <1>1, <1>2 DEF NoEarlyExit, At, Resetting
<1>4. destroyed => \A t \in Threads : pc[t] \in Resetting => in = MaxIn
  BY DEF IInv, ResetInv
<1>5. DestroySafeButReset
  BY <1>2, <1>4 DEF DestroySafeButReset, At, InRound, Exiting, Resetting
<1> QED
  BY <1>3, <1>5

\* No thread leaves pthread_barrier_wait before its round is complete, and the
\* counters are reset only when nobody is inside: for any number of threads, any
\* count and any threshold.
THEOREM NoEarlyExitHolds == Spec => []NoEarlyExit
<1>1. IInv => NoEarlyExit
  BY IInvImplies
<1> QED
  BY InitIInv, NextIInv, <1>1, PTL DEF Spec

\* When pthread_barrier_destroy has returned, nobody but the resetting thread of
\* a barrier that was exactly full accesses the barrier.
THEOREM DestroySafeButResetHolds == Spec => []DestroySafeButReset
<1>1. IInv => DestroySafeButReset
  BY IInvImplies
<1> QED
  BY InitIInv, NextIInv, <1>1, PTL DEF Spec

-----------------------------------------------------------------------------
\* The refinement.

\* A step in which nobody enters, leaves or completes a round is a stutter.
LEMMA SameStatus ==
  ASSUME \A u \in Threads : /\ pc'[u] \in InRound <=> pc[u] \in InRound
                            /\ pc[u] \in InRound => i'[u] = i[u] /\ (in' < RoundEnd(i[u]) <=> in < RoundEnd(i[u]))
  PROVE  status' = status
  BY DEF status, Status, RoundEnd

\* The abstract barrier's waiting threads are those of the incomplete round.
LEMMA WaitingIsWaitSet == Abs!Waiting = WaitSet
  BY DEF Abs!Waiting, WaitSet, Status, status

\* The abstract module counts as this one does.
LEMMA AbsCardinality == Abs!Cardinality(WaitSet) = Cardinality(WaitSet)
  BY Zenon DEF Abs!Cardinality, Cardinality

\* Entering is an arrival; the last thread of a round completes it as the serial
\* thread.
LEMMA EnterRefines ==
  ASSUME NEW t \in Threads, IInv, IInv', Enter(t)
  PROVE  [Abs!Next]_status
<1> USE DEF InRound, Exiting
<1>0. TypeOK /\ Positions /\ RoundFilling /\ MaxIn \in Nat
  BY MaxInFact DEF IInv
<1>1. CASE in + 1 > MaxIn
  <2>1. \A u \in Threads : /\ pc'[u] \in InRound <=> pc[u] \in InRound
                           /\ pc[u] \in InRound => i'[u] = i[u]
    BY <1>0, <1>1 DEF TypeOK, Enter, Goto
  <2>2. ASSUME NEW u \in Threads, pc[u] \in InRound
        PROVE  in' < RoundEnd(i[u]) <=> in < RoundEnd(i[u])
    <3>1. i[u] \in Nat /\ i[u] <= MaxIn /\ in \in Nat /\ in >= MaxIn /\ in' = in + 1
      BY <1>0, <1>1, <2>2 DEF TypeOK, Positions, Entered, Enter
    <3>2. RoundEnd(i[u]) \in Nat /\ RoundEnd(i[u]) <= MaxIn
      BY Zenon, <3>1, EndsBy, Rounds, MaxInFact
    <3> QED
      BY <3>1, <3>2, <1>0
  <2> QED
    BY <2>1, <2>2, SameStatus
<1>2. CASE in + 1 <= MaxIn
  <2>0. /\ in \in Nat /\ in' = in + 1 /\ pc[t] = "enter" /\ Entered = in
        /\ Cardinality(WaitSet) = in % Count
    BY <1>0, <1>2 DEF TypeOK, Enter, Entered, RoundFilling
  <2>1. \A u \in Threads : /\ pc'[u] = IF u = t THEN "loadRound" ELSE pc[u]
                           /\ i'[u] = IF u = t THEN in + 1 ELSE i[u]
    BY <1>0, <1>2, <2>0 DEF TypeOK, Enter, Goto
  <2>2. status[t] = "out"
    BY <2>0 DEF status, Status
  <2>3. in % Count \in Nat /\ (in + 1) % Count = IF (in % Count) + 1 = Count THEN 0 ELSE (in % Count) + 1
    BY <2>0, Successor
  <2>4. \A u \in Threads : u \in WaitSet => pc[u] \in InRound /\ in < RoundEnd(i[u]) /\ u # t
    BY <2>0 DEF WaitSet
  <2>5. \A u \in Threads : u \in WaitSet' <=> pc'[u] \in InRound /\ in' < RoundEnd(i'[u])
    BY DEF WaitSet, RoundEnd
  <2>6. CASE (in + 1) % Count # 0
    <3>1. Abs!Cardinality(Abs!Waiting) + 1 < Count
      BY <2>0, <2>3, <2>6, WaitingIsWaitSet, AbsCardinality, Successor, MaxInFact
    <3>2. WaitSet' = WaitSet \cup {t}
      BY <1>2, <2>6, EnterWaitSet
    <3>3. ASSUME NEW u \in Threads PROVE Status(u)' = IF u = t THEN "waiting" ELSE Status(u)
      <4>1. CASE u = t
        BY <4>1, <2>1, <2>5, <3>2 DEF Status, RoundEnd
      <4>2. CASE u # t
        BY <4>2, <2>1, <2>5, <3>2 DEF Status, RoundEnd, WaitSet
      <4> QED
        BY <4>1, <4>2
    <3>4. status' = [status EXCEPT ![t] = "waiting"]
      BY Zenon, <3>3 DEF status
    <3>5. Abs!Arrive(t)
      BY <2>2, <3>1, <3>4 DEF Abs!Arrive
    <3> QED
      BY <3>5 DEF Abs!Next
  <2>7. CASE (in + 1) % Count = 0
    <3>1. Abs!Cardinality(Abs!Waiting) + 1 = Count
      BY <2>0, <2>3, <2>7, WaitingIsWaitSet, AbsCardinality
    <3>2. WaitSet' = {}
      BY <1>2, <2>7, EnterWaitSet
    <3>3. ASSUME NEW u \in Threads
          PROVE  Status(u)' = IF u = t THEN "serial"
                              ELSE IF u \in Abs!Waiting \cup {t} THEN "released" ELSE Status(u)
      <4>1. CASE u = t
        BY <4>1, <2>1, <2>5, <2>7, <3>2 DEF Status, RoundEnd
      <4>2. CASE u \in WaitSet
        <5>1. i[u] % Count # 0
          <6>1. i[u] \in Nat /\ i[u] <= in
            BY <1>0, <2>0, <2>4, <4>2 DEF Positions, TypeOK
          <6> QED
            BY <2>0, <2>4, <4>2, <6>1, Rounds
        <5> QED
          BY <4>2, <5>1, <2>1, <2>4, <2>5, <3>2, WaitingIsWaitSet DEF Status, RoundEnd
      <4>3. CASE u # t /\ u \notin WaitSet
        BY <4>3, <2>1, <2>5, <3>2, WaitingIsWaitSet DEF Status, RoundEnd, WaitSet
      <4> QED
        BY <4>1, <4>2, <4>3
    <3>4. status' = [u \in Threads |-> IF u = t THEN "serial"
                                          ELSE IF u \in Abs!Waiting \cup {t} THEN "released"
                                          ELSE status[u]]
      BY <3>3 DEF status
    <3>5. Abs!Complete(t)
      BY <2>2, <3>1, <3>4 DEF Abs!Complete
    <3> QED
      BY <3>5 DEF Abs!Next
  <2> QED
    BY <2>6, <2>7
<1> QED
  BY <1>0, <1>1, <1>2 DEF TypeOK

\* Leaving is the return of a released thread.
LEMMA LeaveRefines ==
  ASSUME NEW t \in Threads, IInv, Leave(t)
  PROVE  Abs!Leave(t)
<1>1. pc[t] = "leave" /\ TypeOK /\ in \in Nat /\ RoundEnd(i[t]) \in Nat
  BY Rounds DEF IInv, TypeOK, Leave
<1>2. in >= RoundEnd(i[t])
  BY <1>1, IInvImplies DEF NoEarlyExit, At
<1>3. status[t] \in {"released", "serial"}
  BY <1>1, <1>2 DEF status, Status, InRound, Exiting
<1>4. \A u \in Threads : /\ pc'[u] \in InRound <=> u # t /\ pc[u] \in InRound
                         /\ u # t => i'[u] = i[u]
  BY <1>1 DEF TypeOK, Leave, Goto, InRound, Exiting
<1>5. ASSUME NEW u \in Threads PROVE Status(u)' = IF u = t THEN "out" ELSE Status(u)
  BY <1>4 DEF Leave, Status, RoundEnd
<1>6. status' = [status EXCEPT ![t] = "out"]
  BY <1>5, Zenon DEF status
<1> QED
  BY <1>3, <1>6 DEF Abs!Leave

\* Every step is a step of the abstract barrier or a stutter.
LEMMA NextRefines == IInv /\ IInv' /\ [Next]_vars => [Abs!Next]_status
<1> SUFFICES ASSUME IInv, IInv', [Next]_vars PROVE [Abs!Next]_status
  OBVIOUS
<1>0. TypeOK /\ ResetInv
  BY DEF IInv
<1> DEFINE Quiet == in' = in /\ \A u \in Threads : /\ pc'[u] \in InRound <=> pc[u] \in InRound
                                                   /\ pc[u] \in InRound => i'[u] = i[u]
<1>1. Quiet => status' = status
  BY SameStatus
<1>2. CASE UNCHANGED vars
  BY <1>1, <1>2 DEF vars
<1>3. ASSUME NEW t \in Threads, Invoke(t) \/ Destroy(t) \/ Step(t) \/ SpuriousWakeup(t)
      PROVE  [Abs!Next]_status
  <2> USE DEF InRound, Exiting, Goto
  <2>1. CASE Enter(t)
    BY <2>1, EnterRefines
  <2>2. CASE Leave(t)
    BY <2>2, LeaveRefines DEF Abs!Next
  <2>3. CASE ResetIn(t)
    <3>1. \A u \in Threads : pc[u] \notin InRound
      BY <1>0, <2>3, InsideFact DEF ResetInv, ResetIn, Resetting
    <3>2. \A u \in Threads : pc'[u] \notin InRound
      BY <1>0, <2>3, <3>1 DEF TypeOK, ResetIn
    <3> QED
      BY <3>1, <3>2, SameStatus
  <2>4. CASE WakeRound(t)
    BY <1>0, <1>1, <2>4 DEF WakeRound, WakeAll, futex_wake, ResumeRound, At, TypeOK
  <2>5. CASE WakeIn(t)
    BY <1>0, <1>1, <2>5 DEF WakeIn, WakeAll, futex_wake, ResumeIn, At, TypeOK
  <2>6. CASE LoadRound(t) \/ FinishRounds(t)
    BY <1>0, <1>1, <2>6 DEF TypeOK, LoadRound, FinishRounds, AfterRound
  <2>7. CASE WaitRound(t) \/ ReloadRound(t) \/ ResetRound(t) \/ ResetOut(t)
    BY <1>0, <1>1, <2>7 DEF TypeOK, WaitRound, ReloadRound, ResetRound, ResetOut
  <2>8. CASE Invoke(t) \/ WaitIn(t) \/ ReloadIn(t)
    BY <1>0, <1>1, <2>8 DEF TypeOK, Invoke, WaitIn, ReloadIn
  <2>9. CASE SpuriousWakeup(t)
    BY <1>0, <1>1, <2>9 DEF TypeOK, SpuriousWakeup, ResumeIn
  <2>10. CASE Destroy(t) \/ DestroyLoad(t) \/ DestroyWait(t)
    BY <1>0, <1>1, <2>10 DEF TypeOK, Destroy, DestroyLoad, DestroyWait
  <2>11. CASE DestroyAdd(t) \/ DestroyReload(t)
    BY <1>0, <1>1, <2>11 DEF TypeOK, DestroyAdd, DestroyReload, DestroyReturn
  <2> QED
    BY <1>3, <2>1, <2>2, <2>3, <2>4, <2>5, <2>6, <2>7, <2>8, <2>9, <2>10, <2>11 DEF Step
<1> QED
  BY <1>2, <1>3 DEF Next

\* pthread_barrier_wait implements the abstract barrier: threads are released
\* Count at a time, one of them as the serial thread, across resets of the
\* counters and whatever thread finishes the rounds.
THEOREM Refinement == Spec => ImplementsAbstractBarrier
<1>1. Init => Abs!Init
  BY DEF Init, Abs!Init, status, Status, InRound, Exiting
<1>2. Spec => []IInv
  BY InitIInv, NextIInv, PTL DEF Spec
<1> QED
  BY <1>1, <1>2, NextRefines, PTL DEF Spec, ImplementsAbstractBarrier, Abs!Spec
=============================================================================
