---------------------------- MODULE LocksProofs ----------------------------
(***************************************************************************)
(* Proofs about the locks, for any sets of threads: LowLevelLock first,    *)
(* then the lock in the word of a condition variable (names that begin     *)
(* with Cv), pthread_once (Once) and the mutexes of every kind that are    *)
(* not robust (Mutex).  Each part has its inductive invariant, the lemma   *)
(* that a step of one thread keeps it, and its theorems.  What the steps   *)
(* need to know of finite sets is assumed as WakesOne and Countable until  *)
(* the last section, which proves it and the theorems that rest on it.     *)
(***************************************************************************)
EXTENDS Locks, Mutexes, TLAPS

USE SMTT(30), ZenonT(30)

\* What the proofs use of finite sets: a wake-up of one thread wakes waiters, and
\* at least one if there is one;
WakesOne ==
  \A S \in SUBSET Threads : \A W \in futex_wake(S, 1) : W \subseteq S /\ (S # {} => W # {})

\* and the members of a set of threads can be counted.
Countable(T) ==
  \A S \in SUBSET T :
    /\ Cardinality(S) \in Nat
    /\ Cardinality(S) = 0 <=> S = {}
    /\ \A x \in T \ S : Cardinality(S \cup {x}) = Cardinality(S) + 1
    /\ \A x \in S : Cardinality(S \ {x}) = Cardinality(S) - 1

\* The inductive invariant holds initially.
LEMMA InitIInv == Init => IInv
  BY Zenon DEF Init, IInv, TypeOK, CallOK, MutualExclusion, NoLostWakeup, Labels,
         Holders, Blocked

\* MutualExclusion over control locations, as the steps below use it.
LEMMA HoldersFact ==
  ASSUME MutualExclusion
  PROVE  /\ \A t, u \in Threads : pc[t] = "held" /\ pc[u] = "held" => t = u
         /\ futex = 0 <=> \A t \in Threads : pc[t] # "held"
  BY Zenon DEF MutualExclusion, Holders

\* A step of thread t that does not wake anybody: what it does to the word and
\* to t's control.
Moves(t, v, l, c) ==
  /\ v \in {0, 1, 2} /\ l \in Labels /\ c \in LockCalls \cup {"none"}
  /\ futex' = v
  /\ pc' = [pc EXCEPT ![t] = l]
  /\ call' = [call EXCEPT ![t] = c]
  /\ c = "none" <=> l \in {"idle", "held", "wake"}
  /\ l \in {"load", "xchg", "wait", "blocked"} => c \notin TryCalls
  /\ CASE pc[t] = "held" -> v = 0 /\ l # "held"
       [] l = "held" -> futex = 0 /\ v # 0
       [] OTHER -> v = 0 <=> futex = 0
  /\ l = "blocked" => v = 2
  /\ futex = 2 => v = 2 \/ l = "wake"
  /\ pc[t] = "xchg" => v = 2
  /\ pc[t] # "wake"

\* Such a step preserves the inductive invariant.
LEMMA StepOfOne ==
  ASSUME NEW t \in Threads, NEW v, NEW l, NEW c, IInv, Moves(t, v, l, c)
  PROVE  IInv'
<1>1. TypeOK /\ CallOK /\ MutualExclusion /\ NoLostWakeup
  BY Zenon DEF IInv
<1>2. TypeOK' /\ CallOK'
  BY <1>1, Zenon DEF TypeOK, CallOK, Moves
<1>3. \A u \in Threads : pc'[u] = IF u = t THEN l ELSE pc[u]
  BY <1>1, Zenon DEF TypeOK, Moves
<1>4. MutualExclusion'
  <2>1. /\ \A u, w \in Threads : pc'[u] = "held" /\ pc'[w] = "held" => u = w
        /\ futex' = 0 <=> \A u \in Threads : pc'[u] # "held"
    BY <1>1, <1>3, HoldersFact DEF Moves
  <2> QED
    BY <2>1, Zenon DEF MutualExclusion, Holders
<1>5. NoLostWakeup'
  BY <1>1, <1>3, Zenon DEF NoLostWakeup, Blocked, Moves
<1> QED
  BY <1>2, <1>4, <1>5, Zenon DEF IInv

\* Every step preserves the inductive invariant.
LEMMA NextIInv == WakesOne /\ IInv /\ [Next]_vars => IInv'
<1> SUFFICES ASSUME WakesOne, IInv, [Next]_vars PROVE IInv'
  OBVIOUS
<1>0. TypeOK /\ CallOK /\ MutualExclusion /\ NoLostWakeup
  BY Zenon DEF IInv
<1>1. CASE UNCHANGED vars
  BY <1>1, Zenon DEF vars, IInv, TypeOK, CallOK, MutualExclusion, NoLostWakeup, Holders,
     Blocked
<1>2. ASSUME NEW t \in Threads, Step(t) \/ Event(t) PROVE IInv'
  <2>0. futex = 0 <=> \A u \in Threads : pc[u] # "held"
    BY <1>0, HoldersFact, Zenon
  <2>1. CASE Invoke(t)
    <3>1. PICK c \in LockCalls : call' = [call EXCEPT ![t] = c]
      BY <2>1, Zenon DEF Invoke
    <3>2. Moves(t, futex, "first", c)
      BY <1>0, <2>1, <3>1, Zenon DEF Moves, Labels, LockCalls, TryCalls, TypeOK, CallOK,
         Invoke, Goto
    <3> QED
      BY <3>2, StepOfOne, Zenon
  <2>2. CASE CAS(t)
    <3>1. CASE futex = 0 /\ call[t] = "lll_cond_trylock"
      <4>1. Moves(t, 2, "held", "none")
        BY <1>0, <2>0, <2>2, <3>1 DEF Moves, Labels, LockCalls, TryCalls, TypeOK,
           CallOK, CAS, Done, Goto
      <4> QED
        BY <4>1, StepOfOne, Zenon
    <3>2. CASE futex = 0 /\ call[t] # "lll_cond_trylock"
      <4>1. Moves(t, 1, "held", "none")
        BY <1>0, <2>0, <2>2, <3>2 DEF Moves, Labels, LockCalls, TryCalls, TypeOK,
           CallOK, CAS, Done, Goto
      <4> QED
        BY <4>1, StepOfOne, Zenon
    <3>3. CASE futex # 0 /\ call[t] \in TryCalls
      <4>1. Moves(t, futex, "idle", "none")
        BY <1>0, <2>0, <2>2, <3>3, Zenon DEF Moves, Labels, LockCalls, TryCalls, TypeOK,
           CallOK, CAS, Contended, Done, Goto
      <4> QED
        BY <4>1, StepOfOne, Zenon
    <3>4. CASE futex # 0 /\ call[t] = "lll_lock"
      <4>1. Moves(t, futex, "load", call[t])
        BY <1>0, <2>0, <2>2, <3>4, Zenon DEF Moves, Labels, LockCalls, TryCalls, TypeOK,
           CallOK, CAS, Contended, Goto
      <4> QED
        BY <4>1, StepOfOne, Zenon
    <3>5. CASE futex # 0 /\ call[t] = "clocklock"
      <4>1. Moves(t, futex, "xchg", call[t])
        BY <1>0, <2>0, <2>2, <3>5, Zenon DEF Moves, Labels, LockCalls, TryCalls, TypeOK,
           CallOK, CAS, Contended, Goto
      <4> QED
        BY <4>1, StepOfOne, Zenon
    <3>6. call[t] \in TryCalls \cup {"lll_lock", "clocklock"}
      BY <1>0, <2>2, Zenon DEF CAS, TypeOK, CallOK, LockCalls, TryCalls
    <3> QED
      BY <3>1, <3>2, <3>3, <3>4, <3>5, <3>6, Zenon
  <2>3. CASE CondExchange(t)
    <3>1. CASE futex = 0
      <4>1. Moves(t, 2, "held", "none")
        BY <1>0, <2>0, <2>3, <3>1 DEF Moves, Labels, LockCalls, TryCalls, TypeOK,
           CallOK, CondExchange, Done, Goto
      <4> QED
        BY <4>1, StepOfOne, Zenon
    <3>2. CASE futex # 0
      <4>1. Moves(t, 2, "load", call[t])
        BY <1>0, <2>0, <2>3, <3>2 DEF Moves, Labels, LockCalls, TryCalls, TypeOK,
           CallOK, CondExchange, Contended, Goto
      <4> QED
        BY <4>1, StepOfOne, Zenon
    <3> QED
      BY <3>1, <3>2, Zenon
  <2>4. CASE Load(t)
    <3>1. CASE futex = 2
      <4>1. Moves(t, futex, "wait", call[t])
        BY <1>0, <2>0, <2>4, <3>1, Zenon DEF Moves, Labels, LockCalls, TryCalls, TypeOK,
           CallOK, Load, Goto
      <4> QED
        BY <4>1, StepOfOne, Zenon
    <3>2. CASE futex # 2
      <4>1. Moves(t, futex, "xchg", call[t])
        BY <1>0, <2>0, <2>4, <3>2, Zenon DEF Moves, Labels, LockCalls, TryCalls, TypeOK,
           CallOK, Load, Goto
      <4> QED
        BY <4>1, StepOfOne, Zenon
    <3> QED
      BY <3>1, <3>2, Zenon
  <2>5. CASE Exchange(t)
    <3>1. CASE futex = 0
      <4>1. Moves(t, 2, "held", "none")
        BY <1>0, <2>0, <2>5, <3>1 DEF Moves, Labels, LockCalls, TryCalls, TypeOK,
           CallOK, Exchange, ExchangeTo, Acquired, Done, Goto
      <4> QED
        BY <4>1, StepOfOne, Zenon
    <3>2. CASE futex # 0
      <4>1. Moves(t, 2, "wait", call[t])
        BY <1>0, <2>0, <2>5, <3>2 DEF Moves, Labels, LockCalls, TryCalls, TypeOK,
           CallOK, Exchange, ExchangeTo, Acquired, Goto
      <4> QED
        BY <4>1, StepOfOne, Zenon
    <3> QED
      BY <3>1, <3>2, Zenon
  <2>6. CASE FutexWait(t)
    <3>1. CASE futex = 2
      <4>1. Moves(t, futex, "blocked", call[t])
        BY <1>0, <2>0, <2>6, <3>1, Zenon DEF Moves, Labels, LockCalls, TryCalls, TypeOK,
           CallOK, FutexWait, Goto
      <4> QED
        BY <4>1, StepOfOne, Zenon
    <3>2. CASE futex # 2
      <4>1. Moves(t, futex, "xchg", call[t])
        BY <1>0, <2>0, <2>6, <3>2, Zenon DEF Moves, Labels, LockCalls, TryCalls, TypeOK,
           CallOK, FutexWait, Goto
      <4> QED
        BY <4>1, StepOfOne, Zenon
    <3> QED
      BY <3>1, <3>2, Zenon
  <2>7. CASE Unlock(t)
    <3>1. CASE futex = 2
      <4>1. Moves(t, 0, "wake", "none")
        BY <1>0, <2>0, <2>7, <3>1 DEF Moves, Labels, LockCalls, TryCalls, TypeOK,
           CallOK, Unlock, MustWake, Goto
      <4> QED
        BY <4>1, StepOfOne, Zenon
    <3>2. CASE futex # 2
      <4>1. ~ MustWake(futex)
        BY <1>0, <3>2 DEF TypeOK, MustWake
      <4>2. Moves(t, 0, "idle", "none")
        BY <1>0, <2>0, <2>7, <3>2, <4>1, Zenon DEF Moves, Labels, LockCalls, TryCalls,
           TypeOK, CallOK, Unlock, Goto
      <4> QED
        BY <4>2, StepOfOne, Zenon
    <3> QED
      BY <3>1, <3>2, Zenon
  <2>8. CASE SpuriousWakeup(t)
    <3>1. Moves(t, futex, "xchg", call[t])
      BY <1>0, <2>8, Zenon DEF Moves, Labels, LockCalls, TryCalls, TypeOK, CallOK,
         SpuriousWakeup, Goto
    <3> QED
      BY <3>1, StepOfOne, Zenon
  <2>9. CASE TimedOut(t)
    <3>1. Moves(t, futex, "idle", "none")
      BY <1>0, <2>9, Zenon DEF Moves, Labels, LockCalls, TryCalls, TypeOK, CallOK,
         TimedOut, Done, Goto
    <3> QED
      BY <3>1, StepOfOne, Zenon
  <2>10. CASE Wake(t)
    <3>1. PICK W \in futex_wake(Blocked, 1) :
            pc' = [u \in Threads |-> IF u = t THEN "idle"
                                     ELSE IF u \in W THEN "xchg" ELSE pc[u]]
      BY <2>10, Zenon DEF Wake
    <3>2. W \subseteq Blocked /\ (Blocked # {} => W # {})
      <4>1. Blocked \in SUBSET Threads
        BY Zenon DEF Blocked
      <4> QED
        BY <3>1, <4>1, Zenon DEF WakesOne
    <3>3. pc[t] = "wake" /\ UNCHANGED <<futex, call>>
      BY <2>10, Zenon DEF Wake
    <3>4. \A u \in Threads : pc'[u] = IF u = t THEN "idle"
                                      ELSE IF u \in W THEN "xchg" ELSE pc[u]
      BY <3>1, Zenon
    <3>5. TypeOK' /\ CallOK'
      <4>1. TypeOK'
        BY <1>0, <3>1, <3>3, Zenon DEF TypeOK, Labels
      <4>2. \A u \in W : u \in Threads /\ pc[u] = "blocked"
        BY <3>2, Zenon DEF Blocked
      <4>3. CallOK'
        BY <1>0, <3>3, <3>4, <4>2, Zenon DEF CallOK
      <4> QED
        BY <4>1, <4>3, Zenon
    <3>6. MutualExclusion'
      <4>1. \A u \in Threads : pc'[u] = "held" <=> pc[u] = "held"
        BY <3>2, <3>3, <3>4, Zenon DEF Blocked
      <4>2. Holders' = Holders
        BY <4>1, Zenon DEF Holders
      <4> QED
        BY <1>0, <3>3, <4>2, Zenon DEF MutualExclusion
    <3>7. NoLostWakeup'
      <4>1. CASE Blocked = {}
        <5>1. Blocked' = {}
          BY <3>3, <3>4, <4>1, Zenon DEF Blocked
        <5> QED
          BY <5>1, Zenon DEF NoLostWakeup
      <4>2. CASE Blocked # {}
        <5>1. PICK u \in W : u \in Threads /\ u # t
          BY <3>2, <3>3, <4>2, Zenon DEF Blocked
        <5>2. pc'[u] = "xchg"
          BY <3>4, <5>1, Zenon
        <5> QED
          BY <5>1, <5>2, Zenon DEF NoLostWakeup
      <4> QED
        BY <4>1, <4>2, Zenon
    <3> QED
      BY <3>5, <3>6, <3>7, Zenon DEF IInv
  <2> QED
    BY <1>2, <2>1, <2>2, <2>3, <2>4, <2>5, <2>6, <2>7, <2>8, <2>9, <2>10, Zenon DEF
       Step, Event
<1> QED
  BY <1>1, <1>2, Zenon DEF Next

-----------------------------------------------------------------------------
\* Abbreviations for the two parts of a step: the call of t becomes c; t does
\* not hold the lock before or after the step, and nobody else moves.
CallBecomes(t, c) == call' = [call EXCEPT ![t] = c]
Outside(t) ==
  /\ pc[t] # "held" /\ pc'[t] # "held"
  /\ \A u \in Threads \ {t} : pc'[u] = pc[u]

\* The owner of the abstract lock is the holder, if there is one.
LEMMA OwnerOfFact ==
  ASSUME NEW H \in SUBSET Threads, \A t, u \in H : t = u
  PROVE  /\ \A t \in H : OwnerOf(H) = t
         /\ \A t \in Threads : OwnerOf(H) = t => t \in H
         /\ OwnerOf(H) = NoOwner <=> H = {}
  BY LockAssumption, Zenon DEF OwnerOf

\* The pending operations after one call has changed.
LEMMA OpMove ==
  ASSUME TypeOK, NEW t \in Threads, NEW c, CallBecomes(t, c)
  PROVE  [u \in Threads |-> Op(call[u])]' = [[u \in Threads |-> Op(call[u])] EXCEPT ![t] = Op(c)]
  BY Zenon DEF TypeOK, CallBecomes

\* Every step of the low-level lock is a step of the abstract lock or leaves
\* its owner and its pending calls alone.
LEMMA NextRefines ==
  ASSUME IInv, IInv', [Next]_vars
  PROVE  [Abstract!Next]_(Abstract!vars)
<1>0. /\ TypeOK /\ CallOK /\ MutualExclusion
      /\ TypeOK' /\ MutualExclusion'
  BY Zenon DEF IInv
<1> DEFINE op == [u \in Threads |-> Op(call[u])]
           owner == OwnerOf(Holders)
<1>1. /\ \A t \in Threads : pc[t] = "held" => owner = t
      /\ \A t \in Threads : owner = t => pc[t] = "held"
      /\ owner = NoOwner <=> futex = 0
  <2>1. Holders \in SUBSET Threads /\ \A t, u \in Holders : t = u
    BY <1>0, Zenon DEF MutualExclusion, Holders
  <2> QED
    BY <1>0, <2>1, OwnerOfFact, Zenon DEF MutualExclusion, Holders
<1>2. /\ \A t \in Threads : pc'[t] = "held" => owner' = t
      /\ owner' = NoOwner <=> futex' = 0
  <2>1. Holders' \in SUBSET Threads /\ \A t, u \in Holders' : t = u
    BY <1>0, Zenon DEF MutualExclusion, Holders
  <2> QED
    BY <1>0, <2>1, OwnerOfFact, Zenon DEF MutualExclusion, Holders
<1> HIDE DEF owner
<1>3. (\A t \in Threads : pc'[t] = "held" <=> pc[t] = "held") => owner' = owner
  <2>1. (\A t \in Threads : pc'[t] = "held" <=> pc[t] = "held") => Holders' = Holders
    BY Zenon DEF Holders
  <2> QED
    BY <2>1, Zenon DEF owner
<1>4. \A t \in Threads : op[t] = Op(call[t])
  OBVIOUS
<1>5. \A t \in Threads : \A c : CallBecomes(t, c) => op' = [op EXCEPT ![t] = Op(c)]
  BY <1>0, OpMove, Zenon
<1>6. /\ Op("none") = "none"
      /\ Op("clocklock") = "clocklock"
      /\ \A c \in TryCalls : Op(c) = "trylock"
      /\ \A c \in {"lll_lock", "lll_cond_lock"} : Op(c) = "lock"
  BY Zenon DEF Op, TryCalls
<1>7. \A c \in LockCalls : Op(c) \in Abstract!LockOps /\ Op(c) # "none"
  BY <1>6, Zenon DEF LockCalls, TryCalls, Abstract!LockOps
<1> HIDE DEF op
<1> DEFINE Stutter == owner' = owner /\ op' = op
<1>8. Stutter => UNCHANGED Abstract!vars
  BY Zenon DEF Abstract!vars, owner, op
<1>9. CASE UNCHANGED vars
  BY <1>9, <1>8, Zenon DEF vars, owner, op, Holders
<1>10. ASSUME NEW t \in Threads, call[t] \in LockCalls, futex = 0, pc'[t] = "held",
              CallBecomes(t, "none")
       PROVE  Abstract!Next
  <2>1. op[t] # "none" /\ owner = NoOwner /\ owner' = t /\ op' = [op EXCEPT ![t] = "none"]
    <3>1. op' = [op EXCEPT ![t] = "none"]
      BY <1>5, <1>6, <1>10
    <3>2. op[t] # "none"
      BY <1>4, <1>7, <1>10, Zenon
    <3> QED
      BY <1>1, <1>2, <1>10, <3>1, <3>2, Zenon
  <2>2. Abstract!Acquire(t)
    BY <2>1, Zenon DEF Abstract!Acquire, owner, op
  <2> QED
    BY <2>2, Zenon DEF Abstract!Next
<1>11. ASSUME NEW t \in Threads, Outside(t),
              \/ call' = call
              \/ /\ call[t] = "none"
                 /\ \E c \in LockCalls : CallBecomes(t, c)
              \/ /\ CallBecomes(t, "none")
                 /\ call[t] = "clocklock" \/ (call[t] \in TryCalls /\ futex # 0)
       PROVE  Abstract!Next \/ Stutter
  <2>1. owner' = owner
    BY <1>3, <1>11, Zenon DEF Outside
  <2>2. CASE call' = call
    BY <2>1, <2>2, Zenon DEF op
  <2>3. ASSUME call[t] = "none", NEW c \in LockCalls, CallBecomes(t, c)
        PROVE  Abstract!Next
    <3>1. op[t] = "none" /\ owner # t /\ op' = [op EXCEPT ![t] = Op(c)]
      BY <1>1, <1>4, <1>5, <1>6, <1>11, <2>3, Zenon DEF Outside
    <3>2. Abstract!Invoke(t)
      BY <1>7, <2>1, <3>1, Zenon DEF Abstract!Invoke, owner, op
    <3> QED
      BY <3>2, Zenon DEF Abstract!Next
  <2>4. CASE CallBecomes(t, "none") /\ call[t] = "clocklock"
    <3>1. op[t] = "clocklock" /\ op' = [op EXCEPT ![t] = "none"]
      <4>1. op' = [op EXCEPT ![t] = "none"]
        BY <1>5, <1>6, <2>4
      <4> QED
        BY <1>4, <1>6, <2>4, <4>1, Zenon
    <3>2. Abstract!GiveUp(t)
      BY <2>1, <3>1, Zenon DEF Abstract!GiveUp, owner, op
    <3> QED
      BY <3>2, Zenon DEF Abstract!Next
  <2>5. CASE CallBecomes(t, "none") /\ call[t] \in TryCalls /\ futex # 0
    <3>1. op[t] = "trylock" /\ op' = [op EXCEPT ![t] = "none"] /\ owner # NoOwner
      <4>1. op' = [op EXCEPT ![t] = "none"]
        BY <1>5, <1>6, <2>5
      <4>2. op[t] = "trylock"
        BY <1>4, <1>6, <2>5, Zenon
      <4> QED
        BY <1>1, <2>5, <4>1, <4>2, Zenon
    <3>2. Abstract!Busy(t)
      BY <2>1, <3>1, Zenon DEF Abstract!Busy, owner, op
    <3> QED
      BY <3>2, Zenon DEF Abstract!Next
  <2> QED
    BY <1>11, <2>2, <2>3, <2>4, <2>5, Zenon
<1>12. ASSUME NEW t \in Threads, pc[t] = "held", futex' = 0, call' = call
       PROVE  Abstract!Next
  <2>1. owner = t /\ owner' = NoOwner /\ op' = op
    BY <1>1, <1>2, <1>12, Zenon DEF op
  <2>2. Abstract!Release(t)
    BY <2>1, Zenon DEF Abstract!Release, owner, op
  <2> QED
    BY <2>2, Zenon DEF Abstract!Next
<1>13. ASSUME NEW t \in Threads, Step(t) \/ Event(t)
       PROVE  Abstract!Next \/ Stutter
  <2>0. pc \in [Threads -> Labels] /\ call \in [Threads -> LockCalls \cup {"none"}]
    BY <1>0, Zenon DEF TypeOK
  <2>1. CASE Invoke(t)
    BY <2>0, <2>1, <1>0, <1>11, Zenon DEF Outside, CallBecomes, Invoke, Goto, CallOK
  <2>2. CASE CAS(t)
    <3>1. CASE futex = 0
      BY <2>0, <2>2, <3>1, <1>0, <1>10, Zenon DEF CallBecomes, CAS, Done, Goto, CallOK
    <3>2. CASE futex # 0
      BY <2>0, <2>2, <3>2, <1>0, <1>11, Zenon DEF Outside, CallBecomes, CAS, Contended,
         Done, Goto, CallOK, LockCalls, TryCalls
    <3> QED
      BY <3>1, <3>2, Zenon
  <2>3. CASE CondExchange(t)
    <3>1. CASE futex = 0
      BY <2>0, <2>3, <3>1, <1>0, <1>10, Zenon DEF CallBecomes, CondExchange, Done, Goto,
         CallOK
    <3>2. CASE futex # 0
      BY <2>0, <2>3, <3>2, <1>0, <1>11, Zenon DEF Outside, CallBecomes, CondExchange,
         Contended, Done, Goto, CallOK, LockCalls, TryCalls
    <3> QED
      BY <3>1, <3>2, Zenon
  <2>4. CASE Load(t)
    BY <2>0, <2>4, <1>11, Zenon DEF Outside, CallBecomes, Load, Goto
  <2>5. CASE Exchange(t)
    <3>1. CASE futex = 0
      BY <2>0, <2>5, <3>1, <1>0, <1>10, Zenon DEF CallBecomes, Exchange, Acquired, Done,
         Goto, CallOK
    <3>2. CASE futex # 0
      BY <2>0, <2>5, <3>2, <1>11, Zenon DEF Outside, CallBecomes, Exchange, Acquired,
         Goto
    <3> QED
      BY <3>1, <3>2, Zenon
  <2>6. CASE FutexWait(t)
    BY <2>0, <2>6, <1>11, Zenon DEF Outside, CallBecomes, FutexWait, Goto
  <2>7. CASE Unlock(t)
    BY <2>7, <1>12, Zenon DEF Unlock
  <2>8. CASE SpuriousWakeup(t)
    BY <2>0, <2>8, <1>11, Zenon DEF Outside, CallBecomes, SpuriousWakeup, Goto
  <2>9. CASE TimedOut(t)
    <3>1. call[t] = "clocklock" /\ CallBecomes(t, "none")
      BY <2>9, Zenon DEF TimedOut, Done, CallBecomes
    <3>2. Outside(t)
      BY <2>0, <2>9, Zenon DEF TimedOut, Done, Goto, Outside
    <3> QED
      BY <3>1, <3>2, <1>11, Zenon
  <2>10. CASE Wake(t)
    <3>1. PICK W \in SUBSET Blocked :
            pc' = [u \in Threads |-> IF u = t THEN "idle"
                                     ELSE IF u \in W THEN "xchg" ELSE pc[u]]
      BY <2>10, Zenon DEF Wake, futex_wake
    <3>2. \A u \in Threads : pc'[u] = "held" <=> pc[u] = "held"
      BY <2>10, <3>1, Zenon DEF Wake, Blocked
    <3>3. op' = op
      BY <2>10, Zenon DEF Wake, op
    <3> QED
      BY <1>3, <3>2, <3>3, Zenon
  <2> QED
    BY <1>13, <2>1, <2>2, <2>3, <2>4, <2>5, <2>6, <2>7, <2>8, <2>9, <2>10, Zenon DEF
       Step, Event
<1> QED
  BY <1>8, <1>9, <1>13, Zenon DEF Next

-----------------------------------------------------------------------------
\* The lock in __g1_orig_size.
CvConstants == NoOwner \notin CondvarThreads /\ 0 \in Sizes

CvContending == {"load", "cas1", "cas2", "wait", "blocked", "reload"}
CvHolding == {"held", "exchange", "store"}
CvLabels == CvContending \cup CvHolding \cup {"idle", "wake"}

CvTypeOK ==
  /\ g1_orig_size \in C!Words
  /\ cpc \in [CondvarThreads -> CvLabels]
  /\ s \in [CondvarThreads -> C!Words]
  /\ stored \in Sizes

\* One holder, and what its copy of the word is good for.
CvMutualExclusion == \A t, u \in CondvarThreads : cpc[t] \in CvHolding /\ cpc[u] \in CvHolding => t = u

CvCopyOK ==
  \A t \in CondvarThreads :
    /\ cpc[t] = "cas1" => s[t].lock = 0
    /\ cpc[t] \in {"exchange", "store"} => s[t].size = stored /\ s[t].lock # 0

\* WordIntact over control locations.
CvIntact ==
  /\ g1_orig_size.lock = 0 <=> \A t \in CondvarThreads : cpc[t] \notin CvHolding
  /\ (\A t \in CondvarThreads : cpc[t] # "exchange") => g1_orig_size.size = stored

CvIInv == CvTypeOK /\ CvMutualExclusion /\ CvCopyOK /\ CvIntact

\* The inductive invariant holds initially.
LEMMA CvInitIInv == CvConstants /\ C!Init => CvIInv
  BY DEF CvConstants, C!Init, CvIInv, CvTypeOK, C!Words, C!Zero, CvLabels, CvContending,
     CvHolding,
         CvMutualExclusion, CvCopyOK, CvIntact

\* A step of thread t: to label l with copy w, leaving v in the word and z as
\* the size that counts.
CvMoves(t, l, w, v, z) ==
  /\ l \in CvLabels /\ w \in C!Words /\ v \in C!Words /\ z \in Sizes
  /\ cpc' = [cpc EXCEPT ![t] = l]
  /\ s' = [s EXCEPT ![t] = w]
  /\ g1_orig_size' = v
  /\ stored' = z
  /\ l = "cas1" => w.lock = 0
  /\ l \in {"exchange", "store"} => w.size = z /\ w.lock # 0
  /\ cpc[t] \in CvHolding => /\ l \in CvHolding <=> v.lock # 0
                             /\ l = "exchange" \/ v.size = z
  /\ cpc[t] \notin CvHolding => v.size = g1_orig_size.size /\ z = stored
  /\ cpc[t] \notin CvHolding /\ l \in CvHolding =>
        g1_orig_size.lock = 0 /\ v.lock # 0 /\ l = "held"
  /\ cpc[t] \notin CvHolding /\ l \notin CvHolding => (v.lock = 0 <=> g1_orig_size.lock = 0)

\* Such a step preserves the inductive invariant.
LEMMA CvStepOfOne ==
  ASSUME NEW t \in CondvarThreads, NEW l, NEW w, NEW v, NEW z, CvIInv, CvMoves(t, l, w, v, z)
  PROVE  CvIInv'
<1>0. CvTypeOK /\ CvMutualExclusion /\ CvCopyOK /\ CvIntact
  BY Zenon DEF CvIInv
<1>1. CvTypeOK'
  BY <1>0, Zenon DEF CvTypeOK, CvMoves
<1>2. \A u \in CondvarThreads : /\ cpc'[u] = IF u = t THEN l ELSE cpc[u]
                                /\ s'[u] = IF u = t THEN w ELSE s[u]
  BY <1>0, Zenon DEF CvTypeOK, CvMoves
<1>3. CvMutualExclusion'
  BY <1>0, <1>2 DEF CvMutualExclusion, CvIntact, CvMoves
<1>4. CvCopyOK'
  BY <1>0, <1>2 DEF CvMutualExclusion, CvCopyOK, CvMoves, CvHolding
<1>5. CvIntact'
  BY <1>0, <1>2, Zenon DEF CvMutualExclusion, CvIntact, CvMoves, CvHolding
<1> QED
  BY <1>1, <1>3, <1>4, <1>5, Zenon DEF CvIInv

\* Where a step can lead: a call begins, goes on contending, gets the lock, keeps
\* it, or releases it.
CvPath(t, l) ==
  \/ cpc[t] = "idle" /\ l = "load"
  \/ cpc[t] \in CvContending /\ l \in CvContending \cup {"held"}
  \/ cpc[t] \in CvHolding /\ l \in CvHolding
  \/ cpc[t] = "held" /\ l \in {"wake", "idle"}

CvWakes(t) ==
  \E W \in SUBSET C!At({"blocked"}) :
    /\ cpc[t] = "wake"
    /\ cpc' = [u \in CondvarThreads |-> IF u = t THEN "idle" ELSE IF u \in W THEN "reload" ELSE cpc[u]]
    /\ UNCHANGED <<g1_orig_size, s, stored>>

\* Every step is such a move of one thread, or a futex_wake.
LEMMA CvStepMoves ==
  ASSUME CvConstants, CvIInv, NEW t \in CondvarThreads, C!Invoke(t) \/ C!SetSize(t) \/ C!Step(t) \/ C!SpuriousWakeup(t)
  PROVE  CvWakes(t) \/ \E l, w, v, z : CvMoves(t, l, w, v, z) /\ CvPath(t, l)
<1> DEFINE Good == CvWakes(t) \/ \E l, w, v, z : CvMoves(t, l, w, v, z) /\ CvPath(t, l)
           g == g1_orig_size
<1>0. /\ g \in C!Words /\ stored \in Sizes /\ s[t] \in C!Words /\ C!Zero \in C!Words
      /\ s = [s EXCEPT ![t] = s[t]] /\ cpc[t] \in CvLabels
      /\ cpc[t] = "cas1" => s[t].lock = 0
      /\ cpc[t] \in {"exchange", "store"} => s[t].size = stored /\ s[t].lock # 0
      /\ cpc[t] \in {"held", "store"} => g.size = stored
      /\ cpc[t] \in CvHolding => g.lock # 0
  BY DEF CvIInv, CvTypeOK, CvMutualExclusion, CvCopyOK, CvIntact, CvConstants, C!Zero,
     C!Words, CvHolding
<1>1. \A v \in C!Words : \A b \in 0..2 :
        /\ C!WithLock(v, b) \in C!Words /\ C!WithLock(v, b).lock = b /\ C!WithLock(v, b).size = v.size
        /\ v.lock \in 0..2 /\ v.size \in Sizes
  BY Zenon DEF C!WithLock, C!Words
<1>2. ASSUME NEW l, NEW w, NEW v, NEW z, CvMoves(t, l, w, v, z), CvPath(t, l) PROVE Good
  BY <1>2, Zenon
<1> SUFFICES Good
  OBVIOUS
<1> HIDE DEF Good
<1> USE DEF C!Goto, C!Set, C!Held
<1>3. CASE C!Invoke(t)
  <2>1. CvMoves(t, "load", s[t], g, stored) /\ CvPath(t, "load")
    BY <1>3, <1>0, <1>1
      , Zenon DEF C!Invoke, CvMoves, CvPath, CvLabels, CvContending, CvHolding
  <2> QED
    BY <2>1, <1>2, Zenon
<1>4. ASSUME C!First(t, g), cpc[t] \in {"load", "cas1"}, g' = g, stored' = stored PROVE Good
  <2> DEFINE l == IF g.lock = 0 THEN "cas1" ELSE IF g.lock = 2 THEN "wait" ELSE "cas2"
  <2>1. CvMoves(t, l, g, g, stored) /\ CvPath(t, l)
    BY <1>4, <1>0, <1>1
      , Zenon DEF C!First, C!Second, CvMoves, CvPath, CvLabels, CvContending, CvHolding
  <2> QED
    BY <2>1, <1>2, Zenon
<1>5. ASSUME C!Second(t, g), cpc[t] \in {"cas2", "reload"}, g' = g, stored' = stored PROVE Good
  <2> DEFINE l == IF g.lock = 2 THEN "wait" ELSE "cas2"
  <2>1. CvMoves(t, l, g, g, stored) /\ CvPath(t, l)
    BY <1>5, <1>0, <1>1
      , Zenon DEF C!First, C!Second, CvMoves, CvPath, CvLabels, CvContending, CvHolding
  <2> QED
    BY <2>1, <1>2, Zenon
<1>6. CASE C!Load(t)
  BY <1>6, <1>4, Zenon DEF C!Load
<1>7. CASE C!CAS1(t)
  <2>1. CASE g = s[t]
    <3>1. CvMoves(t, "held", C!Zero, C!WithLock(s[t], 1), stored) /\ CvPath(t, "held")
      BY <1>7, <2>1, <1>0, <1>1
         DEF C!CAS1, CvMoves, CvPath, CvLabels, CvContending, CvHolding
    <3> QED
      BY <3>1, <1>2, Zenon
  <2>2. CASE g # s[t]
    BY <1>7, <2>2, <1>4, Zenon DEF C!CAS1
  <2> QED
    BY <2>1, <2>2, Zenon
<1>8. CASE C!CAS2(t)
  <2>1. CASE g = s[t] /\ C!WasFree(s[t])
    <3>1. CvMoves(t, "held", C!Zero, C!WithLock(s[t], 2), stored) /\ CvPath(t, "held")
      BY <1>8, <2>1, <1>0, <1>1
         DEF C!CAS2, C!WasFree, C!Contended, CvMoves, CvPath, CvLabels, CvContending, CvHolding
    <3> QED
      BY <3>1, <1>2, Zenon
  <2>2. CASE g = s[t] /\ ~C!WasFree(s[t])
    <3>1. CvMoves(t, "wait", s[t], C!WithLock(s[t], 2), stored) /\ CvPath(t, "wait")
      BY <1>8, <2>2, <1>0, <1>1
         DEF C!CAS2, C!WasFree, C!Contended, CvMoves, CvPath, CvLabels, CvContending, CvHolding
    <3> QED
      BY <3>1, <1>2, Zenon
  <2>3. CASE g # s[t]
    BY <1>8, <2>3, <1>5, Zenon DEF C!CAS2
  <2> QED
    BY <2>1, <2>2, <2>3, Zenon
<1>9. CASE C!FutexWait(t)
  <2> DEFINE l == IF g1_orig_size = C!Contended(s[t]) THEN "blocked" ELSE "reload"
  <2>1. CvMoves(t, l, C!Zero, g, stored) /\ CvPath(t, l)
    BY <1>9, <1>0, <1>1
      , Zenon DEF C!FutexWait, C!Contended, CvMoves, CvPath, CvLabels, CvContending, CvHolding
  <2> QED
    BY <2>1, <1>2, Zenon
<1>10. CASE C!SpuriousWakeup(t)
  <2>1. CvMoves(t, "reload", s[t], g, stored) /\ CvPath(t, "reload")
    BY <1>10, <1>0, <1>1
      , Zenon DEF C!SpuriousWakeup, CvMoves, CvPath, CvLabels, CvContending, CvHolding
  <2> QED
    BY <2>1, <1>2, Zenon
<1>11. CASE C!Reload(t)
  BY <1>11, <1>5, Zenon DEF C!Reload
<1>12. CASE C!SetSize(t)
  <2>1. PICK size \in Sizes : C!Set(t, [size |-> size, lock |-> g.lock]) /\ stored' = size
    BY <1>12, Zenon DEF C!SetSize
  <2>2. /\ CvMoves(t, "exchange", [size |-> size, lock |-> g.lock], g, size)
        /\ CvPath(t, "exchange")
    BY <1>12, <2>1, <1>0, <1>1
      , Zenon DEF C!SetSize, C!Words, CvMoves, CvPath, CvLabels, CvContending, CvHolding
  <2> QED
    BY <2>2, <1>2, Zenon
<1>13. CASE C!Exchange(t)
  <2>1. CASE C!BitsChanged(g, s[t])
    <3>1. CvMoves(t, "store", s[t], s[t], stored) /\ CvPath(t, "store")
      BY <1>13, <2>1, <1>0, <1>1
        , Zenon DEF C!Exchange, CvMoves, CvPath, CvLabels, CvContending, CvHolding
    <3> QED
      BY <3>1, <1>2, Zenon
  <2>2. CASE ~C!BitsChanged(g, s[t])
    <3>1. CvMoves(t, "held", C!Zero, s[t], stored) /\ CvPath(t, "held")
      BY <1>13, <2>2, <1>0, <1>1
        , Zenon DEF C!Exchange, CvMoves, CvPath, CvLabels, CvContending, CvHolding
    <3> QED
      BY <3>1, <1>2, Zenon
  <2> QED
    BY <2>1, <2>2, Zenon
<1>14. CASE C!Store(t)
  <2>1. CvMoves(t, "held", C!Zero, C!WithLock(s[t], 2), stored) /\ CvPath(t, "held")
    BY <1>14, <1>0, <1>1
       DEF C!Store, CvMoves, CvPath, CvLabels, CvContending, CvHolding
  <2> QED
    BY <2>1, <1>2, Zenon
<1>15. CASE C!Release(t)
  <2> DEFINE l == IF g.lock = 2 THEN "wake" ELSE "idle"
  <2>1. CvMoves(t, l, s[t], C!WithLock(g, 0), stored) /\ CvPath(t, l)
    BY <1>15, <1>0, <1>1
       DEF C!Release, C!Released, CvMoves, CvPath, CvLabels, CvContending, CvHolding
  <2> QED
    BY <2>1, <1>2, Zenon
<1>16. CASE C!Wake(t)
  BY <1>16, Zenon DEF C!Wake, CvWakes, C!futex_wake, Good
<1> QED
  BY <1>3, <1>6, <1>7, <1>8, <1>9, <1>10, <1>11, <1>12, <1>13, <1>14, <1>15, <1>16
    , Zenon DEF C!Step

\* Every step preserves the inductive invariant.
LEMMA CvNextIInv ==
  ASSUME CvConstants, CvIInv, [C!Next]_(C!vars)
  PROVE  CvIInv'
<1>1. CASE UNCHANGED C!vars
  BY <1>1, Zenon DEF C!vars, CvIInv, CvTypeOK, CvMutualExclusion, CvCopyOK, CvIntact
<1>2. ASSUME NEW t \in CondvarThreads, CvWakes(t) PROVE CvIInv'
  BY <1>2 DEF CvWakes, C!At, CvIInv, CvTypeOK, CvMutualExclusion, CvCopyOK, CvIntact,
     CvLabels, CvContending, CvHolding
<1> QED
  BY <1>1, <1>2, CvStepMoves, CvStepOfOne, Zenon DEF C!Next

\* The lock bits say whether there is a holder, whose plain exchange and store
\* never free the lock, and no contender's compare-and-swap brings back an older
\* size of G1.
THEOREM CondvarWordIntactCorrect == C!Spec => []CondvarWordIntact
<1> CvConstants
  BY LocksAssumption, Zenon DEF CvConstants
<1>1. CvIInv => CondvarWordIntact
  BY Zenon DEF CvIInv, CvIntact, CondvarWordIntact, C!WordIntact, C!Holders, CvHolding,
     C!At
<1>2. C!Init => CvIInv
  BY CvInitIInv, Zenon
<1>3. CvIInv /\ [C!Next]_(C!vars) => CvIInv'
  BY CvNextIInv, Zenon
<1> QED
  BY <1>1, <1>2, <1>3, PTL DEF C!Spec

-----------------------------------------------------------------------------
\* A set of at most one holder determines the owner, and is determined by it.
LEMMA CvOwnerOfFact ==
  ASSUME CvConstants, NEW H \in SUBSET CondvarThreads, \A t, u \in H : t = u
  PROVE  /\ \A t \in H : C!OwnerOf(H) = t
         /\ H = {} => C!OwnerOf(H) = NoOwner
<1>1. CASE H = {}
  BY <1>1, Zenon DEF C!OwnerOf
<1>2. ASSUME NEW t \in H PROVE C!OwnerOf(H) = t /\ H # {}
  BY <1>2, Zenon DEF C!OwnerOf
<1> QED
  BY <1>1, <1>2, Zenon

\* The owner and the pending calls of the abstract lock.
CvOwner == C!OwnerOf(C!Holders)
CvOp == [t \in CondvarThreads |-> IF cpc[t] \in {"load", "cas1", "cas2", "wait", "blocked", "reload"}
                                  THEN "lock" ELSE "none"]

\* Every step is a step of the abstract lock, or changes nothing there.
LEMMA CvNextRefines ==
  ASSUME CvConstants, CvIInv, [C!Next]_(C!vars)
  PROVE  [C!Abstract!Next]_(C!Abstract!vars)
<1>1. CvIInv'
  BY CvNextIInv, Zenon
<1>2. \A t \in CondvarThreads : /\ CvOp[t] = IF cpc[t] \in CvContending THEN "lock" ELSE "none"
                                /\ cpc[t] \in CvHolding => CvOwner = t
  <2>1. \A t, u \in C!Holders : t = u
    BY Zenon DEF CvIInv, CvMutualExclusion, C!Holders, C!At, CvHolding
  <2>2. \A t \in C!Holders : CvOwner = t
    BY <2>1, CvOwnerOfFact, Zenon DEF CvOwner, C!Holders, C!At
  <2> QED
    BY <2>2, Zenon DEF CvOp, CvContending, C!Holders, CvHolding, C!At
<1>3. (\A t \in CondvarThreads : cpc[t] \notin CvHolding) => CvOwner = NoOwner
  <2>1. (\A t \in CondvarThreads : cpc[t] \notin CvHolding) => C!Holders = {}
    BY Zenon DEF C!Holders, C!At, CvHolding
  <2> QED
    BY <2>1, Zenon DEF CvOwner, C!OwnerOf
<1>4. \A t \in CondvarThreads : cpc'[t] \in CvHolding => CvOwner' = t
  <2>1. \A t, u \in C!Holders' : t = u
    BY <1>1, Zenon DEF CvIInv, CvMutualExclusion, C!Holders, C!At, CvHolding
  <2>2. \A t \in C!Holders' : C!OwnerOf(C!Holders') = t
    BY <2>1, CvOwnerOfFact, Zenon DEF C!Holders, C!At
  <2>3. CvOwner' = C!OwnerOf(C!Holders')
    BY Zenon DEF CvOwner, C!OwnerOf
  <2> QED
    BY <2>2, <2>3, Zenon DEF C!Holders, CvHolding, C!At
<1>5. (\A t \in CondvarThreads : cpc'[t] \notin CvHolding) => CvOwner' = NoOwner
  <2>1. (\A t \in CondvarThreads : cpc'[t] \notin CvHolding) => C!Holders' = {}
    BY Zenon DEF C!Holders, C!At, CvHolding
  <2> QED
    BY <2>1, Zenon DEF CvOwner, C!OwnerOf
<1>6. (C!Abstract!Next \/ UNCHANGED <<CvOwner, CvOp>>) => [C!Abstract!Next]_(C!Abstract!vars)
  BY Zenon DEF C!Abstract!vars, CvOwner, CvOp
<1>7. CASE UNCHANGED C!vars
  BY <1>6, <1>7 DEF C!vars, CvOwner, C!OwnerOf, CvOp, C!Holders, C!At
<1>8. ASSUME NEW t \in CondvarThreads, CvWakes(t) PROVE UNCHANGED <<CvOwner, CvOp>>
  <2>1. \A u \in CondvarThreads : /\ cpc'[u] \in CvHolding <=> cpc[u] \in CvHolding
                                  /\ cpc'[u] \in CvContending <=> cpc[u] \in CvContending
    BY <1>8, Zenon DEF CvWakes, C!At, CvHolding, CvContending
  <2>2. C!Holders' = C!Holders /\ CvOp' = CvOp
    BY <2>1, Zenon DEF C!Holders, CvHolding, CvContending, C!At, CvOp
  <2> QED
    BY <2>2 DEF CvOwner, C!OwnerOf
<1>9. ASSUME NEW t \in CondvarThreads, NEW l, NEW w, NEW v, NEW z, CvMoves(t, l, w, v, z), CvPath(t, l)
      PROVE  C!Abstract!Next \/ UNCHANGED <<CvOwner, CvOp>>
  <2>1. \A u \in CondvarThreads : cpc'[u] = IF u = t THEN l ELSE cpc[u]
    BY <1>9, Zenon DEF CvMoves, CvIInv, CvTypeOK
  <2>2. CvOp' = [CvOp EXCEPT ![t] = IF l \in CvContending THEN "lock" ELSE "none"]
    BY <2>1, Zenon DEF CvOp, CvContending
  <2>3. (l \in CvHolding <=> cpc[t] \in CvHolding) => CvOwner' = CvOwner
    <3>1. (l \in CvHolding <=> cpc[t] \in CvHolding) => C!Holders' = C!Holders
      BY <2>1, Zenon DEF C!Holders, C!At, CvHolding
    <3>2. C!Holders' = C!Holders => CvOwner' = CvOwner
      BY DEF CvOwner, C!OwnerOf
    <3> QED
      BY <3>1, <3>2, Zenon
  <2>4. CASE cpc[t] = "idle" /\ l = "load"
    <3>1. CvOwner' = CvOwner /\ CvOwner # t
      <4>1. \A u \in CondvarThreads : cpc[u] \in CvHolding => u # t
        BY <2>4, Zenon DEF CvHolding
      <4>2. CvOwner # t
        BY <4>1, <1>2, <1>3, Zenon DEF CvConstants
      <4> QED
        BY <4>2, <2>3, <2>4, Zenon DEF CvHolding
    <3>2. CvOp' = [CvOp EXCEPT ![t] = "lock"] /\ CvOp[t] = "none"
      BY <2>2, <2>4, <1>2, Zenon DEF CvContending
    <3> QED
      BY <3>1, <3>2, Zenon DEF C!Abstract!Next, C!Abstract!Invoke, C!Abstract!LockOps,
         CvOwner, CvOp
  <2>5. CASE cpc[t] \in CvContending /\ l = "held"
    <3>1. CvOwner = NoOwner
      BY <1>9, <2>5, <1>3, Zenon DEF CvMoves, CvIInv, CvIntact, CvContending, CvHolding
    <3>2. CvOwner' = t
      BY <2>1, <2>5, <1>4, Zenon DEF CvHolding
    <3>3. CvOp' = [CvOp EXCEPT ![t] = "none"] /\ CvOp[t] = "lock"
      BY <2>2, <2>5, <1>2, Zenon DEF CvContending
    <3> QED
      BY <3>1, <3>2, <3>3, Zenon DEF C!Abstract!Next, C!Abstract!Acquire, CvOwner, CvOp
  <2>6. CASE cpc[t] = "held" /\ l \in {"wake", "idle"}
    <3>1. CvOwner = t
      BY <2>6, <1>2, Zenon DEF CvHolding
    <3>2. \A u \in CondvarThreads : cpc'[u] \notin CvHolding
      BY <2>1, <2>6, Zenon DEF CvIInv, CvMutualExclusion, CvHolding
    <3>3. CvOwner' = NoOwner
      BY <3>2, <1>5, Zenon
    <3>4. CvOp' = CvOp
      BY <2>2, <2>6, <1>2, Zenon DEF CvContending, CvOp
    <3> QED
      BY <3>1, <3>3, <3>4, Zenon DEF C!Abstract!Next, C!Abstract!Release, CvOwner, CvOp
  <2>7. CASE \/ cpc[t] \in CvContending /\ l \in CvContending
             \/ cpc[t] \in CvHolding /\ l \in CvHolding
    <3>1. CvOwner' = CvOwner
      BY <2>3, <2>7, Zenon DEF CvContending, CvHolding
    <3>2. l \in CvContending <=> cpc[t] \in CvContending
      BY <2>7, Zenon DEF CvContending, CvHolding
    <3>3. CvOp' = CvOp
      BY <2>2, <3>2, Zenon DEF CvContending, CvOp
    <3> QED
      BY <3>1, <3>3, Zenon
  <2> QED
    BY <1>9, <2>4, <2>5, <2>6, <2>7, Zenon DEF CvPath
<1> QED
  BY <1>6, <1>7, <1>8, <1>9, CvStepMoves, Zenon DEF C!Next

\* The lock bits implement the abstract lock that Condvar uses: a thread that has
\* returned from __condvar_acquire_lock is alone until it releases the lock.
THEOREM CondvarRefinement == C!Spec => CondvarImplementsAbstractLock
<1> CvConstants
  BY LocksAssumption, Zenon DEF CvConstants
<1>1. C!Init => C!Abstract!Init
  <2> SUFFICES ASSUME C!Init PROVE C!Abstract!Init
    OBVIOUS
  <2>1. C!Holders = {} /\ \A t \in CondvarThreads : cpc[t] = "idle"
    BY Zenon DEF C!Init, C!Holders, C!At
  <2>2. CvOwner = NoOwner /\ CvOp = [t \in CondvarThreads |-> "none"]
    BY <2>1, Zenon DEF CvOwner, C!OwnerOf, CvOp
  <2> QED
    BY <2>2, Zenon DEF C!Abstract!Init, CvOwner, CvOp
<1>2. CvIInv /\ [C!Next]_(C!vars) => [C!Abstract!Next]_(C!Abstract!vars)
  BY CvNextRefines, Zenon
<1>3. C!Spec => []CvIInv
  BY CvInitIInv, CvNextIInv, PTL DEF C!Spec
<1> QED
  BY <1>1, <1>2, <1>3, PTL
     DEF C!Spec, CondvarImplementsAbstractLock, C!ImplementsAbstractLock, C!Abstract!Spec

-----------------------------------------------------------------------------
\* pthread_once.
\* init_routine does not fork.
OnceConstants == Generations \in Nat \ {0} /\ ForkInInit = FALSE

OnceLabels == {"idle", "fast", "load", "cas", "wait", "blocked", "init", "done", "clear",
               "wakeDone", "wakeClear", "gone"}

\* What once_control can hold, as far as the code looks at it.
OnceWords == {v \in Nat : v = O!PTHREAD_ONCE_DONE \/ ~O!IsDone(v)}

OnceTypeOK ==
  /\ Generations \in Nat \ {0}
  /\ once_control \in OnceWords
  /\ fork_generation \in Nat /\ fork_generation % O!PTHREAD_ONCE_FORK_GEN_INCR = 0
  /\ opc \in [OnceThreads -> OnceLabels]
  /\ val \in [OnceThreads -> Nat]

\* The running initializer is what once_control announces, in the present
\* generation; and a CAS is never tried from the initialized state.
OnceAnnounced ==
  \A t \in OnceThreads :
    /\ opc[t] \in {"init", "done", "clear"} => once_control = O!InProgress
    /\ opc[t] = "cas" => ~O!IsDone(val[t])

OnceAlone ==
  \A t, u \in OnceThreads :
    opc[t] \in {"init", "done", "clear"} /\ opc[u] \in {"init", "done", "clear"} => t = u

OnceIInv == OnceTypeOK /\ OnceAnnounced /\ OnceAlone

\* __fork_generation | __PTHREAD_ONCE_INPROGRESS has the INPROGRESS bit and not
\* the DONE bit, before and after the generation wraps.
LEMMA OnceInProgressFact ==
  ASSUME Generations \in Nat \ {0}, fork_generation \in Nat,
         fork_generation % O!PTHREAD_ONCE_FORK_GEN_INCR = 0
  PROVE  O!InProgress \in Nat /\ O!IsInProgress(O!InProgress) /\ ~O!IsDone(O!InProgress)
<1> DEFINE r == fork_generation % (4 * Generations)
<1>1. r \in Nat /\ r % 4 = 0
  <2> DEFINE n == 4 * Generations
             q == fork_generation \div n
  <2>1. n \in Nat \ {0}
    OBVIOUS
  <2>2. r = fork_generation % n
    OBVIOUS
  <2> HIDE DEF n, r
  <2>3. q \in Nat /\ r \in Nat /\ fork_generation = n * q + r
    BY <2>1, <2>2
  <2> HIDE DEF q
  <2>4. Generations * q \in Nat /\ n * q = 4 * (Generations * q)
    BY <2>3 DEF n
  <2> DEFINE m == Generations * q
  <2>5. m \in Nat /\ fork_generation = 4 * m + r
    BY <2>3, <2>4, Zenon
  <2> HIDE DEF m
  <2> QED
    BY <2>3, <2>5 DEF O!PTHREAD_ONCE_FORK_GEN_INCR
<1> HIDE DEF r
<1>2. O!InProgress = r + 1
  BY Zenon DEF O!InProgress, O!PTHREAD_ONCE_INPROGRESS, O!PTHREAD_ONCE_FORK_GEN_INCR, r
<1> QED
  BY <1>1, <1>2 DEF O!IsInProgress, O!IsDone, O!PTHREAD_ONCE_DONE

\* The inductive invariant holds initially.
LEMMA OnceInitIInv == OnceConstants /\ O!Init => OnceIInv
  BY DEF OnceConstants, O!Init, OnceIInv, OnceTypeOK, OnceWords, O!IsDone,
     OnceAnnounced, OnceAlone, OnceLabels, O!PTHREAD_ONCE_DONE,
         O!PTHREAD_ONCE_FORK_GEN_INCR

\* A step of thread t that neither wakes anybody nor forks: to label l with local
\* w, leaving v in once_control.
OnceMoves(t, l, w, v) ==
  /\ l \in OnceLabels /\ w \in Nat
  /\ opc' = [opc EXCEPT ![t] = l]
  /\ val' = [val EXCEPT ![t] = w]
  /\ once_control' = v
  /\ fork_generation' = fork_generation
  /\ l = "cas" => ~O!IsDone(w)
  /\ \/ v = once_control /\ (l \in {"init", "done", "clear"} => opc[t] = "init")
     \/ v = O!InProgress /\ l \in {"wait", "init"} /\ ~O!IsDone(once_control)
          /\ (l = "init" => once_control # O!InProgress)
     \/ v \in {0, O!PTHREAD_ONCE_DONE} /\ opc[t] \in {"done", "clear"}
          /\ l \in {"wakeDone", "wakeClear"}

\* Such a step preserves the inductive invariant, and the initialized state.
LEMMA OnceStepOfOne ==
  ASSUME NEW t \in OnceThreads, NEW l, NEW w, NEW v, OnceIInv, OnceMoves(t, l, w, v)
  PROVE  OnceIInv' /\ (once_control = O!PTHREAD_ONCE_DONE => UNCHANGED once_control)
<1>0. OnceTypeOK /\ OnceAnnounced /\ OnceAlone
  BY Zenon DEF OnceIInv
<1>1. O!InProgress \in Nat /\ ~O!IsDone(O!InProgress) /\ O!InProgress' = O!InProgress
  BY <1>0, OnceInProgressFact, Zenon DEF OnceTypeOK, OnceMoves, O!InProgress
<1>2. O!IsDone(O!PTHREAD_ONCE_DONE) /\ ~O!IsDone(0) /\ O!PTHREAD_ONCE_DONE \in Nat
  BY DEF O!IsDone, O!PTHREAD_ONCE_DONE
<1>3. \A u \in OnceThreads : /\ opc'[u] = IF u = t THEN l ELSE opc[u]
                             /\ val'[u] = IF u = t THEN w ELSE val[u]
  BY <1>0, Zenon DEF OnceTypeOK, OnceMoves
<1>4. OnceTypeOK'
  <2>1. once_control' \in OnceWords
    BY <1>0, <1>1, <1>2 DEF OnceTypeOK, OnceWords, OnceMoves
  <2> QED
    BY <1>0, <2>1, Zenon DEF OnceTypeOK, OnceMoves
<1>5. OnceAnnounced'
  BY <1>0, <1>1, <1>2, <1>3, Zenon DEF OnceAnnounced, OnceAlone, OnceMoves
<1>6. OnceAlone'
  BY <1>0, <1>1, <1>2, <1>3, Zenon DEF OnceAnnounced, OnceAlone, OnceMoves
<1>7. once_control = O!PTHREAD_ONCE_DONE => once_control' = once_control
  BY <1>0, <1>1, <1>2, Zenon DEF OnceAnnounced, OnceMoves
<1> QED
  BY <1>4, <1>5, <1>6, <1>7, Zenon DEF OnceIInv

\* A step of thread t that reads once_control moves as above.
LEMMA OnceReadMoves ==
  ASSUME NEW t \in OnceThreads, OnceIInv, O!Read(t), UNCHANGED <<once_control, fork_generation>>
  PROVE  \E l, w : OnceMoves(t, l, w, once_control)
<1>1. CASE O!IsDone(once_control)
  <2>1. OnceMoves(t, "idle", 0, once_control)
    BY <1>1, Zenon DEF O!Read, O!Goto, OnceMoves, OnceLabels
  <2> QED
    BY <2>1, Zenon
<1>2. CASE ~O!IsDone(once_control)
  <2>1. OnceMoves(t, "cas", once_control, once_control)
    BY <1>2, Zenon DEF O!Read, O!Goto, OnceMoves, OnceLabels, OnceIInv, OnceTypeOK,
       OnceWords
  <2> QED
    BY <2>1, Zenon
<1> QED
  BY <1>1, <1>2, Zenon

\* Every step preserves the inductive invariant and the initialized state.
LEMMA OnceNextIInv ==
  ASSUME OnceConstants, OnceIInv, [O!Next]_(O!vars)
  PROVE  OnceIInv' /\ (once_control = O!PTHREAD_ONCE_DONE => UNCHANGED once_control)
<1> DEFINE Good == OnceIInv' /\ (once_control = O!PTHREAD_ONCE_DONE => UNCHANGED once_control)
<1>0. OnceTypeOK /\ OnceAnnounced /\ OnceAlone
  BY Zenon DEF OnceIInv
<1>1. CASE UNCHANGED O!vars
  BY <1>1, Zenon DEF O!vars, OnceIInv, OnceTypeOK, OnceAnnounced, OnceAlone,
     O!InProgress
<1>2. ASSUME NEW t \in OnceThreads, NEW l, NEW w, NEW v, OnceMoves(t, l, w, v) PROVE Good
  BY <1>2, OnceStepOfOne, Zenon
<1> HIDE DEF Good
<1>3. ASSUME NEW t \in OnceThreads, O!Step(t) \/ O!Invoke(t) \/ O!SpuriousWakeup(t) \/ O!Canceled(t)
                                            \/ O!Fork(t) \/ O!Create(t)
      PROVE  Good
  <2>0. val[t] \in Nat /\ val = [val EXCEPT ![t] = val[t]]
    BY <1>0, Zenon DEF OnceTypeOK
  <2> USE DEF O!Goto
  <2>1. CASE O!Invoke(t)
    <3>1. OnceMoves(t, "fast", val[t], once_control)
      BY <2>0, <2>1, Zenon DEF O!Invoke, OnceMoves, OnceLabels
    <3> QED
      BY <3>1, <1>2, Zenon
  <2>2. CASE O!Fast(t)
    <3>1. OnceMoves(t, IF O!IsDone(once_control) THEN "idle" ELSE "load", val[t], once_control)
      BY <2>0, <2>2, Zenon DEF O!Fast, OnceMoves, OnceLabels
    <3> QED
      BY <3>1, <1>2, Zenon
  <2>3. CASE O!Load(t)
    BY <2>3, <1>2, OnceReadMoves, Zenon DEF O!Load
  <2>4. CASE O!CAS(t)
    <3>1. CASE once_control # val[t]
      BY <2>4, <3>1, <1>2, OnceReadMoves, Zenon DEF O!CAS
    <3>2. CASE once_control = val[t]
      <4>1. ~O!IsDone(once_control) /\ O!IsInProgress(O!InProgress)
        BY <1>0, <2>4, <3>2, OnceInProgressFact, Zenon DEF O!CAS, OnceAnnounced,
           OnceTypeOK
      <4>2. OnceMoves(t, IF O!OtherIsFaster(val[t]) THEN "wait" ELSE "init", 0, O!InProgress)
        BY <2>4, <3>2, <4>1, Zenon DEF O!CAS, O!OtherIsFaster, OnceMoves, OnceLabels
      <4> QED
        BY <4>2, <1>2, Zenon
    <3> QED
      BY <3>1, <3>2, Zenon
  <2>5. CASE O!Wait(t)
    <3>1. OnceMoves(t, IF once_control = O!InProgress THEN "blocked" ELSE "load", val[t], once_control)
      BY <2>0, <2>5, Zenon DEF O!Wait, OnceMoves, OnceLabels
    <3> QED
      BY <3>1, <1>2, Zenon
  <2>6. CASE O!InitRoutine(t)
    <3>1. OnceMoves(t, "done", val[t], once_control)
      BY <2>0, <2>6, Zenon DEF O!InitRoutine, OnceMoves, OnceLabels
    <3> QED
      BY <3>1, <1>2, Zenon
  <2>7. CASE O!StoreDone(t)
    <3>1. OnceMoves(t, "wakeDone", val[t], O!PTHREAD_ONCE_DONE)
      BY <2>0, <2>7, Zenon DEF O!StoreDone, OnceMoves, OnceLabels
    <3> QED
      BY <3>1, <1>2, Zenon
  <2>8. CASE O!Clear(t)
    <3>1. OnceMoves(t, "wakeClear", val[t], 0)
      BY <2>0, <2>8, Zenon DEF O!Clear, OnceMoves, OnceLabels
    <3> QED
      BY <3>1, <1>2, Zenon
  <2>9. CASE O!SpuriousWakeup(t)
    <3>1. OnceMoves(t, "load", val[t], once_control)
      BY <2>0, <2>9, Zenon DEF O!SpuriousWakeup, OnceMoves, OnceLabels
    <3> QED
      BY <3>1, <1>2, Zenon
  <2>10. CASE O!Canceled(t)
    <3>1. OnceMoves(t, "clear", val[t], once_control)
      BY <2>0, <2>10, Zenon DEF O!Canceled, OnceMoves, OnceLabels
    <3> QED
      BY <3>1, <1>2, Zenon
  <2>11. CASE O!Create(t)
    <3>1. OnceMoves(t, "idle", val[t], once_control)
      BY <2>0, <2>11, Zenon DEF O!Create, OnceMoves, OnceLabels
    <3> QED
      BY <3>1, <1>2, Zenon
  <2>12. CASE O!Wake(t)
    <3>1. PICK W \in SUBSET O!At({"blocked"}) :
            opc' = [u \in OnceThreads |->
                      IF u = t THEN IF opc[t] = "wakeDone" THEN "idle" ELSE "gone"
                      ELSE IF u \in W THEN "load" ELSE opc[u]]
      BY <2>12, Zenon DEF O!Wake, O!futex_wake
    <3>2. UNCHANGED <<once_control, fork_generation, val, O!InProgress>>
      BY <2>12, Zenon DEF O!Wake, O!InProgress
    <3>3. OnceTypeOK' /\ OnceAnnounced' /\ OnceAlone'
      BY <1>0, <3>1, <3>2, Zenon DEF OnceTypeOK, OnceLabels, OnceAnnounced, OnceAlone
    <3> QED
      BY <3>2, <3>3, Zenon DEF Good, OnceIInv
  <2>13. CASE O!Fork(t)
    <3>1. OnceTypeOK'
      BY <1>0, <2>13 DEF O!Fork, OnceTypeOK, OnceLabels, O!PTHREAD_ONCE_FORK_GEN_INCR
    <3>2. \A u \in OnceThreads : opc'[u] \in {"idle", "gone"}
      BY <1>0, <2>13, Zenon DEF OnceConstants, O!Fork, OnceTypeOK
    <3> QED
      BY <2>13, <3>1, <3>2, Zenon DEF O!Fork, Good, OnceIInv, OnceAnnounced, OnceAlone
  <2> QED
    BY <1>3, <2>1, <2>2, <2>3, <2>4, <2>5, <2>6, <2>7, <2>8, <2>9, <2>10, <2>11, <2>12,
       <2>13
      , Zenon DEF O!Step
<1> QED
  BY <1>1, <1>3, Zenon DEF O!Next, Good

\* If init_routine does not fork, no cancellation, fork or late compare-and-swap
\* undoes the initialized state.
THEOREM DoneIsFinalCorrect == O!Spec => DoneIsFinal
<1> OnceConstants
  BY LocksAssumption, Zenon DEF OnceConstants
<1>1. /\ OnceIInv /\ [O!Next]_(O!vars) => OnceIInv'
      /\ OnceIInv /\ [O!Next]_(O!vars) =>
           [once_control = O!PTHREAD_ONCE_DONE => UNCHANGED once_control]_(O!vars)
  BY OnceNextIInv, Zenon
<1> QED
  BY <1>1, OnceInitIInv, PTL DEF O!Spec, DoneIsFinal, O!DoneIsFinal

-----------------------------------------------------------------------------
\* The mutexes.
\* 0 is nobody's id, and __count can hold at least 1.
MutexConstants ==
  /\ Countable(MutexThreads)
  /\ Nobody \notin MutexThreads
  /\ COUNT_MAX \in Nat \ {0}

MutexLabels == {"idle", "incond", "acquire", "acquired", "incr", "decr", "release"}
MutexOps == M!LockOps \cup {"unlock", "cond_unlock", "none"}
MutexResults == {"0", "EAGAIN", "EDEADLK", "EBUSY", "ETIMEDOUT", "EPERM"}

MutexTypeOK ==
  /\ mkind \in M!Kinds \cup {"destroyed"}
  /\ holder \in MutexThreads \cup {Nobody}
  /\ mowner \in MutexThreads \cup {Nobody}
  /\ mcount \in 0..COUNT_MAX
  /\ mpc \in [MutexThreads -> MutexLabels]
  /\ mop \in [MutexThreads -> MutexOps]
  /\ ret \in [MutexThreads -> MutexResults]
  /\ level \in [MutexThreads -> Nat]

\* The holder of the low-level lock is the thread between the acquisition and the
\* recording of its ownership, the one that owns the mutex, or the one between
\* the reset of the owner and the release.
MutexHolding(t) == level[t] > 0 \/ mpc[t] \in {"acquired", "decr", "release"}

MutexHoldInv(t) ==
  /\ holder = t <=> MutexHolding(t)
  /\ mowner = t <=> level[t] > 0
  /\ mpc[t] \in {"acquired", "decr", "release"} => level[t] = 0
  /\ mpc[t] = "incr" => level[t] > 0
  /\ mkind = "recursive" /\ level[t] > 0 => mcount = level[t]

\* Where a function can be when.
MutexOpInv(t) ==
  /\ mpc[t] \in {"idle", "incond"} => mop[t] = "none"
  /\ mpc[t] \in {"acquire", "acquired", "incr"} => mop[t] \in M!LockOps
  /\ mpc[t] = "incr" => mop[t] # "cond_lock"
  /\ mpc[t] = "decr" => mop[t] = "unlock"
  /\ mpc[t] = "release" => mop[t] \in {"unlock", "cond_unlock"}
  /\ mkind = "destroyed" => mpc[t] = "idle" /\ level[t] = 0

MutexRetInv(t) ==
  mpc[t] = "idle" =>
     /\ ret[t] = "EDEADLK" => level[t] > 0
     /\ ret[t] = "EPERM" => level[t] = 0
     /\ ret[t] = "EAGAIN" => level[t] = COUNT_MAX

\* __nusers counts the threads that own the mutex, or that are or will be
\* waiting on a condition variable with it.
MutexUses(l, o, n) ==
  \/ n > 0 /\ l # "incr"
  \/ l \in {"incond", "decr"}
  \/ l \in {"acquire", "acquired"} /\ o = "cond_lock"
  \/ l = "release" /\ o = "cond_unlock"

MutexCounts(t) == MutexUses(mpc[t], mop[t], level[t])

MutexCounted == {t \in MutexThreads : MutexCounts(t)}

MutexThreadInv(t) == MutexHoldInv(t) /\ MutexOpInv(t) /\ MutexRetInv(t)
MutexIInv == MutexTypeOK /\ (\A t \in MutexThreads : MutexThreadInv(t)) /\ nusers = Cardinality(MutexCounted)

\* The test for a wrap of the counter finds its limit and nothing else.
LEMMA MutexWrapFact ==
  ASSUME MutexConstants, NEW c \in 0..COUNT_MAX
  PROVE  M!WouldWrap(c) <=> c = COUNT_MAX
<1> DEFINE n == COUNT_MAX + 1
<1>1. n \in Nat \ {0} /\ c + 1 \in 1..n /\ (c = COUNT_MAX <=> c + 1 = n)
  BY DEF MutexConstants
<1> HIDE DEF n
<1>2. (c + 1) % n = 0 <=> c + 1 = n
  <2>1. CASE c + 1 = n
    BY <1>1, <2>1
  <2>2. CASE c + 1 < n
    <3>1. (c + 1) % n = c + 1
      BY <1>1, <2>2
    <3> QED
      BY <1>1, <2>2, <3>1
  <2> QED
    BY <1>1, <2>1, <2>2
<1> QED
  BY <1>1, <1>2, Zenon DEF M!WouldWrap, n

\* How the number of users changes when only thread t moves.
LEMMA MutexCountMove ==
  ASSUME MutexConstants, NEW t \in MutexThreads,
         \A u \in MutexThreads \ {t} : MutexCounts(u)' <=> MutexCounts(u)
  PROVE  /\ Cardinality(MutexCounted) \in Nat
         /\ MutexCounts(t)' /\ ~MutexCounts(t) => Cardinality(MutexCounted') = Cardinality(MutexCounted) + 1
         /\ ~MutexCounts(t)' /\ MutexCounts(t) => Cardinality(MutexCounted') = Cardinality(MutexCounted) - 1
         /\ (MutexCounts(t)' <=> MutexCounts(t)) => Cardinality(MutexCounted') = Cardinality(MutexCounted)
<1>1. MutexCounted \in SUBSET MutexThreads
  BY Zenon DEF MutexCounted
<1>2. MutexCounts(t)' /\ ~MutexCounts(t) => MutexCounted' = MutexCounted \cup {t} /\ t \notin MutexCounted
  BY Zenon DEF MutexCounted
<1>3. ~MutexCounts(t)' /\ MutexCounts(t) => MutexCounted' = MutexCounted \ {t} /\ t \in MutexCounted
  BY Zenon DEF MutexCounted
<1>4. (MutexCounts(t)' <=> MutexCounts(t)) => MutexCounted' = MutexCounted
  BY Zenon DEF MutexCounted
<1>5. Cardinality(MutexCounted) \in Nat
  BY <1>1, Zenon DEF MutexConstants, Countable
<1>6. CASE MutexCounts(t)' /\ ~MutexCounts(t)
  BY <1>1, <1>2, <1>5, <1>6, Zenon DEF MutexConstants, Countable
<1>7. CASE ~MutexCounts(t)' /\ MutexCounts(t)
  BY <1>1, <1>3, <1>5, <1>7, Zenon DEF MutexConstants, Countable
<1> QED
  BY <1>4, <1>5, <1>6, <1>7, Zenon

\* The inductive invariant holds initially.
LEMMA MutexInitIInv == MutexConstants /\ M!Init => MutexIInv
<1> SUFFICES ASSUME MutexConstants, M!Init PROVE MutexIInv
  OBVIOUS
<1>1. MutexTypeOK
  BY DEF MutexConstants, M!Init, MutexTypeOK, M!Kinds, MutexLabels, MutexOps,
     MutexResults
<1>2. \A t \in MutexThreads : MutexThreadInv(t)
  BY DEF MutexConstants, M!Init, MutexThreadInv, MutexHoldInv, MutexHolding, MutexOpInv,
     MutexRetInv, M!Kinds
<1>3. MutexCounted = {}
  BY DEF M!Init, MutexCounted, MutexCounts, MutexUses
<1>4. Cardinality(MutexCounted) = 0
  BY <1>3, Zenon DEF MutexConstants, Countable
<1> QED
  BY <1>1, <1>2, <1>4, Zenon DEF M!Init, MutexIInv

\* A step of thread t: to label l in function o with result r and n holds.
MutexMoves(t, l, o, r, n) ==
  /\ l \in MutexLabels /\ o \in MutexOps /\ r \in MutexResults /\ n \in Nat
  /\ mpc' = [mpc EXCEPT ![t] = l]
  /\ mop' = [mop EXCEPT ![t] = o]
  /\ ret' = [ret EXCEPT ![t] = r]
  /\ level' = [level EXCEPT ![t] = n]
  /\ mcount' \in 0..COUNT_MAX

\* What such a step must do to the mutex.
MutexProper(t, l, o, r, n) ==
  /\ mkind' = mkind /\ mkind # "destroyed"
  /\ \/ holder' = holder /\ (MutexHolding(t) <=> n > 0 \/ l \in {"acquired", "decr", "release"})
     \/ holder = Nobody /\ holder' = t /\ l = "acquired"
     \/ mpc[t] = "release" /\ holder' = Nobody /\ n = 0 /\ l \in {"idle", "incond"}
  /\ \/ mowner' = mowner /\ (n > 0 <=> level[t] > 0)
     \/ holder = t /\ mowner' = t /\ n > 0
     \/ mowner = t /\ mowner' = Nobody /\ n = 0
  /\ mcount' = mcount \/ holder = t
  /\ l \in {"acquired", "decr", "release"} => n = 0
  /\ l = "incr" => n > 0
  /\ mkind = "recursive" /\ n > 0 => mcount' = n
  /\ l \in {"idle", "incond"} => o = "none"
  /\ l \in {"acquire", "acquired", "incr"} => o \in M!LockOps
  /\ l = "incr" => o # "cond_lock"
  /\ l = "decr" => o = "unlock"
  /\ l = "release" => o \in {"unlock", "cond_unlock"}
  /\ l = "idle" => /\ r = "EDEADLK" => n > 0
                   /\ r = "EPERM" => n = 0
                   /\ r = "EAGAIN" => n = COUNT_MAX
  /\ nusers' = nusers + (IF MutexUses(l, o, n) THEN 1 ELSE 0) - (IF MutexCounts(t) THEN 1 ELSE 0)

\* Such a step preserves the inductive invariant.
LEMMA MutexStepOfOne ==
  ASSUME MutexConstants, MutexIInv, NEW t \in MutexThreads, NEW l, NEW o, NEW r, NEW n,
         MutexMoves(t, l, o, r, n), MutexProper(t, l, o, r, n)
  PROVE  MutexIInv'
<1>0. MutexTypeOK /\ (\A u \in MutexThreads : MutexThreadInv(u)) /\ nusers = Cardinality(MutexCounted)
  BY Zenon DEF MutexIInv
<1>1. MutexTypeOK'
  BY <1>0, Zenon DEF MutexTypeOK, MutexMoves, MutexProper
<1>2. /\ mpc'[t] = l /\ mop'[t] = o /\ ret'[t] = r /\ level'[t] = n
      /\ \A u \in MutexThreads \ {t} :
            mpc'[u] = mpc[u] /\ mop'[u] = mop[u] /\ ret'[u] = ret[u] /\ level'[u] = level[u]
  BY <1>0, Zenon DEF MutexTypeOK, MutexMoves
<1>3. (MutexCounts(t)' <=> MutexUses(l, o, n)) /\ \A u \in MutexThreads \ {t} : MutexCounts(u)' <=> MutexCounts(u)
  BY <1>2, Zenon DEF MutexCounts, MutexUses
<1>4. nusers' = Cardinality(MutexCounted')
  BY <1>0, <1>3, MutexCountMove DEF MutexProper
<1>5. MutexHoldInv(t)'
  BY <1>0, <1>2 DEF MutexThreadInv, MutexHoldInv, MutexHolding, MutexProper,
     MutexConstants
<1>6. MutexOpInv(t)' /\ MutexRetInv(t)'
  BY <1>2, Zenon DEF MutexOpInv, MutexRetInv, MutexProper
<1>7. ASSUME NEW u \in MutexThreads \ {t} PROVE MutexThreadInv(u)'
  <2>1. holder' = u <=> holder = u
    BY <1>0, <1>7, Zenon DEF MutexThreadInv, MutexHoldInv, MutexHolding, MutexProper,
       MutexConstants
  <2>2. mowner' = u <=> mowner = u
    BY <1>0, <1>7 DEF MutexThreadInv, MutexHoldInv, MutexHolding, MutexProper,
       MutexConstants
  <2>3. level[u] > 0 => mcount' = mcount
    BY <1>0, <1>7, Zenon DEF MutexThreadInv, MutexHoldInv, MutexHolding, MutexProper
  <2>4. MutexHoldInv(u)'
    BY <1>0, <1>2, <1>7, <2>1, <2>2, <2>3, Zenon DEF MutexThreadInv, MutexHoldInv,
       MutexHolding, MutexProper
  <2>5. MutexOpInv(u)' /\ MutexRetInv(u)'
    BY <1>0, <1>2, <1>7, Zenon DEF MutexThreadInv, MutexOpInv, MutexRetInv, MutexProper
  <2> QED
    BY <2>4, <2>5, Zenon DEF MutexThreadInv
<1> QED
  BY <1>1, <1>4, <1>5, <1>6, <1>7, Zenon DEF MutexIInv, MutexThreadInv

\* Every step preserves the inductive invariant.
LEMMA MutexNextIInv ==
  ASSUME MutexConstants, MutexIInv, [M!Next]_(M!vars)
  PROVE  MutexIInv'
<1>0. MutexTypeOK /\ (\A u \in MutexThreads : MutexThreadInv(u)) /\ nusers = Cardinality(MutexCounted)
  BY Zenon DEF MutexIInv
<1>1. nusers \in Nat
  <2>1. MutexCounted \in SUBSET MutexThreads
    BY Zenon DEF MutexCounted
  <2> QED
    BY <1>0, <2>1, Zenon DEF MutexConstants, Countable
<1>2. CASE UNCHANGED M!vars
  BY <1>0, <1>2, Zenon DEF M!vars, MutexIInv, MutexTypeOK, MutexThreadInv, MutexHoldInv,
     MutexHolding, MutexOpInv, MutexRetInv, MutexCounted,
                    MutexCounts, MutexUses
<1>3. ASSUME NEW t \in MutexThreads,
             \/ M!Lock(t) \/ M!Acquire(t) \/ M!Busy(t) \/ M!TimedOut(t) \/ M!RecordOwner(t) \/ M!Incr(t)
             \/ M!Unlock(t) \/ M!Decr(t) \/ M!Release(t) \/ M!Destroy(t)
      PROVE  MutexIInv'
  <2>0. /\ MutexHoldInv(t) /\ MutexOpInv(t) /\ MutexRetInv(t)
        /\ mpc[t] \in MutexLabels /\ mop[t] \in MutexOps /\ ret[t] \in MutexResults /\ level[t] \in Nat
        /\ mcount \in 0..COUNT_MAX /\ COUNT_MAX \in Nat
        /\ mpc = [mpc EXCEPT ![t] = mpc[t]] /\ mop = [mop EXCEPT ![t] = mop[t]]
        /\ ret = [ret EXCEPT ![t] = ret[t]] /\ level = [level EXCEPT ![t] = level[t]]
        /\ holder \in MutexThreads \cup {Nobody} /\ mowner \in MutexThreads \cup {Nobody}
        /\ Nobody \notin MutexThreads
    BY <1>0, Zenon DEF MutexTypeOK, MutexThreadInv, MutexConstants
  <2> USE <1>1, <2>0 DEF M!Goto, M!Return, MutexMoves, MutexLabels, MutexOps, MutexResults, M!LockOps
  <2>1. CASE M!Lock(t)
    <3>1. PICK o \in M!LockOps : M!LockEntry(t, o)
      BY <2>1, Zenon DEF M!Lock
    <3>2. CASE mkind = "recursive" /\ mowner = t /\ M!WouldWrap(mcount)
      <4>1. level[t] = COUNT_MAX
        BY <3>2, MutexWrapFact, Zenon DEF MutexHoldInv
      <4>2. MutexMoves(t, "idle", "none", "EAGAIN", level[t])
        BY <3>1, <3>2, Zenon DEF M!LockEntry, M!Relock
      <4>3. MutexProper(t, "idle", "none", "EAGAIN", level[t])
        BY <3>1, <3>2, <4>1 DEF M!LockEntry, M!Relock, MutexProper, MutexHolding,
           MutexHoldInv, MutexOpInv, MutexCounts, MutexUses
      <4> QED
        BY <4>2, <4>3, MutexStepOfOne, Zenon
    <3>3. CASE mkind = "recursive" /\ mowner = t /\ ~M!WouldWrap(mcount)
      <4>1. mcount + 1 \in 0..COUNT_MAX
        BY <3>3, MutexWrapFact
      <4>2. MutexMoves(t, "idle", "none", "0", level[t] + 1)
        BY <3>1, <3>3, <4>1 DEF M!LockEntry, M!Relock
      <4>3. MutexProper(t, "idle", "none", "0", level[t] + 1)
        BY <3>1, <3>3 DEF M!LockEntry, M!Relock, MutexProper, MutexHolding,
           MutexHoldInv, MutexOpInv, MutexCounts, MutexUses
      <4> QED
        BY <4>2, <4>3, MutexStepOfOne, Zenon
    <3>4. CASE ~(mkind = "recursive" /\ mowner = t) /\ M!SelfDeadlock(t, o)
      <4>1. MutexMoves(t, "idle", "none", "EDEADLK", level[t])
        BY <3>1, <3>4, Zenon DEF M!LockEntry
      <4>2. MutexProper(t, "idle", "none", "EDEADLK", level[t])
        BY <3>1, <3>4 DEF M!LockEntry, M!SelfDeadlock, MutexProper, MutexHolding,
           MutexHoldInv, MutexOpInv, MutexCounts, MutexUses
      <4> QED
        BY <4>1, <4>2, MutexStepOfOne, Zenon
    <3>5. CASE ~(mkind = "recursive" /\ mowner = t) /\ ~M!SelfDeadlock(t, o)
      <4>1. MutexMoves(t, "acquire", o, ret[t], level[t])
        BY <3>1, <3>5, Zenon DEF M!LockEntry
      <4>2. MutexProper(t, "acquire", o, ret[t], level[t])
        BY <3>1, <3>5 DEF M!LockEntry, MutexProper, MutexHolding, MutexHoldInv,
           MutexOpInv, MutexCounts, MutexUses
      <4> QED
        BY <4>1, <4>2, MutexStepOfOne, Zenon
    <3> QED
      BY <3>2, <3>3, <3>4, <3>5, Zenon
  <2>2. CASE M!Acquire(t)
    <3>1. MutexMoves(t, "acquired", mop[t], ret[t], level[t])
      BY <2>2, Zenon DEF M!Acquire
    <3>2. MutexProper(t, "acquired", mop[t], ret[t], level[t])
      BY <2>2 DEF M!Acquire, MutexProper, MutexHolding, MutexHoldInv, MutexOpInv,
         MutexCounts, MutexUses
    <3> QED
      BY <3>1, <3>2, MutexStepOfOne, Zenon
  <2>3. CASE M!Busy(t)
    <3>1. MutexMoves(t, "idle", "none", "EBUSY", level[t])
      BY <2>3, Zenon DEF M!Busy
    <3>2. MutexProper(t, "idle", "none", "EBUSY", level[t])
      BY <2>3 DEF M!Busy, MutexProper, MutexHolding, MutexHoldInv, MutexOpInv,
         MutexCounts, MutexUses
    <3> QED
      BY <3>1, <3>2, MutexStepOfOne, Zenon
  <2>4. CASE M!TimedOut(t)
    <3>1. MutexMoves(t, "idle", "none", "ETIMEDOUT", level[t])
      BY <2>4, Zenon DEF M!TimedOut
    <3>2. MutexProper(t, "idle", "none", "ETIMEDOUT", level[t])
      BY <2>4 DEF M!TimedOut, MutexProper, MutexHolding, MutexHoldInv, MutexOpInv,
         MutexCounts, MutexUses
    <3> QED
      BY <3>1, <3>2, MutexStepOfOne, Zenon
  <2>5. CASE M!RecordOwner(t) /\ M!NoIncr(mop[t])
    <3>1. MutexMoves(t, "idle", "none", "0", level[t] + 1)
      BY <2>5 DEF M!RecordOwner, MutexConstants
    <3>2. MutexProper(t, "idle", "none", "0", level[t] + 1)
      BY <2>5 DEF M!RecordOwner, M!NoIncr, MutexProper, MutexHolding, MutexHoldInv,
         MutexOpInv, MutexCounts, MutexUses
    <3> QED
      BY <3>1, <3>2, MutexStepOfOne, Zenon
  <2>6. CASE M!RecordOwner(t) /\ ~M!NoIncr(mop[t])
    <3>1. MutexMoves(t, "incr", mop[t], ret[t], level[t] + 1)
      BY <2>6 DEF M!RecordOwner, MutexConstants
    <3>2. MutexProper(t, "incr", mop[t], ret[t], level[t] + 1)
      BY <2>6 DEF M!RecordOwner, M!NoIncr, MutexProper, MutexHolding, MutexHoldInv,
         MutexOpInv, MutexCounts, MutexUses
    <3> QED
      BY <3>1, <3>2, MutexStepOfOne, Zenon
  <2>7. CASE M!Incr(t)
    <3>1. MutexMoves(t, "idle", "none", "0", level[t])
      BY <2>7, Zenon DEF M!Incr
    <3>2. MutexProper(t, "idle", "none", "0", level[t])
      BY <2>7 DEF M!Incr, MutexProper, MutexHolding, MutexHoldInv, MutexOpInv,
         MutexCounts, MutexUses
    <3> QED
      BY <3>1, <3>2, MutexStepOfOne, Zenon
  <2>8. CASE M!Unlock(t)
    <3>1. PICK o \in {"unlock", "cond_unlock"} : M!UnlockEntry(t, o)
      BY <2>8, Zenon DEF M!Unlock
    <3>2. CASE M!NotOwner(t)
      <4>1. MutexMoves(t, "idle", "none", "EPERM", level[t])
        BY <3>1, <3>2, Zenon DEF M!UnlockEntry
      <4>2. MutexProper(t, "idle", "none", "EPERM", level[t])
        BY <3>1, <3>2 DEF M!UnlockEntry, M!NotOwner, MutexProper, MutexHolding,
           MutexHoldInv, MutexOpInv, MutexCounts, MutexUses
      <4> QED
        BY <4>1, <4>2, MutexStepOfOne, Zenon
    <3>3. CASE ~M!NotOwner(t)
      <4>1. level[t] > 0 /\ mowner = t /\ holder = t
        BY <3>1, <3>3, Zenon DEF M!UnlockEntry, M!NotOwner, MutexHoldInv, MutexHolding
      <4>2. CASE mkind = "recursive" /\ mcount # 1
        <5>1. MutexMoves(t, M!AfterUnlock(o), "none", "0", level[t] - 1)
          BY <3>1, <3>3, <4>1, <4>2 DEF M!UnlockEntry, M!AfterUnlock, MutexOpInv,
             MutexHoldInv
        <5>2. MutexProper(t, M!AfterUnlock(o), "none", "0", level[t] - 1)
          BY <3>1, <3>3, <4>1, <4>2
             DEF M!UnlockEntry, M!AfterUnlock, MutexProper, MutexHolding, MutexHoldInv, MutexOpInv, MutexCounts, MutexUses
        <5> QED
          BY <5>1, <5>2, MutexStepOfOne, Zenon
      <4>3. CASE ~(mkind = "recursive" /\ mcount # 1)
        <5>1. MutexMoves(t, IF o = "unlock" THEN "decr" ELSE "release", o, ret[t], 0)
          BY <3>1, <3>3, <4>3 DEF M!UnlockEntry
        <5>2. MutexProper(t, IF o = "unlock" THEN "decr" ELSE "release", o, ret[t], 0)
          BY <3>1, <3>3, <4>1, <4>3
             DEF M!UnlockEntry, M!ResetOwner, MutexProper, MutexHolding, MutexHoldInv, MutexOpInv, MutexCounts, MutexUses
        <5> QED
          BY <5>1, <5>2, MutexStepOfOne, Zenon
      <4> QED
        BY <4>2, <4>3, Zenon
    <3> QED
      BY <3>2, <3>3, Zenon
  <2>9. CASE M!Decr(t)
    <3>1. MutexMoves(t, "release", mop[t], ret[t], level[t])
      BY <2>9, Zenon DEF M!Decr
    <3>2. MutexProper(t, "release", mop[t], ret[t], level[t])
      BY <2>9 DEF M!Decr, MutexProper, MutexHolding, MutexHoldInv, MutexOpInv,
         MutexCounts, MutexUses
    <3> QED
      BY <3>1, <3>2, MutexStepOfOne, Zenon
  <2>10. CASE M!Release(t)
    <3>1. MutexMoves(t, M!AfterUnlock(mop[t]), "none", "0", level[t])
      BY <2>10, Zenon DEF M!Release, M!AfterUnlock
    <3>2. MutexProper(t, M!AfterUnlock(mop[t]), "none", "0", level[t])
      BY <2>10 DEF M!Release, M!AfterUnlock, MutexProper, MutexHolding, MutexHoldInv,
         MutexOpInv, MutexCounts, MutexUses
    <3> QED
      BY <3>1, <3>2, MutexStepOfOne, Zenon
  <2>11. CASE M!Destroy(t) /\ M!DestroyBusy
    <3>1. MutexMoves(t, "idle", "none", "EBUSY", level[t])
      BY <2>11, Zenon DEF M!Destroy
    <3>2. MutexProper(t, "idle", "none", "EBUSY", level[t])
      BY <2>11 DEF M!Destroy, MutexProper, MutexHolding, MutexHoldInv, MutexOpInv,
         MutexCounts, MutexUses
    <3> QED
      BY <3>1, <3>2, MutexStepOfOne, Zenon
  <2>12. CASE M!Destroy(t) /\ ~M!DestroyBusy
    <3>1. /\ mpc' = mpc /\ mop' = mop /\ level' = level /\ mkind' = "destroyed"
          /\ UNCHANGED <<holder, mowner, mcount, nusers>>
          /\ ret' = [ret EXCEPT ![t] = "0"]
      BY <2>12, Zenon DEF M!Destroy, MutexOpInv
    <3>2. MutexCounted \in SUBSET MutexThreads /\ Cardinality(MutexCounted) = 0
      BY <1>0, <2>12, Zenon DEF M!DestroyBusy, MutexCounted
    <3>3. MutexCounted = {}
      BY <3>2, Zenon DEF MutexConstants, Countable
    <3>4. \A u \in MutexThreads : mpc[u] = "idle" /\ level[u] = 0
      BY <1>0, <2>12, <3>3 DEF M!Destroy, MutexCounted, MutexCounts, MutexUses,
         MutexTypeOK
    <3>5. MutexTypeOK'
      BY <1>0, <3>1, Zenon DEF MutexTypeOK
    <3>6. \A u \in MutexThreads : MutexThreadInv(u)'
      BY <1>0, <3>1, <3>4, Zenon DEF MutexTypeOK, MutexThreadInv, MutexHoldInv,
         MutexHolding, MutexOpInv, MutexRetInv
    <3>7. nusers' = Cardinality(MutexCounted')
      BY <1>0, <3>1, Zenon DEF MutexCounted, MutexCounts, MutexUses
    <3> QED
      BY <3>5, <3>6, <3>7, Zenon DEF MutexIInv
  <2> QED
    BY <1>3, <2>1, <2>2, <2>3, <2>4, <2>5, <2>6, <2>7, <2>8, <2>9, <2>10, <2>11, <2>12,
       Zenon
<1> QED
  BY <1>2, <1>3, Zenon DEF M!Next

-----------------------------------------------------------------------------
\* The facts about finite sets, and the theorems that need them.
F == INSTANCE FiniteSetTheorems

\* The operators of FiniteSets are the same in the instance.
LEMMA SameSets == \A S : Cardinality(S) = F!Cardinality(S) /\ (IsFiniteSet(S) <=> F!IsFiniteSet(S))
<1>1. \A S : Cardinality(S) = F!Cardinality(S)
  BY Zenon DEF Cardinality, F!Cardinality
<1>2. \A S : IsFiniteSet(S) <=> F!IsFiniteSet(S)
  BY Zenon DEF IsFiniteSet, F!IsFiniteSet
<1> QED
  BY <1>1, <1>2, Zenon

\* The empty set and a singleton have their sizes.
LEMMA NoneOrOne ==
  /\ \A S : IsFiniteSet(S) => (Cardinality(S) = 0 <=> S = {})
  /\ Cardinality({}) = 0
  /\ \A x : Cardinality({x}) = 1
  BY SameSets, F!FS_EmptySet, F!FS_Singleton, Zenon

\* The members of a finite set of threads can be counted.
LEMMA CountableHolds ==
  ASSUME NEW T, IsFiniteSet(T)
  PROVE  Countable(T)
<1> SUFFICES ASSUME NEW S \in SUBSET T
             PROVE  /\ Cardinality(S) \in Nat
                    /\ Cardinality(S) = 0 <=> S = {}
                    /\ \A x \in T \ S : Cardinality(S \cup {x}) = Cardinality(S) + 1
                    /\ \A x \in S : Cardinality(S \ {x}) = Cardinality(S) - 1
  BY Zenon DEF Countable
<1>1. IsFiniteSet(S)
  BY SameSets, F!FS_Subset, Zenon
<1>2. Cardinality(S) \in Nat
  BY <1>1, SameSets, F!FS_CardinalityType, Zenon
<1>3. \A x \in T \ S : Cardinality(S \cup {x}) = Cardinality(S) + 1
  BY <1>1, SameSets, F!FS_AddElement, Zenon
<1>4. \A x \in S : Cardinality(S \ {x}) = Cardinality(S) - 1
  BY <1>1, SameSets, F!FS_RemoveElement, Zenon
<1> QED
  BY <1>1, <1>2, <1>3, <1>4, NoneOrOne, Zenon

\* A wake-up of one thread wakes one of the waiters.
LEMMA WakesOneHolds == WakesOne
<1> SUFFICES ASSUME NEW S \in SUBSET Threads, NEW W \in futex_wake(S, 1)
             PROVE  W \subseteq S /\ (S # {} => W # {})
  BY Zenon DEF WakesOne
<1>1. W \subseteq S
  BY Zenon DEF futex_wake
<1>2. Cardinality(W) = 1 \/ W = S
  BY Zenon DEF futex_wake
<1>3. W = {} => Cardinality(W) # 1
  BY NoneOrOne
<1> QED
  BY <1>1, <1>2, <1>3, Zenon

\* Every step of the low-level lock preserves its inductive invariant.
LEMMA Preserved == IInv /\ [Next]_vars => IInv'
  BY WakesOneHolds, NextIInv, Zenon

\* Mutual exclusion of lll_lock, lll_cond_lock, lll_trylock and
\* __futex_clocklock64 against lll_unlock.
THEOREM MutualExclusionCorrect == Spec => []MutualExclusion
<1>1. IInv => MutualExclusion
  BY Zenon DEF IInv
<1> QED
  BY <1>1, InitIInv, Preserved, PTL DEF Spec

\* lll_unlock never leaves a blocked thread behind without a wake-up to come.
THEOREM NoLostWakeupCorrect == Spec => []NoLostWakeup
<1>1. IInv => NoLostWakeup
  BY Zenon DEF IInv
<1> QED
  BY <1>1, InitIInv, Preserved, PTL DEF Spec

\* The low-level lock implements the abstract lock.
THEOREM Refinement == Spec => ImplementsAbstractLock
<1>1. Init => Abstract!Init
  <2> SUFFICES ASSUME Init PROVE Abstract!Init
    OBVIOUS
  <2>1. Holders = {} /\ \A t \in Threads : call[t] = "none"
    BY Zenon DEF Init, Holders
  <2>2. OwnerOf(Holders) = NoOwner
    BY <2>1, Zenon DEF OwnerOf
  <2>3. [t \in Threads |-> Op(call[t])] = [t \in Threads |-> "none"]
    BY <2>1, Zenon DEF Op, TryCalls
  <2> QED
    BY <2>2, <2>3, Zenon DEF Abstract!Init
<1>2. IInv /\ IInv' /\ [Next]_vars => [Abstract!Next]_(Abstract!vars)
  BY NextRefines, Zenon
<1>3. Spec => []IInv
  BY InitIInv, Preserved, PTL DEF Spec
<1> QED
  BY <1>1, <1>2, <1>3, PTL DEF Spec, ImplementsAbstractLock, Abstract!Spec

\* The operator of the instance is that of FiniteSets.
LEMMA OnceCardinality == \A S : O!Cardinality(S) = Cardinality(S)
  BY Zenon DEF O!Cardinality, Cardinality

\* If init_routine does not fork, then for any number of threads, forks and
\* generations (also after the generation has wrapped) at most one thread runs it.
THEOREM OneInitializerCorrect == O!Spec => []OneInitializer
<1> OnceConstants
  BY LocksAssumption, Zenon DEF OnceConstants
<1>1. ASSUME OnceIInv PROVE OneInitializer
  <2>1. once_control = O!PTHREAD_ONCE_DONE => O!Initializing = {}
    BY <1>1, OnceInProgressFact
       DEF OnceIInv, OnceTypeOK, OnceAnnounced, O!Initializing, O!At, O!IsDone, O!PTHREAD_ONCE_DONE
  <2>2. O!Initializing = {} \/ \E t \in OnceThreads : O!Initializing = {t}
    BY <1>1 DEF OnceIInv, OnceAlone, O!Initializing, O!At
  <2>3. Cardinality(O!Initializing) <= 1
    <3>1. CASE O!Initializing = {}
      BY <3>1, NoneOrOne
    <3>2. ASSUME NEW t \in OnceThreads, O!Initializing = {t} PROVE Cardinality(O!Initializing) <= 1
      <4>1. Cardinality({t}) = 1
        BY NoneOrOne, Zenon
      <4> QED
        BY <3>2, <4>1
    <3> QED
      BY <2>2, <3>1, <3>2, Zenon
  <2> QED
    BY <2>1, <2>3, OnceCardinality, Zenon DEF OneInitializer, O!OneInitializer
<1>2. OnceIInv /\ [O!Next]_(O!vars) => OnceIInv'
  BY OnceNextIInv, Zenon
<1> QED
  BY <1>1, <1>2, OnceInitIInv, PTL DEF O!Spec

\* A thread that finds its own id in __owner holds the mutex, of whatever kind,
\* and a recursive mutex counts its holds; EDEADLK, EPERM and EAGAIN are returned
\* for the reasons that POSIX gives.
THEOREM OwnershipExactCorrect == M!Spec => []OwnershipExact
<1> MutexConstants
  BY MutexesAssumption, CountableHolds, Zenon DEF MutexConstants
<1>1. MutexIInv => M!OwnershipExact
  BY Zenon DEF MutexIInv, MutexTypeOK, MutexThreadInv, MutexHoldInv, MutexHolding,
     M!OwnershipExact
<1>2. MutexIInv => M!ErrorsJustified
  BY Zenon DEF MutexIInv, MutexThreadInv, MutexRetInv, M!ErrorsJustified
<1>3. MutexIInv => OwnershipExact
  BY <1>1, <1>2, Zenon DEF OwnershipExact
<1>4. M!Init => MutexIInv
  BY MutexInitIInv, Zenon
<1>5. MutexIInv /\ [M!Next]_(M!vars) => MutexIInv'
  BY MutexNextIInv, Zenon
<1> QED
  BY <1>3, <1>4, <1>5, PTL DEF M!Spec

\* The operator of the instance is that of FiniteSets.
LEMMA MutexCardinality == \A S : M!Cardinality(S) = Cardinality(S)
  BY Zenon DEF M!Cardinality, Cardinality

\* __nusers counts the users of a mutex, and none is destroyed under them.
THEOREM NusersExactCorrect == M!Spec => []NusersExact
<1> MutexConstants
  BY MutexesAssumption, CountableHolds, Zenon DEF MutexConstants
<1>1. ASSUME MutexIInv PROVE NusersExact
  <2>1. mkind = "destroyed" => M!InUse = {}
    BY <1>1 DEF MutexIInv, MutexThreadInv, MutexOpInv, M!InUse
  <2>2. (\A t \in MutexThreads : mpc[t] \in {"idle", "incond"}) => M!InUse = MutexCounted
    BY Zenon DEF M!InUse, MutexCounted, MutexCounts, MutexUses
  <2> QED
    BY <1>1, <2>1, <2>2, MutexCardinality, Zenon DEF MutexIInv, NusersExact,
       M!NusersExact
<1>2. M!Init => MutexIInv
  BY MutexInitIInv, Zenon
<1>3. MutexIInv /\ [M!Next]_(M!vars) => MutexIInv'
  BY MutexNextIInv, Zenon
<1> QED
  BY <1>1, <1>2, <1>3, PTL DEF M!Spec
=============================================================================
