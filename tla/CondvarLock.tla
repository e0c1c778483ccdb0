---------------------------- MODULE CondvarLock ----------------------------
(***************************************************************************)
(* The condvar-internal lock (nptl/pthread_cond_common.c): a three-state   *)
(* lock in the two low bits of __g1_orig_size, which share the word with   *)
(* the size of G1.  The holder updates the size while other threads change *)
(* the lock bits from 1 to 2.                                              *)
(***************************************************************************)
EXTENDS Futex

CONSTANTS Threads,
          NoOwner,    \* not a thread
          Sizes       \* the sizes of G1, 0 among them

Words == [size : Sizes, lock : 0..2]

VARIABLES g1_orig_size,   \* the word: size and lock bits
          pc,             \* pc[t]: what t does next
          s,              \* s[t]: the local s
          stored          \* ghost: the size stored last, or about to be stored

vars == <<g1_orig_size, pc, s, stored>>

Zero == [size |-> 0, lock |-> 0]

Init ==
  /\ g1_orig_size = Zero
  /\ pc = [t \in Threads |-> "idle"]
  /\ s = [t \in Threads |-> Zero]
  /\ stored = 0

Goto(t, label) == pc' = [pc EXCEPT ![t] = label]
Set(t, v) == s' = [s EXCEPT ![t] = v]
At(labels) == {t \in Threads : pc[t] \in labels}
WithLock(v, l) == [v EXCEPT !.lock = l]

-----------------------------------------------------------------------------
\* __condvar_acquire_lock.

Invoke(t) ==
  /\ pc[t] = "idle"
  /\ Goto(t, "load")
  /\ UNCHANGED <<g1_orig_size, s, stored>>

\* The first loop: acquire with 1 while the lock is free.
First(t, v) == Set(t, v) /\ Goto(t, IF v.lock = 0 THEN "cas1" ELSE
                                     IF v.lock = 2 THEN "wait" ELSE "cas2")

Load(t) ==
  /\ pc[t] = "load"
  /\ First(t, g1_orig_size)
  /\ UNCHANGED <<g1_orig_size, stored>>

Held(t) == Goto(t, "held") /\ Set(t, Zero)

CAS1(t) ==
  /\ pc[t] = "cas1"
  /\ IF g1_orig_size = s[t]
       THEN g1_orig_size' = WithLock(s[t], 1) /\ Held(t)
       ELSE First(t, g1_orig_size) /\ UNCHANGED g1_orig_size
  /\ UNCHANGED stored

\* The second loop: change the lock to 2; it is acquired if it was free.
Second(t, v) == Set(t, v) /\ Goto(t, IF v.lock = 2 THEN "wait" ELSE "cas2")

Contended(v) == WithLock(v, 2)

WasFree_NotRequested(v) == v.lock # 2
WasFree(v) == v.lock = 0

CAS2(t) ==
  /\ pc[t] = "cas2"
  /\ IF g1_orig_size = s[t]
       THEN /\ g1_orig_size' = Contended(s[t])
            /\ IF WasFree(s[t]) THEN Held(t) ELSE Goto(t, "wait") /\ UNCHANGED s
       ELSE Second(t, g1_orig_size) /\ UNCHANGED g1_orig_size
  /\ UNCHANGED stored

FutexWait(t) ==
  /\ pc[t] = "wait"
  /\ Goto(t, IF g1_orig_size = Contended(s[t]) THEN "blocked" ELSE "reload")
  /\ Set(t, Zero)
  /\ UNCHANGED <<g1_orig_size, stored>>

SpuriousWakeup(t) ==
  /\ pc[t] = "blocked"
  /\ Goto(t, "reload")
  /\ UNCHANGED <<g1_orig_size, s, stored>>

Reload(t) ==
  /\ pc[t] = "reload"
  /\ Second(t, g1_orig_size)
  /\ UNCHANGED <<g1_orig_size, stored>>

-----------------------------------------------------------------------------
\* __condvar_set_orig_size, by the holder: load the lock bits, exchange the
\* word, and repair the lock bits if they had changed in between.

SetSize(t) ==
  /\ pc[t] = "held"
  /\ \E size \in Sizes :
       /\ Set(t, [size |-> size, lock |-> g1_orig_size.lock])
       /\ stored' = size
  /\ Goto(t, "exchange")
  /\ UNCHANGED g1_orig_size

BitsChanged_Ignored(old, new) == FALSE
BitsChanged(old, new) == old.lock # new.lock

Exchange(t) ==
  /\ pc[t] = "exchange"
  /\ g1_orig_size' = s[t]
  /\ IF BitsChanged(g1_orig_size, s[t])
       THEN Goto(t, "store") /\ UNCHANGED s
       ELSE Goto(t, "held") /\ Set(t, Zero)
  /\ UNCHANGED stored

Store(t) ==
  /\ pc[t] = "store"
  /\ g1_orig_size' = WithLock(s[t], 2)
  /\ Goto(t, "held")
  /\ Set(t, Zero)
  /\ UNCHANGED stored

\* __condvar_release_lock.
Released_Cleared(v) == Zero
Released(v) == WithLock(v, 0)

Release(t) ==
  /\ pc[t] = "held"
  /\ g1_orig_size' = Released(g1_orig_size)
  /\ Goto(t, IF g1_orig_size.lock = 2 THEN "wake" ELSE "idle")
  /\ UNCHANGED <<s, stored>>

Wake(t) ==
  /\ pc[t] = "wake"
  /\ \E W \in futex_wake(At({"blocked"}), 1) :
       pc' = [u \in Threads |-> IF u = t THEN "idle" ELSE IF u \in W THEN "reload" ELSE pc[u]]
  /\ UNCHANGED <<g1_orig_size, s, stored>>

-----------------------------------------------------------------------------
Step(t) ==
  \/ Load(t) \/ CAS1(t) \/ CAS2(t) \/ FutexWait(t) \/ Reload(t)
  \/ Exchange(t) \/ Store(t) \/ Release(t) \/ Wake(t)

Next == \E t \in Threads : Invoke(t) \/ SetSize(t) \/ Step(t) \/ SpuriousWakeup(t)

Spec == Init /\ [][Next]_vars

\* Threads keep running; a holder changes the size a few times, then releases.
FairSpec == Spec /\ \A t \in Threads : WF_vars(Step(t)) /\ SF_vars(Release(t))

-----------------------------------------------------------------------------
Holders == At({"held", "exchange", "store"})

\* The two fields of the word do not disturb each other.  The lock bits are 0
\* exactly while there is no holder: its plain exchange and store never free the
\* lock.  The size is what the last holder stored: no compare-and-swap of a
\* contender, which writes the whole word, brings back an older size.
WordIntact ==
  /\ g1_orig_size.lock = 0 <=> Holders = {}
  /\ At({"exchange"}) = {} => g1_orig_size.size = stored

\* The lock implements the abstract lock that Condvar uses.
OwnerOf(H) == IF H = {} THEN NoOwner ELSE CHOOSE t \in H : TRUE

Abstract == INSTANCE AbstractLock WITH
  owner <- OwnerOf(Holders),
  op <- [t \in Threads |-> IF pc[t] \in {"load", "cas1", "cas2", "wait", "blocked", "reload"}
                           THEN "lock" ELSE "none"]

ImplementsAbstractLock == Abstract!Spec

\* Every contender acquires the lock once no new ones arrive.
EveryCallReturns ==
  (<>[][~\E t \in Threads : Invoke(t)]_vars) => <>[](\A t \in Threads : pc[t] = "idle")
=============================================================================
