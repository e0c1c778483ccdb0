---------------------------- MODULE LowLevelLock ----------------------------
(***************************************************************************)
(* The low-level lock that every internal lock of the library and every    *)
(* plain mutex is built on: lll_lock, lll_cond_lock, lll_trylock,          *)
(* lll_cond_trylock and lll_unlock (sysdeps/nptl/lowlevellock.h,           *)
(* nptl/lowlevellock.c) and __futex_clocklock64                            *)
(* (sysdeps/nptl/futex-internal.h).                                        *)
(*                                                                         *)
(* The word is 0 (free), 1 (acquired, nobody is blocked) or 2 (acquired,   *)
(* threads may be blocked).  A step is one atomic access or system call.   *)
(***************************************************************************)
EXTENDS Futex

CONSTANTS Threads,
          NoOwner     \* not a thread

ASSUME LockAssumption == IsFiniteSet(Threads) /\ NoOwner \notin Threads

VARIABLES futex,      \* the lock word
          pc,         \* pc[t]: the access t performs next
          call        \* call[t]: the operation t is executing

vars == <<futex, pc, call>>

LockCalls == {"lll_lock", "lll_cond_lock", "lll_trylock", "lll_cond_trylock",
              "clocklock"}
TryCalls == {"lll_trylock", "lll_cond_trylock"}

Labels == {"idle", "first", "load", "xchg", "wait", "blocked", "held", "wake"}

Blocked == {t \in Threads : pc[t] = "blocked"}

Init ==
  /\ futex = 0
  /\ pc = [t \in Threads |-> "idle"]
  /\ call = [t \in Threads |-> "none"]

Goto(t, label) == pc' = [pc EXCEPT ![t] = label]
Done(t, label) == Goto(t, label) /\ call' = [call EXCEPT ![t] = "none"]

Invoke(t) ==
  /\ pc[t] = "idle"
  /\ Goto(t, "first")
  /\ \E c \in LockCalls : call' = [call EXCEPT ![t] = c]
  /\ UNCHANGED futex

-----------------------------------------------------------------------------
\* Where a call that found the lock taken continues: trylock returns,
\* lll_lock and lll_cond_lock call __lll_lock_wait, __futex_clocklock64 loops.
Contended(t) ==
  CASE call[t] \in TryCalls -> Done(t, "idle")
    [] call[t] \in {"lll_lock", "lll_cond_lock"} -> Goto(t, "load") /\ UNCHANGED call
    [] call[t] = "clocklock" -> Goto(t, "xchg") /\ UNCHANGED call

\* The compare-and-swap from 0 that all calls but lll_cond_lock start with.
\* The condition variable's variant acquires with "possibly waiters".
CAS(t) ==
  /\ pc[t] = "first"
  /\ call[t] # "lll_cond_lock"
  /\ IF futex = 0
       THEN /\ futex' = IF call[t] = "lll_cond_trylock" THEN 2 ELSE 1
            /\ Done(t, "held")
       ELSE Contended(t) /\ UNCHANGED futex

CondExchange(t) ==
  /\ pc[t] = "first"
  /\ call[t] = "lll_cond_lock"
  /\ futex' = 2
  /\ IF futex = 0 THEN Done(t, "held") ELSE Contended(t)

\* __lll_lock_wait: skip the first exchange if the word is 2 already.
Load(t) ==
  /\ pc[t] = "load"
  /\ Goto(t, IF futex = 2 THEN "wait" ELSE "xchg")
  /\ UNCHANGED <<futex, call>>

\* The loop condition of __lll_lock_wait and __futex_clocklock64.  Whoever
\* acquires the lock after having waited keeps the word at 2: others may still
\* be blocked.
ExchangeTo == 2

Acquired_NotContended(oldval) == oldval # 2
Acquired(oldval) == oldval = 0

Exchange(t) ==
  /\ pc[t] = "xchg"
  /\ futex' = ExchangeTo
  /\ IF Acquired(futex) THEN Done(t, "held") ELSE Goto(t, "wait") /\ UNCHANGED call

\* futex_wait blocks while the word is still 2.
FutexWait(t) ==
  /\ pc[t] = "wait"
  /\ Goto(t, IF futex = 2 THEN "blocked" ELSE "xchg")
  /\ UNCHANGED <<futex, call>>

SpuriousWakeup(t) ==
  /\ pc[t] = "blocked"
  /\ Goto(t, "xchg")
  /\ UNCHANGED <<futex, call>>

\* ETIMEDOUT or EOVERFLOW while blocked; EINVAL or ETIMEDOUT without blocking
\* for an invalid clock or a negative time.  The word is left as it is.
TimedOut(t) ==
  /\ pc[t] \in {"wait", "blocked"}
  /\ call[t] = "clocklock"
  /\ Done(t, "idle")
  /\ UNCHANGED futex

-----------------------------------------------------------------------------
\* lll_unlock, called by the owner.
MustWake_Never(oldval) == FALSE
MustWake(oldval) == oldval > 1

Unlock(t) ==
  /\ pc[t] = "held"
  /\ futex' = 0
  /\ Goto(t, IF MustWake(futex) THEN "wake" ELSE "idle")
  /\ UNCHANGED call

Wake(t) ==
  /\ pc[t] = "wake"
  /\ \E W \in futex_wake(Blocked, 1) :
       pc' = [u \in Threads |-> IF u = t THEN "idle"
                                ELSE IF u \in W THEN "xchg" ELSE pc[u]]
  /\ UNCHANGED <<futex, call>>

-----------------------------------------------------------------------------
Step(t) ==
  \/ CAS(t) \/ CondExchange(t) \/ Load(t) \/ Exchange(t) \/ FutexWait(t)
  \/ Unlock(t) \/ Wake(t)

Event(t) == Invoke(t) \/ SpuriousWakeup(t) \/ TimedOut(t)

Next == \E t \in Threads : Step(t) \/ Event(t)

Spec == Init /\ [][Next]_vars

\* Threads are scheduled, and an owner eventually unlocks.
FairSpec == Spec /\ \A t \in Threads : WF_vars(Step(t))

-----------------------------------------------------------------------------
TypeOK ==
  /\ futex \in {0, 1, 2}
  /\ pc \in [Threads -> Labels]
  /\ call \in [Threads -> LockCalls \cup {"none"}]

Holders == {t \in Threads : pc[t] = "held"}

\* At most one thread holds the lock, and the word is 0 exactly while none
\* does: the CAS, the three exchanges and the unlock agree on what 0 means.
MutualExclusion ==
  /\ \A t, u \in Holders : t = u
  /\ futex = 0 <=> Holders = {}

\* No wake-up is lost: while a thread is blocked, the next unlock will see 2, or
\* an unlocker is about to call futex_wake, or an awake thread is about to put 2
\* back (lll_lock may have acquired the lock with 1 in between).
NoLostWakeup ==
  Blocked # {} =>
    \/ futex = 2
    \/ \E t \in Threads : pc[t] \in {"wake", "xchg"}

\* A call is pending exactly where the control says so.
CallOK ==
  \A t \in Threads :
    /\ call[t] = "none" <=> pc[t] \in {"idle", "held", "wake"}
    /\ pc[t] \in {"load", "xchg", "wait", "blocked"} => call[t] \notin TryCalls

\* The inductive invariant.
IInv == TypeOK /\ CallOK /\ MutualExclusion /\ NoLostWakeup

\* Every call returns once no new calls arrive, although unlocks race with
\* timed-out and newly blocking waiters.
EveryCallReturns ==
  (<>[][~\E t \in Threads : Invoke(t)]_vars) => <>[](\A t \in Threads : pc[t] = "idle")

-----------------------------------------------------------------------------
\* The abstract lock: the owner is the thread past its acquiring access and
\* before the exchange of lll_unlock.
OwnerOf(H) == IF H = {} THEN NoOwner ELSE CHOOSE t \in H : TRUE

Op(c) == CASE c \in {"lll_lock", "lll_cond_lock"} -> "lock"
           [] c \in TryCalls -> "trylock"
           [] OTHER -> c

Abstract == INSTANCE AbstractLock
              WITH owner <- OwnerOf(Holders), op <- [t \in Threads |-> Op(call[t])]

\* The low-level lock implements the abstract lock.
ImplementsAbstractLock == Abstract!Spec
=============================================================================
