---------------------------- MODULE AbstractLock ----------------------------
(***************************************************************************)
(* What a low-level lock promises its callers: one owner at a time; a call *)
(* that must not fail acquires the lock only while it is free; trylock     *)
(* fails only while somebody owns it; a call with a deadline may give up.  *)
(***************************************************************************)
CONSTANTS Threads,
          NoOwner   \* not a thread: nobody owns the lock

VARIABLES owner,    \* the thread that owns the lock, or NoOwner
          op        \* op[t]: the pending call of t, or "none"

vars == <<owner, op>>

LockOps == {"lock", "clocklock", "trylock"}

Init ==
  /\ owner = NoOwner
  /\ op = [t \in Threads |-> "none"]

Invoke(t) ==
  /\ op[t] = "none"
  /\ owner # t
  /\ \E o \in LockOps : op' = [op EXCEPT ![t] = o]
  /\ UNCHANGED owner

Acquire(t) ==
  /\ op[t] # "none"
  /\ owner = NoOwner
  /\ owner' = t
  /\ op' = [op EXCEPT ![t] = "none"]

Busy(t) ==
  /\ op[t] = "trylock"
  /\ owner # NoOwner
  /\ op' = [op EXCEPT ![t] = "none"]
  /\ UNCHANGED owner

GiveUp(t) ==
  /\ op[t] = "clocklock"
  /\ op' = [op EXCEPT ![t] = "none"]
  /\ UNCHANGED owner

Release(t) ==
  /\ owner = t
  /\ owner' = NoOwner
  /\ UNCHANGED op

Next ==
  \E t \in Threads : Invoke(t) \/ Acquire(t) \/ Busy(t) \/ GiveUp(t) \/ Release(t)

Spec == Init /\ [][Next]_vars
=============================================================================
