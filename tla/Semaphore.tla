----------------------------- MODULE Semaphore -----------------------------
(***************************************************************************)
(* The new POSIX semaphore of NPTL on machines with 64-bit atomics         *)
(* (USE_64B_ATOMICS_ON_SEM_T): sem_init, sem_wait, sem_timedwait,          *)
(* sem_clockwait, sem_trywait and sem_post (nptl/sem_*.c).                 *)
(*                                                                         *)
(* One word, sem->data, holds the token count (the low half, on which      *)
(* waiters block) and the number of registered waiters (the high half).    *)
(* Each action below is one atomic access to that word, or one futex       *)
(* system call, followed by the local computation up to the next one.  A   *)
(* weak compare-and-swap that fails spuriously inside a retry loop leaves  *)
(* the state unchanged, so only the one of the fast path, whose failure    *)
(* changes the control flow, is modelled as a choice.                      *)
(***************************************************************************)
EXTENDS Futex

CONSTANTS Threads,        \* the threads (or processes) that share the semaphore
          SEM_VALUE_MAX   \* the largest number of tokens

ASSUME SemaphoreAssumption ==
  /\ IsFiniteSet(Threads)
  /\ SEM_VALUE_MAX \in Nat \ {0}

VARIABLES data,     \* sem->data: [value, nwaiters]
          pc,       \* pc[t]: the access t performs next
          call,     \* call[t]: the function t is executing
          d         \* d[t]: the local snapshot of sem->data

vars == <<data, pc, call, d>>

WaitCalls == {"wait", "timedwait", "clockwait"}
TimedCalls == {"timedwait", "clockwait"}
CancelPoints == {"wait", "timedwait"}
Calls == WaitCalls \cup {"trywait", "post"}

Word == [value : 0..SEM_VALUE_MAX, nwaiters : Nat]
Zero == [value |-> 0, nwaiters |-> 0]

Labels ==
  {"idle", "load", "fastcas", "register", "futex", "blocked", "reload",
   "grab", "unregister", "cleanup", "postcas", "postwake", "exited"}

At(labels) == {t \in Threads : pc[t] \in labels}
Registered == At({"futex", "blocked", "reload", "grab", "unregister", "cleanup"})
Blocked == At({"blocked"})

\* __new_sem_init: any legal initial value, no waiters.
Init ==
  /\ \E v \in 0..SEM_VALUE_MAX : data = [value |-> v, nwaiters |-> 0]
  /\ pc = [t \in Threads |-> "idle"]
  /\ call = [t \in Threads |-> "none"]
  /\ d = [t \in Threads |-> Zero]

Goto(t, label) == pc' = [pc EXCEPT ![t] = label]
Load(t) == d' = [d EXCEPT ![t] = data]

\* The call of t is over; its locals are dead.
Return(t) ==
  /\ Goto(t, "idle")
  /\ call' = [call EXCEPT ![t] = "none"]
  /\ d' = [d EXCEPT ![t] = Zero]

\* The thread acts on a cancellation request and never comes back.
Exit(t) ==
  /\ Goto(t, "exited")
  /\ call' = [call EXCEPT ![t] = "none"]
  /\ d' = [d EXCEPT ![t] = Zero]

-----------------------------------------------------------------------------
\* The environment: a thread enters a semaphore function.

Invoke(t) ==
  /\ pc[t] = "idle"
  /\ Goto(t, "load")
  /\ \E c \in Calls : call' = [call EXCEPT ![t] = c]
  /\ UNCHANGED <<data, d>>

-----------------------------------------------------------------------------
\* sem_wait, sem_timedwait and sem_trywait up to the slow path.

\* The timeout (or clock) of a timed wait is invalid: EINVAL before anything.
InvalidTime(t) ==
  /\ pc[t] = "load"
  /\ call[t] \in TimedCalls
  /\ Return(t)
  /\ UNCHANGED data

\* __pthread_testcancel acts on a request (sem_clockwait does not call it).  A
\* request may arrive at any time; only the step that acts on it is in the state.
Testcancel(t) ==
  /\ pc[t] = "load"
  /\ call[t] \in CancelPoints
  /\ Exit(t)
  /\ UNCHANGED data

\* The first load of __new_sem_wait_fast.  Without a token, sem_trywait fails
\* and the others enter the slow path.
WaitFastLoad(t) ==
  /\ pc[t] = "load"
  /\ call[t] \in WaitCalls \cup {"trywait"}
  /\ IF data.value > 0
       THEN Load(t) /\ Goto(t, "fastcas") /\ UNCHANGED call
       ELSE IF call[t] = "trywait"
              THEN Return(t)
              ELSE Goto(t, "register") /\ UNCHANGED <<call, d>>
  /\ UNCHANGED data

WaitFastCAS(t) ==
  /\ pc[t] = "fastcas"
  /\ data = d[t]
  /\ data' = [data EXCEPT !.value = @ - 1]
  /\ Return(t)

\* Someone else changed the word, or the weak CAS failed spuriously.
\* sem_trywait needs a definitive result and retries with the current value.
WaitFastCASFails(t) ==
  /\ pc[t] = "fastcas"
  /\ IF call[t] = "trywait"
       THEN /\ data # d[t]
            /\ IF data.value > 0
                 THEN Load(t) /\ UNCHANGED <<pc, call>>
                 ELSE Return(t)
       ELSE Goto(t, "register") /\ d' = [d EXCEPT ![t] = Zero] /\ UNCHANGED call
  /\ UNCHANGED data

-----------------------------------------------------------------------------
\* __new_sem_wait_slow64.

\* The test at the head of the loop, on the snapshot just taken: block if there
\* is no token (the snapshot is then dead), otherwise try to grab one.
SlowLoop(t) ==
  IF data.value = 0
    THEN Goto(t, "futex") /\ d' = [d EXCEPT ![t] = Zero]
    ELSE Goto(t, "grab") /\ Load(t)

\* What grabbing a token leaves: one token and one waiter less.
Grabbed_KeepsWaiter(s) == [s EXCEPT !.value = @ - 1]
Grabbed(s) == [value |-> s.value - 1, nwaiters |-> s.nwaiters - 1]

Register(t) ==
  /\ pc[t] = "register"
  /\ data' = [data EXCEPT !.nwaiters = @ + 1]
  /\ SlowLoop(t)
  /\ UNCHANGED <<call>>

\* The futex_wait system call: EAGAIN if there is a token, otherwise t blocks.
FutexWait(t) ==
  /\ pc[t] = "futex"
  /\ Goto(t, IF data.value = 0 THEN "blocked" ELSE "reload")
  /\ UNCHANGED <<data, call, d>>

\* A wake-up that no sem_post asked for; futex_wait returns 0.
SpuriousWakeup(t) ==
  /\ pc[t] = "blocked"
  /\ Goto(t, "reload")
  /\ UNCHANGED <<data, call, d>>

\* ETIMEDOUT or EOVERFLOW for a timed wait (without entering the kernel if the
\* timeout is negative), EINTR for any wait that is blocked.
WaitFails(t) ==
  /\ \/ pc[t] = "blocked"
     \/ pc[t] = "futex" /\ call[t] \in TimedCalls
  /\ Goto(t, "unregister")
  /\ UNCHANGED <<data, call, d>>

\* The cancellable futex_wait acts on a request before it blocks or while it
\* is blocked, never after a wake-up has been consumed.
WaitCanceled(t) ==
  /\ pc[t] \in {"futex", "blocked"}
  /\ Goto(t, "cleanup")
  /\ UNCHANGED <<data, call, d>>

Reload(t) ==
  /\ pc[t] = "reload"
  /\ SlowLoop(t)
  /\ UNCHANGED <<data, call>>

Grab(t) ==
  /\ pc[t] = "grab"
  /\ IF data = d[t]
       THEN data' = Grabbed(data) /\ Return(t)
       ELSE SlowLoop(t) /\ UNCHANGED <<data, call>>

\* The error path stops being a registered waiter and returns -1.
Unregister(t) ==
  /\ pc[t] = "unregister"
  /\ data' = [data EXCEPT !.nwaiters = @ - 1]
  /\ Return(t)

\* __sem_wait_cleanup runs while the cancelled thread is unwound.
WaitCleanup(t) ==
  /\ pc[t] = "cleanup"
  /\ data' = [data EXCEPT !.nwaiters = @ - 1]
  /\ Exit(t)

-----------------------------------------------------------------------------
\* __new_sem_post.

PostFull(s) == s.value = SEM_VALUE_MAX

MustWake_Late(s) == s.nwaiters > 1
MustWake(s) == s.nwaiters > 0

PostLoad(t) ==
  /\ pc[t] = "load"
  /\ call[t] = "post"
  /\ IF PostFull(data)
       THEN Return(t)
       ELSE Load(t) /\ Goto(t, "postcas") /\ UNCHANGED call
  /\ UNCHANGED data

\* With the CAS the token is there; from then on only the address of the
\* semaphore is used, by the futex_wake.
PostCAS_Blind(t) ==
  /\ pc[t] = "postcas"
  /\ data' = [d[t] EXCEPT !.value = @ + 1]
  /\ IF MustWake(d[t]) THEN Goto(t, "postwake") /\ UNCHANGED <<call, d>> ELSE Return(t)

PostCAS(t) ==
  /\ pc[t] = "postcas"
  /\ IF data = d[t]
       THEN /\ data' = [data EXCEPT !.value = @ + 1]
            /\ IF MustWake(data)
                 THEN Goto(t, "postwake") /\ d' = [d EXCEPT ![t] = Zero] /\ UNCHANGED call
                 ELSE Return(t)
       ELSE /\ IF PostFull(data)
                 THEN Return(t)
                 ELSE Load(t) /\ UNCHANGED <<pc, call>>
            /\ UNCHANGED data

PostWake(t) ==
  /\ pc[t] = "postwake"
  /\ \E W \in futex_wake(Blocked, 1) :
       pc' = [u \in Threads |-> IF u = t THEN "idle"
                                ELSE IF u \in W THEN "reload" ELSE pc[u]]
  /\ call' = [call EXCEPT ![t] = "none"]
  /\ d' = [d EXCEPT ![t] = Zero]
  /\ UNCHANGED data

-----------------------------------------------------------------------------
\* The steps a running thread takes by itself.
Step(t) ==
  \/ Testcancel(t) \/ WaitFastLoad(t) \/ WaitFastCAS(t) \/ WaitFastCASFails(t)
  \/ Register(t) \/ FutexWait(t) \/ WaitCanceled(t) \/ Reload(t) \/ Grab(t)
  \/ Unregister(t) \/ WaitCleanup(t)
  \/ PostLoad(t) \/ PostCAS(t) \/ PostWake(t)

\* What may or may not happen to it.
Event(t) ==
  \/ Invoke(t) \/ InvalidTime(t) \/ SpuriousWakeup(t) \/ WaitFails(t)

Next == \E t \in Threads : Step(t) \/ Event(t)

Spec == Init /\ [][Next]_vars

-----------------------------------------------------------------------------
TypeOK ==
  /\ data \in Word
  /\ pc \in [Threads -> Labels]
  /\ call \in [Threads -> Calls \cup {"none"}]
  /\ d \in [Threads -> Word]

\* The high half of sem->data counts exactly the threads that are between
\* their registration in the slow path and one of its three exits (grab,
\* error, cancellation cleanup): no exit forgets or repeats the decrement.
NwaitersExact == data.nwaiters = Cardinality(Registered)

\* The threads that will look at the token count again before they block, and
\* the posters whose futex_wake is still to come.
Rechecking == At({"reload", "grab"})
Waking == At({"postwake"})

\* No lost wake-up: while a thread is blocked in futex_wait, every token that
\* sem_post has made available is spoken for by a waiter that is awake and
\* about to look for one, or by a futex_wake that is still to be executed.
NoLostWakeup ==
  Blocked # {} => data.value <= Cardinality(Rechecking) + Cardinality(Waking)

\* What the local snapshot is good for when it is used: there was a token to
\* take, or room for one more.
SnapshotOK ==
  \A t \in Threads :
    /\ pc[t] \in {"fastcas", "grab"} => d[t].value > 0
    /\ pc[t] = "postcas" => d[t].value < SEM_VALUE_MAX

\* The inductive invariant.
IInv == TypeOK /\ SnapshotOK /\ NwaitersExact /\ NoLostWakeup

\* The abstract counting semaphore: a call of this module takes effect at its
\* successful CAS, at the load that lets it fail, or when it gives up.
PendingOp(t) ==
  IF pc[t] \in {"idle", "postwake", "exited"} THEN "none"
  ELSE IF call[t] \in WaitCalls THEN "wait" ELSE call[t]

Abstract == INSTANCE CountingSemaphore
              WITH value <- data.value, op <- [t \in Threads |-> PendingOp(t)]

\* sem_wait, sem_trywait and sem_post are linearizable: every behaviour of the
\* implementation is one of the atomic counting semaphore.
ImplementsCountingSemaphore == Abstract!Spec
=============================================================================
