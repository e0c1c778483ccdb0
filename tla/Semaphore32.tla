---------------------------- MODULE Semaphore32 ----------------------------
(***************************************************************************)
(* The POSIX semaphore of NPTL on machines without 64-bit atomics          *)
(* (!USE_64B_ATOMICS_ON_SEM_T; the other half of the #if in sem_post.c and *)
(* sem_waitcommon.c).                                                      *)
(*                                                                         *)
(* The token count and the number of waiters no longer share a word.       *)
(* sem->value holds the tokens and one bit (SEM_NWAITERS_MASK) that tells  *)
(* sem_post to call futex_wake; sem->nwaiters is the counter.  A waiter    *)
(* that leaves clears the bit if it believes that it is the last one, and  *)
(* repairs the damage if it finds that it was not.                         *)
(*                                                                         *)
(* As in Semaphore, an action is one atomic access or one system call.     *)
(***************************************************************************)
EXTENDS Futex, FiniteSetsExt

CONSTANTS Threads, SEM_VALUE_MAX

VARIABLES value,     \* sem->value: [tokens, bit]
          nwaiters,  \* sem->nwaiters
          pc, call,  \* pc[t]: the access t performs next; call[t]: its function
          v          \* v[t]: the local snapshot of sem->value

vars == <<value, nwaiters, pc, call, v>>

\* "wait" is sem_timedwait; what sem_wait and sem_clockwait may do is part of
\* what it may do.
Calls == {"wait", "trywait", "post"}

Zero == [tokens |-> 0, bit |-> FALSE]
SEM_NWAITERS_MASK == [tokens |-> 0, bit |-> TRUE]

At(labels) == {t \in Threads : pc[t] \in labels}
Blocked == At({"blocked"})

Init ==
  /\ \E n \in 0..SEM_VALUE_MAX : value = [tokens |-> n, bit |-> FALSE]
  /\ nwaiters = 0
  /\ pc = [t \in Threads |-> "idle"]
  /\ call = [t \in Threads |-> "none"]
  /\ v = [t \in Threads |-> Zero]

Goto(t, label) == pc' = [pc EXCEPT ![t] = label]
Keep(t, w) == v' = [v EXCEPT ![t] = w]

\* The call of t is over; after a cancellation so is the thread.
Return(t) ==
  /\ Goto(t, IF call[t] = "canceled" THEN "exited" ELSE "idle")
  /\ call' = [call EXCEPT ![t] = "none"]
  /\ Keep(t, Zero)

-----------------------------------------------------------------------------
\* A thread enters a semaphore function.

Invoke(t) ==
  /\ pc[t] = "idle"
  /\ Goto(t, "load")
  /\ \E c \in Calls : call' = [call EXCEPT ![t] = c]
  /\ UNCHANGED <<value, nwaiters, v>>

-----------------------------------------------------------------------------
\* sem_wait, sem_timedwait, sem_clockwait and sem_trywait up to the slow path.

InvalidTime(t) ==
  /\ pc[t] = "load"
  /\ call[t] = "wait"
  /\ Return(t)
  /\ UNCHANGED <<value, nwaiters>>

\* A cancellation request has arrived; it is not kept in the state because only
\* the step that acts on it matters.
Testcancel(t) ==
  /\ pc[t] = "load"
  /\ call[t] = "wait"
  /\ Goto(t, "exited")
  /\ call' = [call EXCEPT ![t] = "none"]
  /\ UNCHANGED <<value, nwaiters, v>>

WaitFastLoad(t) ==
  /\ pc[t] = "load"
  /\ call[t] # "post"
  /\ IF value.tokens > 0
       THEN Keep(t, value) /\ Goto(t, "fastcas") /\ UNCHANGED call
       ELSE IF call[t] = "trywait"
              THEN Return(t)
              ELSE Goto(t, "register") /\ UNCHANGED <<call, v>>
  /\ UNCHANGED <<value, nwaiters>>

WaitFastCAS(t) ==
  /\ pc[t] = "fastcas"
  /\ value = v[t]
  /\ value' = [value EXCEPT !.tokens = @ - 1]
  /\ Return(t)
  /\ UNCHANGED nwaiters

\* Only sem_trywait needs a definitive result and retries.
WaitFastCASFails(t) ==
  /\ pc[t] = "fastcas"
  /\ IF call[t] = "trywait"
       THEN /\ value # v[t]
            /\ IF value.tokens > 0
                 THEN Keep(t, value) /\ UNCHANGED <<pc, call>>
                 ELSE Return(t)
       ELSE Goto(t, "register") /\ Keep(t, Zero) /\ UNCHANGED call
  /\ UNCHANGED <<value, nwaiters>>

-----------------------------------------------------------------------------
\* __new_sem_wait_slow64.

Register(t) ==
  /\ pc[t] = "register"
  /\ nwaiters' = nwaiters + 1
  /\ Goto(t, "firstload")
  /\ UNCHANGED <<value, call, v>>

\* Once the bit is there, or was seen there, wait if the snapshot w has no token
\* and try to grab one otherwise.
WaitOrGrab(t, w) ==
  IF w.tokens = 0
    THEN Goto(t, "futex") /\ Keep(t, Zero)
    ELSE Goto(t, "grab") /\ Keep(t, w)

\* The head of the inner loop, with a fresh snapshot: set the bit if it is clear.
AboutToBlock(t) ==
  IF value.bit
    THEN WaitOrGrab(t, value)
    ELSE Goto(t, "setbit") /\ Keep(t, value)

FirstLoad(t) ==
  /\ pc[t] = "firstload"
  /\ AboutToBlock(t)
  /\ UNCHANGED <<value, nwaiters, call>>

\* The CAS that sets the bit.  A successful one leaves the snapshot without the
\* bit, so that a grab that follows it fails and comes back here.
SetBit(t) ==
  /\ pc[t] = "setbit"
  /\ IF value = v[t]
       THEN value' = [value EXCEPT !.bit = TRUE] /\ WaitOrGrab(t, v[t])
       ELSE AboutToBlock(t) /\ UNCHANGED value
  /\ UNCHANGED <<nwaiters, call>>

\* The futex_wait system call: EAGAIN unless the word is exactly the bit.
FutexWait(t) ==
  /\ pc[t] = "futex"
  /\ Goto(t, IF value = SEM_NWAITERS_MASK THEN "blocked" ELSE "reload")
  /\ UNCHANGED <<value, nwaiters, call, v>>

\* A spurious wake-up; or EOVERFLOW for a timeout the kernel cannot take, which
\* this variant does not look at: it clears err and tries again.
SpuriousWakeup(t) ==
  /\ pc[t] \in {"futex", "blocked"}
  /\ Goto(t, "reload")
  /\ UNCHANGED <<value, nwaiters, call, v>>

\* ETIMEDOUT (also without blocking, if the timeout is negative) or EINTR.
WaitFails(t) ==
  /\ pc[t] \in {"futex", "blocked"}
  /\ Goto(t, "guess")
  /\ UNCHANGED <<value, nwaiters, call, v>>

\* The cancellable futex_wait acts on a request; __sem_wait_cleanup is run.
WaitCanceled(t) ==
  /\ pc[t] \in {"futex", "blocked"}
  /\ Goto(t, "guess")
  /\ call' = [call EXCEPT ![t] = "canceled"]
  /\ UNCHANGED <<value, nwaiters, v>>

\* A waiter that sees a token after having blocked leaves the inner loop at
\* once, without a look at the bit.
Reload(t) ==
  /\ pc[t] = "reload"
  /\ IF value.tokens = 0
       THEN AboutToBlock(t)
       ELSE Goto(t, "grab") /\ Keep(t, value)
  /\ UNCHANGED <<value, nwaiters, call>>

Grab_Blind(t) ==
  /\ pc[t] = "grab"
  /\ value' = [v[t] EXCEPT !.tokens = @ - 1]
  /\ Goto(t, "guess") /\ Keep(t, Zero)
  /\ UNCHANGED <<nwaiters, call>>

Grab(t) ==
  /\ pc[t] = "grab"
  /\ IF value = v[t]
       THEN /\ value' = [value EXCEPT !.tokens = @ - 1]
            /\ Goto(t, "guess") /\ Keep(t, Zero)
       ELSE AboutToBlock(t) /\ UNCHANGED value
  /\ UNCHANGED <<nwaiters, call>>

-----------------------------------------------------------------------------
\* __sem_wait_32_finish.

\* wguess: is t the last waiter?  The label remembers the answer.
Guess(t) ==
  /\ pc[t] = "guess"
  /\ Goto(t, IF nwaiters = 1 THEN "unset" ELSE "leave")
  /\ UNCHANGED <<value, nwaiters, call, v>>

UnsetBit(t) ==
  /\ pc[t] = "unset"
  /\ value' = [value EXCEPT !.bit = FALSE]
  /\ Goto(t, "leaveguessed")
  /\ UNCHANGED <<nwaiters, call, v>>

\* wfinal > 1: someone registered after the guess.
Misguessed_Never(wfinal) == FALSE
Misguessed(wfinal) == wfinal > 1

Leave(t) ==
  /\ pc[t] \in {"leave", "leaveguessed"}
  /\ nwaiters' = nwaiters - 1
  /\ IF pc[t] = "leaveguessed" /\ Misguessed(nwaiters)
       THEN Goto(t, "restore") /\ UNCHANGED <<call, v>>
       ELSE Return(t)
  /\ UNCHANGED value

\* The bit is set again and as many waiters are woken as there are tokens.
Restore(t) ==
  /\ pc[t] = "restore"
  /\ value' = [value EXCEPT !.bit = TRUE]
  /\ IF value.tokens > 0
       THEN Goto(t, "rewake") /\ Keep(t, value) /\ UNCHANGED call
       ELSE Return(t)
  /\ UNCHANGED nwaiters

\* futex_wake and the return of t.
WakeAndReturn(t, n) ==
  \E W \in futex_wake(Blocked, n) :
    pc' = [u \in Threads |-> IF u \in W THEN "reload"
                             ELSE IF u # t THEN pc[u]
                             ELSE IF call[t] = "canceled" THEN "exited" ELSE "idle"]

Rewake(t) ==
  /\ pc[t] = "rewake"
  /\ WakeAndReturn(t, v[t].tokens)
  /\ call' = [call EXCEPT ![t] = "none"]
  /\ Keep(t, Zero)
  /\ UNCHANGED <<value, nwaiters>>

-----------------------------------------------------------------------------
\* __new_sem_post.

PostFull(w) == w.tokens = SEM_VALUE_MAX

PostLoad(t) ==
  /\ pc[t] = "load"
  /\ call[t] = "post"
  /\ IF PostFull(value)
       THEN Return(t)
       ELSE Keep(t, value) /\ Goto(t, "postcas") /\ UNCHANGED call
  /\ UNCHANGED <<value, nwaiters>>

PostCAS(t) ==
  /\ pc[t] = "postcas"
  /\ IF value = v[t]
       THEN /\ value' = [value EXCEPT !.tokens = @ + 1]
            /\ IF value.bit
                 THEN Goto(t, "postwake") /\ Keep(t, Zero) /\ UNCHANGED call
                 ELSE Return(t)
       ELSE /\ IF PostFull(value)
                 THEN Return(t)
                 ELSE Keep(t, value) /\ UNCHANGED <<pc, call>>
            /\ UNCHANGED value
  /\ UNCHANGED nwaiters

PostWake(t) ==
  /\ pc[t] = "postwake"
  /\ WakeAndReturn(t, 1)
  /\ call' = [call EXCEPT ![t] = "none"]
  /\ UNCHANGED <<value, nwaiters, v>>

-----------------------------------------------------------------------------
Step(t) ==
  \/ Testcancel(t) \/ WaitFastLoad(t) \/ WaitFastCAS(t) \/ WaitFastCASFails(t)
  \/ Register(t) \/ FirstLoad(t) \/ SetBit(t) \/ FutexWait(t) \/ WaitCanceled(t)
  \/ Reload(t) \/ Grab(t) \/ Guess(t) \/ UnsetBit(t) \/ Leave(t) \/ Restore(t)
  \/ Rewake(t) \/ PostLoad(t) \/ PostCAS(t) \/ PostWake(t)

Event(t) ==
  \/ Invoke(t) \/ InvalidTime(t) \/ SpuriousWakeup(t) \/ WaitFails(t)

Next == \E t \in Threads : Step(t) \/ Event(t)

Spec == Init /\ [][Next]_vars

-----------------------------------------------------------------------------
\* The waiters that will look at the tokens again before they block, the wakes
\* still to come, and the leaver that cleared the bit by mistake and has not set
\* it again (it is not the last waiter).
Rechecking == At({"firstload", "setbit", "reload", "grab"})
Waking == At({"postwake"})
Repairing == At({"leaveguessed", "restore"})
Rewakes == MapThenSumSet(LAMBDA t : v[t].tokens, At({"rewake"}))

\* No lost wake-up although the bit may be cleared by mistake: while a thread is
\* blocked in futex_wait, the bit is set or a leaver is about to set it again,
\* and every token is spoken for by a waiter that is awake, by a futex_wake that
\* is still to be executed, or by that leaver.
NoLostWakeup ==
  Blocked # {} =>
    \/ Repairing # {}
    \/ /\ value.bit
       /\ value.tokens <= Cardinality(Rechecking) + Cardinality(Waking) + Rewakes

\* The abstract counting semaphore.  A wait has taken effect when it grabbed its
\* token or gave up; what __sem_wait_32_finish does after that is invisible.
PendingOp(t) ==
  IF pc[t] \in {"idle", "guess", "unset", "leave", "leaveguessed", "restore",
                "rewake", "postwake", "exited"} THEN "none"
  ELSE call[t]

Abstract == INSTANCE CountingSemaphore
              WITH value <- value.tokens, op <- [t \in Threads |-> PendingOp(t)]

\* The 32-bit variant makes the same promise: every behaviour of it is one of the
\* atomic counting semaphore.
ImplementsCountingSemaphore == Abstract!Spec
=============================================================================
