------------------------------ MODULE Condvar ------------------------------
(***************************************************************************)
(* Condition variables (nptl/pthread_cond_wait.c, _signal.c, _broadcast.c, *)
(* _destroy.c, pthread_cond_common.c): waiters take a position in __wseq   *)
(* and block on the futex word of the group that is G2 at that moment;     *)
(* signalers put signals into G1 and, when it is exhausted, close it and   *)
(* turn G2 into the new G1.                                                *)
(*                                                                         *)
(* A step is one atomic access to a field other threads use outside of the *)
(* condvar-internal lock (__wseq, __g1_start, __g_signals, __wrefs), a     *)
(* futex call, or the acquisition of a lock; accesses to __g1_orig_size    *)
(* and __g_size, which only the holder of the internal lock makes, belong  *)
(* to the neighbouring step.  The internal lock is CondvarLock; the mutex  *)
(* is the abstract lock of AbstractLock.                                   *)
(***************************************************************************)
EXTENDS Integers, Sequences, FiniteSets

CONSTANTS Threads,
          None,             \* not a thread
          MaxGroupSize,     \* __PTHREAD_COND_MAX_GROUP_SIZE
          MaxWaits,         \* bound on the number of waits
          Waits,            \* the kinds of waits the program calls
          FIFO              \* whether futex_wake wakes the oldest waiter first

VARIABLES
  cond,       \* the fields of pthread_cond_t, the lock bits apart
  lock,       \* the holder of the condvar-internal lock
  mutex,      \* the holder of the mutex
  queue,      \* queue[g]: the threads blocked on __g_signals[g], oldest first
  pc,         \* pc[t]: what t does next
  local,      \* local[t]: the local variables of t
  destroyed,  \* pthread_cond_destroy has returned
  unsignaled  \* ghost: see NoLostSignal

vars == <<cond, lock, mutex, queue, pc, local, destroyed, unsignaled>>

\* call: the function the program called; op: "signal" or "broadcast" while one of
\* them is executed; the others: the local variables of these names (in
\* pthread_cond_destroy, signals is the expected value of __wrefs).
NoLocals == [call |-> "none", op |-> "none", seq |-> 0, g |-> 0, signals |-> 0,
             wseq |-> 0, g1 |-> 0]

\* __pthread_cond_init.
Init ==
  /\ cond = [wseq |-> 0, g1_start |-> 0, g1_orig_size |-> 0,
             g_signals |-> [g \in 0..1 |-> 0], g_size |-> [g \in 0..1 |-> 0],
             wrefs |-> 0, wake_request |-> FALSE]
  /\ lock = None /\ mutex = None
  /\ queue = [g \in 0..1 |-> <<>>]
  /\ pc = [t \in Threads |-> "idle"]
  /\ local = [t \in Threads |-> NoLocals]
  /\ destroyed = FALSE
  /\ unsignaled = [p \in 0..MaxWaits |-> 0]

Goto(t, label) == pc' = [pc EXCEPT ![t] = label]
At(labels) == {t \in Threads : pc[t] \in labels}
SetLocals(t, loc) == local' = [local EXCEPT ![t] = loc]
Return(t) == Goto(t, "idle") /\ SetLocals(t, NoLocals)

\* The locals of a waiter that does not wait any more are dead; it matters only
\* whether it is to lock the mutex again.
Leaving(t) ==
  [NoLocals EXCEPT !.call = IF local[t].call = "unowned" THEN "unowned" ELSE "wait"]

Other(g) == 1 - g

\* futex_wake (&__g_signals[g], n): the woken threads leave the queue and start
\* another iteration of the wait loop.
Wake(t, g, n, label) ==
  \E W \in SUBSET (1..Len(queue[g])) :
    /\ Cardinality(W) = IF n < Len(queue[g]) THEN n ELSE Len(queue[g])
    /\ FIFO => W = 1 .. Cardinality(W)
    /\ LET stay == SelectSeq([j \in 1..Len(queue[g]) |-> [i |-> j, t |-> queue[g][j]]],
                             LAMBDA e : e.i \notin W)
       IN queue' = [queue EXCEPT ![g] = [j \in 1..Len(stay) |-> stay[j].t]]
    /\ pc' = [u \in Threads |-> IF u = t THEN label
                                ELSE IF \E j \in W : queue[g][j] = u THEN "load"
                                ELSE pc[u]]

Unqueued(t, g) == [queue EXCEPT ![g] = SelectSeq(@, LAMBDA u : u # t)]

-----------------------------------------------------------------------------
\* __pthread_cond_wait_common.  The caller holds the mutex, except for an
\* "unowned" wait, whose __pthread_mutex_unlock_usercnt fails.

Invoke(t, c) ==
  /\ pc[t] = "idle"
  /\ ~destroyed /\ ~cond.wake_request
  /\ Cardinality(At({"enter"})) + cond.wseq \div 2 < MaxWaits
  /\ IF c = "unowned" THEN UNCHANGED mutex ELSE mutex = None /\ mutex' = t
  /\ Goto(t, "enter")
  /\ local' = [local EXCEPT ![t].call = c]
  /\ UNCHANGED <<cond, lock, queue, destroyed, unsignaled>>

Enter(t) ==
  /\ pc[t] = "enter"
  /\ cond' = [cond EXCEPT !.wseq = @ + 2]
  /\ local' = [local EXCEPT ![t].g = cond.wseq % 2, ![t].seq = cond.wseq \div 2]
  /\ unsignaled' = [p \in 0..MaxWaits |->
                      unsignaled[p] + IF p > cond.wseq \div 2 THEN 1 ELSE 0]
  /\ Goto(t, "ref")
  /\ UNCHANGED <<lock, mutex, queue, destroyed>>

Reference(t) ==
  /\ pc[t] = "ref"
  /\ cond' = [cond EXCEPT !.wrefs = @ + 1]
  /\ Goto(t, "unlock")
  /\ UNCHANGED <<lock, mutex, queue, local, destroyed, unsignaled>>

UnlockMutex(t) ==
  /\ pc[t] = "unlock"
  /\ IF mutex = t THEN mutex' = None /\ Goto(t, "load")
                  ELSE Goto(t, "cancel") /\ UNCHANGED mutex
  /\ UNCHANGED <<cond, lock, queue, local, destroyed, unsignaled>>

LoadSignals(t) ==
  /\ pc[t] = "load"
  /\ local' = [local EXCEPT ![t].signals = cond.g_signals[local[t].g]]
  /\ Goto(t, "check")
  /\ UNCHANGED <<cond, lock, mutex, queue, destroyed, unsignaled>>

\* With __g1_start: leave if the group is closed, else take a signal or block.
Closed(seq, g1_start) == seq < g1_start
Available(signals, g1_start) == signals - g1_start > 0

CheckG1Start(t) ==
  /\ pc[t] = "check"
  /\ Goto(t, CASE Closed(local[t].seq, cond.g1_start) -> "confirm"
               [] ~Closed(local[t].seq, cond.g1_start) /\
                    Available(local[t].signals, cond.g1_start) -> "grab"
               [] OTHER -> "wait")
  /\ IF Closed(local[t].seq, cond.g1_start) THEN SetLocals(t, Leaving(t)) ELSE UNCHANGED local
  /\ UNCHANGED <<cond, lock, mutex, queue, destroyed, unsignaled>>

GrabSignal(t) ==
  /\ pc[t] = "grab"
  /\ IF cond.g_signals[local[t].g] = local[t].signals
       THEN /\ cond' = [cond EXCEPT !.g_signals[local[t].g] = @ - 1]
            /\ Goto(t, "confirm")
            /\ SetLocals(t, Leaving(t))
       ELSE Goto(t, "load") /\ UNCHANGED <<cond, local>>
  /\ UNCHANGED <<lock, mutex, queue, destroyed, unsignaled>>

FutexWait(t) ==
  /\ pc[t] = "wait"
  /\ IF cond.g_signals[local[t].g] = local[t].signals
       THEN /\ queue' = [queue EXCEPT ![local[t].g] = Append(@, t)]
            /\ Goto(t, "blocked")
       ELSE Goto(t, "load") /\ UNCHANGED queue
  /\ local' = [local EXCEPT ![t].signals = 0]
  /\ UNCHANGED <<cond, lock, mutex, destroyed, unsignaled>>

SpuriousWakeup(t) ==
  /\ pc[t] = "blocked"
  /\ queue' = Unqueued(t, local[t].g)
  /\ Goto(t, "load")
  /\ UNCHANGED <<cond, lock, mutex, local, destroyed, unsignaled>>

\* The wait times out (ETIMEDOUT, EOVERFLOW), or the thread is cancelled and
\* runs __condvar_cleanup_waiting.
GiveUp(t) ==
  /\ pc[t] \in {"wait", "blocked"}
  /\ local[t].call \in {"timedwait", "canceled"}
  /\ queue' = Unqueued(t, local[t].g)
  /\ local' = [local EXCEPT ![t].signals = 0]
  /\ Goto(t, "cancel")
  /\ UNCHANGED <<cond, lock, mutex, destroyed, unsignaled>>

-----------------------------------------------------------------------------
\* __condvar_cancel_waiting, under the internal lock: leave the group if it
\* still waits for signals, else replace the signal that was meant for us.

AfterCancel(t) == IF local[t].call = "canceled" THEN "cleanupWake" ELSE "confirm"
CanceledLocals(t) ==
  IF local[t].call = "canceled"
    THEN [NoLocals EXCEPT !.call = "canceled", !.g = local[t].g] ELSE Leaving(t)

InG2(seq) == cond.g1_start + cond.g1_orig_size <= seq

ConsumedSignal_Never(t) == FALSE
ConsumedSignal(t) ==
  \/ cond.g1_start > local[t].seq
  \/ ~InG2(local[t].seq) /\ cond.g_size[local[t].g] = 0

\* "Cancellations would overflow the maximum group size."
GroupFull(g) == cond.g_size[g] + MaxGroupSize <= 0

CancelWaiting(t) ==
  /\ pc[t] = "cancel"
  /\ lock = None
  /\ IF ConsumedSignal(t)
       THEN /\ Goto(t, "sigLoad")
            /\ SetLocals(t, [CanceledLocals(t) EXCEPT !.op = "signal"])
            /\ UNCHANGED <<cond, unsignaled>>
       ELSE IF InG2(local[t].seq) /\ GroupFull(local[t].g)
              THEN /\ Goto(t, "sigLoad")
                   /\ SetLocals(t, [CanceledLocals(t) EXCEPT !.op = "broadcast"])
                   /\ UNCHANGED <<cond, unsignaled>>
              ELSE /\ cond' = [cond EXCEPT !.g_size[local[t].g] = @ - 1]
                   /\ unsignaled' = [p \in 0..MaxWaits |->
                        IF p > local[t].seq /\ unsignaled[p] > 0
                          THEN unsignaled[p] - 1 ELSE unsignaled[p]]
                   /\ Goto(t, AfterCancel(t))
                   /\ SetLocals(t, CanceledLocals(t))
  /\ UNCHANGED <<lock, mutex, queue, destroyed>>

\* The extra futex_wake of __condvar_cleanup_waiting.
CleanupWake(t) ==
  /\ pc[t] = "cleanupWake"
  /\ Wake(t, local[t].g, 1, "confirm")
  /\ SetLocals(t, Leaving(t))
  /\ UNCHANGED <<cond, lock, mutex, destroyed, unsignaled>>

-----------------------------------------------------------------------------
\* ___pthread_cond_signal and ___pthread_cond_broadcast, called by the program
\* (with or without the mutex) or by a waiter that cancels its wait.

Signal(t, o) ==
  /\ pc[t] = "idle"
  /\ ~destroyed /\ ~cond.wake_request
  /\ Goto(t, "sigLoad")
  /\ local' = [local EXCEPT ![t].call = o, ![t].op = o]
  /\ UNCHANGED <<cond, lock, mutex, queue, destroyed, unsignaled>>

Called(t) == local[t].call \in {"signal", "broadcast"}
SigDone(t) == IF Called(t) THEN "idle" ELSE AfterCancel(t)
SigLocals(t) == IF Called(t) THEN NoLocals ELSE CanceledLocals(t)

\* The signal function continues at `label', or releases the lock and returns.
Continue(t, go, label, loc) ==
  /\ lock' = IF go THEN t ELSE None
  /\ Goto(t, IF go THEN label ELSE SigDone(t))
  /\ SetLocals(t, IF go THEN loc ELSE SigLocals(t))

\* "First check whether there are waiters."
SigLoad(t) ==
  /\ pc[t] = "sigLoad"
  /\ IF cond.wrefs = 0
       THEN Goto(t, SigDone(t)) /\ SetLocals(t, SigLocals(t))
       ELSE Goto(t, "sigLock") /\ UNCHANGED local
  /\ UNCHANGED <<cond, lock, mutex, queue, destroyed, unsignaled>>

\* __condvar_switch_g1 closes G1 only if G2 has waiters.
G2HasWaiters(wseq, g1) ==
  wseq - (cond.g1_start + cond.g1_orig_size) + cond.g_size[Other(g1)] # 0

\* A signal sent at position w owes a wake-up to a waiter before w, a broadcast
\* to all of them (ghost).  The position is the __wseq loaded or, if the groups
\* are switched, the one found by the atomic flip of G2.
Owe(o, w) ==
  unsignaled' = [p \in 0..MaxWaits |->
    CASE o = "signal" -> IF p >= w /\ unsignaled[w] > 0
                           THEN unsignaled[p] - 1 ELSE unsignaled[p]
      [] o = "broadcast" -> IF p >= w THEN unsignaled[p] - unsignaled[w] ELSE 0]

\* Acquire the internal lock and load __wseq.
SigLock(t) ==
  /\ pc[t] = "sigLock"
  /\ lock = None
  /\ LET w == cond.wseq \div 2
         g1 == Other(cond.wseq % 2)
     IN /\ IF cond.g_size[g1] = 0 /\ G2HasWaiters(w, g1)
             THEN UNCHANGED unsignaled ELSE Owe(local[t].op, w)
        /\ Continue(t, cond.g_size[g1] # 0 \/ G2HasWaiters(w, g1),
             IF cond.g_size[g1] = 0 THEN "close"
             ELSE IF local[t].op = "signal" THEN "add" ELSE "addRest",
             [local[t] EXCEPT !.g1 = g1,
                              !.wseq = IF local[t].op = "signal" THEN 0 ELSE w])
  /\ UNCHANGED <<cond, mutex, queue, destroyed>>

\* Broadcast, step (1): as many signals as G1 still has waiters, and wake them.
SignalAll(g) == [cond EXCEPT !.g_signals[g] = @ + cond.g_size[g], !.g_size[g] = 0]

AddRest(t) ==
  /\ pc[t] = "addRest"
  /\ cond' = SignalAll(local[t].g1)
  /\ Goto(t, "wakeRest")
  /\ UNCHANGED <<lock, mutex, queue, local, destroyed, unsignaled>>

WakeRest(t) ==
  /\ pc[t] = "wakeRest"
  /\ LET go == G2HasWaiters(local[t].wseq, local[t].g1)
     IN /\ Wake(t, local[t].g1, Cardinality(Threads), IF go THEN "close" ELSE SigDone(t))
        /\ lock' = IF go THEN t ELSE None
        /\ SetLocals(t, IF go THEN local[t] ELSE SigLocals(t))
  /\ UNCHANGED <<cond, mutex, destroyed, unsignaled>>

\* __condvar_switch_g1: close G1 by advancing __g1_start, ...
CloseG1(t) ==
  /\ pc[t] = "close"
  /\ cond' = [cond EXCEPT !.g1_start = @ + cond.g1_orig_size]
  /\ Goto(t, "flip")
  /\ UNCHANGED <<lock, mutex, queue, local, destroyed, unsignaled>>

\* ... flip the index of G2 in __wseq, ...
Flip(w) == 2 * (w \div 2) + Other(w % 2)

FlipG2(t) ==
  /\ pc[t] = "flip"
  /\ LET g1 == Other(local[t].g1)
         orig_size == cond.wseq \div 2 - cond.g1_start
     IN /\ cond' = [cond EXCEPT !.wseq = Flip(@), !.g1_orig_size = orig_size,
                                !.g_size[g1] = @ + orig_size]
        /\ local' = [local EXCEPT ![t].g1 = g1, ![t].wseq = 0]
  /\ Owe(local[t].op, cond.wseq \div 2)
  /\ Goto(t, "init")
  /\ UNCHANGED <<lock, mutex, queue, destroyed>>

\* ... and give the new G1 zero signals, relative to the new __g1_start.
InitialSignals_Kept(g) == cond.g_signals[g]
InitialSignals(g) == cond.g1_start

InitSignals(t) ==
  /\ pc[t] = "init"
  /\ cond' = [cond EXCEPT !.g_signals[local[t].g1] = InitialSignals(local[t].g1)]
  /\ Continue(t, cond.g_size[local[t].g1] # 0, "add", local[t])
  /\ UNCHANGED <<mutex, queue, destroyed, unsignaled>>

\* Add the signals to G1, release the lock and wake.
AddSignal(t) ==
  /\ pc[t] = "add"
  /\ cond' = IF local[t].op = "signal"
               THEN [cond EXCEPT !.g_signals[local[t].g1] = @ + 1,
                                 !.g_size[local[t].g1] = @ - 1]
               ELSE SignalAll(local[t].g1)
  /\ lock' = None
  /\ Goto(t, "wake")
  /\ UNCHANGED <<mutex, queue, local, destroyed, unsignaled>>

ToWake(o) == IF o = "signal" THEN 1 ELSE Cardinality(Threads)

WakeSignaled(t) ==
  /\ pc[t] = "wake"
  /\ Wake(t, local[t].g1, ToWake(local[t].op), SigDone(t))
  /\ SetLocals(t, SigLocals(t))
  /\ UNCHANGED <<cond, lock, mutex, destroyed, unsignaled>>

-----------------------------------------------------------------------------
\* __condvar_confirm_wakeup, the last access to the condvar, and the return.

LastReference_NotLast(n) == n = 2
LastReference(n) == n = 1

Confirm(t) ==
  /\ pc[t] = "confirm"
  /\ cond' = [cond EXCEPT !.wrefs = @ - 1]
  /\ Goto(t, IF cond.wake_request /\ LastReference(cond.wrefs) THEN "destroyWake" ELSE "relock")
  /\ UNCHANGED <<lock, mutex, queue, local, destroyed, unsignaled>>

DestroyWake(t) ==
  /\ pc[t] = "destroyWake"
  /\ pc' = [u \in Threads |-> IF u = t THEN "relock"
                              ELSE IF pc[u] = "destroyBlocked" THEN "destroyLoad" ELSE pc[u]]
  /\ UNCHANGED <<cond, lock, mutex, queue, local, destroyed, unsignaled>>

\* __pthread_mutex_cond_lock (unless the unlock had failed).  When the program
\* unlocks the mutex again is of no importance to the condvar.
Relock(t) ==
  /\ pc[t] = "relock"
  /\ local[t].call = "unowned" \/ mutex = None
  /\ Return(t)
  /\ UNCHANGED <<cond, lock, mutex, queue, destroyed, unsignaled>>

-----------------------------------------------------------------------------
\* __pthread_cond_destroy.  The program calls it once all waiters have been
\* signaled and no signal or broadcast call is being executed.

Wrefs == 2 * cond.wrefs + IF cond.wake_request THEN 1 ELSE 0

Referenced(wrefs) == wrefs \div 2 # 0

DestroyLoop(t, wrefs) ==
  IF ~Referenced(wrefs)
    THEN destroyed' = TRUE /\ Return(t)
    ELSE /\ local' = [local EXCEPT ![t].call = "destroy", ![t].signals = wrefs]
         /\ Goto(t, "destroyWait")
         /\ UNCHANGED destroyed

Destroy(t) ==
  /\ pc[t] = "idle"
  /\ ~destroyed /\ ~cond.wake_request
  /\ unsignaled[MaxWaits] = 0
  /\ \A u \in Threads : /\ ~Called(u)
                         /\ pc[u] \notin {"enter", "ref", "unlock"}
  /\ cond' = [cond EXCEPT !.wake_request = TRUE]
  /\ DestroyLoop(t, Wrefs)
  /\ UNCHANGED <<lock, mutex, queue, unsignaled>>

DestroyWait(t) ==
  /\ pc[t] = "destroyWait"
  /\ Goto(t, IF Wrefs = local[t].signals THEN "destroyBlocked" ELSE "destroyLoad")
  /\ UNCHANGED <<cond, lock, mutex, queue, local, destroyed, unsignaled>>

DestroyLoad(t) ==
  /\ pc[t] = "destroyLoad"
  /\ DestroyLoop(t, Wrefs)
  /\ UNCHANGED <<cond, lock, mutex, queue, unsignaled>>

-----------------------------------------------------------------------------
Step(t) ==
  \/ Enter(t) \/ Reference(t) \/ UnlockMutex(t) \/ LoadSignals(t) \/ CheckG1Start(t)
  \/ GrabSignal(t) \/ FutexWait(t) \/ CancelWaiting(t) \/ CleanupWake(t)
  \/ SigLoad(t) \/ SigLock(t) \/ AddRest(t) \/ WakeRest(t) \/ CloseG1(t)
  \/ FlipG2(t) \/ InitSignals(t) \/ AddSignal(t) \/ WakeSignaled(t)
  \/ Confirm(t) \/ DestroyWake(t) \/ Relock(t) \/ DestroyWait(t) \/ DestroyLoad(t)

Next ==
  \E t \in Threads :
    \/ \E c \in Waits : Invoke(t, c)
    \/ \E o \in {"signal", "broadcast"} : Signal(t, o)
    \/ Destroy(t)
    \/ Step(t) \/ SpuriousWakeup(t) \/ GiveUp(t)

Spec == Init /\ [][Next]_vars

-----------------------------------------------------------------------------
\* The waiters that neither took a signal nor cancelled yet.
Waiting == At({"ref", "unlock", "load", "check", "grab", "wait", "blocked", "cancel"})

\* "All calls to signal and broadcast ... happen in some total order": a signal
\* wakes one of the waiters that took their position before it, a broadcast all
\* of them, and no later waiter can take their place, whatever the group
\* switches, timeouts and cancellations in between.  unsignaled[p] is the number
\* of waiters with a position below p that may go on waiting; the property is
\* stated where all calls have returned but those of blocked waiters.
NoLostSignal ==
  (\A t \in Threads : pc[t] \in {"idle", "blocked"}) =>
    \A p \in 0..MaxWaits :
      Cardinality({t \in At({"blocked"}) : local[t].seq < p}) <= unsignaled[p]

\* G1 always has a signal, sent or still to come, for each of its waiters, so
\* that it may be closed when its size is zero; and what a signaler finds in
\* __g_size under the lock is the size of G1 or minus the cancellations in G2.
GroupsAccounted ==
  lock = None =>
    LET g2 == cond.wseq % 2
        g1 == Other(g2)
        G1 == {t \in Waiting : cond.g1_start <= local[t].seq /\ ~InG2(local[t].seq)}
        G2 == {t \in Waiting : InG2(local[t].seq)}
    IN /\ cond.g_size[g1] >= 0
       /\ Cardinality(G1) <= cond.g_size[g1] + cond.g_signals[g1] - cond.g1_start
       /\ cond.g_size[g2] <= 0
       /\ Cardinality(G2) <= cond.wseq \div 2 - (cond.g1_start + cond.g1_orig_size)
                               + cond.g_size[g2]
       /\ \A t \in G1 : local[t].g = g1
       /\ \A t \in G2 : local[t].g = g2
       /\ cond.g_signals[g2] <= cond.g1_start + cond.g1_orig_size

\* pthread_cond_destroy waits for those who still use the condvar and no longer:
\* after it has returned no thread accesses the condvar, and while it is blocked
\* some thread that it waits for can take a step, the last of which wakes it up.
DestroyExact ==
  /\ destroyed => \A t \in Threads : pc[t] \in {"idle", "destroyWake", "relock"}
  /\ At({"destroyBlocked"}) # {} =>
       \E t \in Threads : pc[t] \notin {"idle", "blocked", "destroyBlocked", "relock"}
=============================================================================
