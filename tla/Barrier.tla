------------------------------ MODULE Barrier ------------------------------
(***************************************************************************)
(* pthread_barrier_wait and pthread_barrier_destroy                        *)
(* (nptl/pthread_barrier_wait.c, pthread_barrier_destroy.c).               *)
(*                                                                         *)
(* `in' counts the threads that entered and `out' those that confirmed     *)
(* that they left; a round is finished once current_round has reached its  *)
(* end.  When MaxIn threads have entered, later ones wait until the last   *)
(* thread to leave has reset the three counters.  Threads block on two     *)
(* futex words, `in' ("blockedIn") and current_round ("blockedRound").     *)
(***************************************************************************)
EXTENDS Integers, FiniteSets, Futex

CONSTANTS Threads,
          Count,                  \* bar->count
          BARRIER_IN_THRESHOLD    \* UINT_MAX / 2

ASSUME BarrierAssumption ==
  /\ IsFiniteSet(Threads)
  /\ BARRIER_IN_THRESHOLD \in Nat
  /\ Count \in 1 .. BARRIER_IN_THRESHOLD - 1

VARIABLES in, out, current_round,
          pc,          \* pc[t]: what t does next
          i,           \* i[t]: the local i, or in of pthread_barrier_destroy
          cr,          \* cr[t]: the local cr
          destroyed    \* pthread_barrier_destroy has returned

vars == <<in, out, current_round, pc, i, cr, destroyed>>

\* max_in_before_reset: always the end of a round.
MaxIn_Unaligned == BARRIER_IN_THRESHOLD
MaxIn == BARRIER_IN_THRESHOLD - (BARRIER_IN_THRESHOLD % Count)

\* ___pthread_barrier_init.
Init ==
  /\ in = 0 /\ out = 0 /\ current_round = 0
  /\ pc = [t \in Threads |-> "idle"]
  /\ i = [t \in Threads |-> 0]
  /\ cr = [t \in Threads |-> 0]
  /\ destroyed = FALSE

Goto(t, label) == pc' = [pc EXCEPT ![t] = label]

At(labels) == {t \in Threads : pc[t] \in labels}

Destroying == {"d_load", "d_add", "d_wait", "d_blocked", "d_reload"}

-----------------------------------------------------------------------------
\* ___pthread_barrier_wait.

Invoke(t) ==
  /\ pc[t] = "idle"
  /\ ~destroyed
  /\ At(Destroying) = {}
  /\ Goto(t, "enter")
  /\ UNCHANGED <<in, out, current_round, i, cr, destroyed>>

\* i = atomic_fetch_add (&bar->in, 1) + 1.
Enter(t) ==
  /\ pc[t] = "enter"
  /\ in' = in + 1
  /\ i' = [i EXCEPT ![t] = in + 1]
  /\ Goto(t, IF in + 1 > MaxIn THEN "waitIn" ELSE "loadRound")
  /\ UNCHANGED <<out, current_round, cr, destroyed>>

\* futex_wait_simple (&bar->in, i): block, or return at once.
WaitIn(t) ==
  /\ pc[t] = "waitIn"
  /\ Goto(t, IF in = i[t] THEN "blockedIn" ELSE "reloadIn")
  /\ UNCHANGED <<in, out, current_round, i, cr, destroyed>>

\* i = atomic_load (&bar->in): wait again or restart.
ReloadIn(t) ==
  /\ pc[t] = "reloadIn"
  /\ IF in > MaxIn
       THEN Goto(t, "waitIn") /\ i' = [i EXCEPT ![t] = in]
       ELSE Goto(t, "enter") /\ i' = [i EXCEPT ![t] = 0]
  /\ UNCHANGED <<in, out, current_round, cr, destroyed>>

\* Where the code goes once it knows that current_round was c: it tries to
\* finish rounds, leaves, or waits for its round.
CanFinish_OwnRound(c, n) == c + Count = n
CanFinish(c, n) == c + Count <= n

AfterRound(c, n) == CASE CanFinish(c, n) -> "finish"
                      [] ~CanFinish(c, n) /\ n <= c -> "leave"
                      [] OTHER -> "waitRound"

LoadRound(t) ==
  /\ pc[t] = "loadRound"
  /\ cr' = [cr EXCEPT ![t] = current_round]
  /\ Goto(t, AfterRound(current_round, i[t]))
  /\ UNCHANGED <<in, out, current_round, i, destroyed>>

\* The CAS that finishes all rounds up to the thread's position.
NewRound(n) == n - (n % Count)

FinishRounds(t) ==
  /\ pc[t] = "finish"
  /\ IF current_round = cr[t]
       THEN /\ current_round' = NewRound(i[t])
            /\ cr' = [cr EXCEPT ![t] = NewRound(i[t])]
            /\ Goto(t, "wakeRound")
       ELSE /\ cr' = [cr EXCEPT ![t] = current_round]
            /\ Goto(t, AfterRound(current_round, i[t]))
            /\ UNCHANGED current_round
  /\ UNCHANGED <<in, out, i, destroyed>>

\* The threads blocked on a futex word, INT_MAX at most, resume at Resume(u).
ToWake == Cardinality(Threads)

WakeAll(t, blocked, Resume(_), label) ==
  \E woken \in futex_wake(blocked, ToWake) :
    pc' = [u \in Threads |-> IF u = t THEN label
                             ELSE IF u \in woken THEN Resume(u) ELSE pc[u]]

ResumeRound(u) == "reloadRound"
ResumeIn(u) == IF pc[u] = "d_blocked" THEN "d_reload" ELSE "reloadIn"

WakeRound(t) ==
  /\ pc[t] = "wakeRound"
  /\ WakeAll(t, At({"blockedRound"}), ResumeRound,
             IF i[t] <= cr[t] THEN "leave" ELSE "waitRound")
  /\ UNCHANGED <<in, out, current_round, i, cr, destroyed>>

\* futex_wait_simple (&bar->current_round, cr) and the reload after it.
WaitRound(t) ==
  /\ pc[t] = "waitRound"
  /\ Goto(t, IF current_round = cr[t] THEN "blockedRound" ELSE "reloadRound")
  /\ UNCHANGED <<in, out, current_round, i, cr, destroyed>>

RoundOver_Weak(c, n) == n <= c + Count
RoundOver(c, n) == n <= c

ReloadRound(t) ==
  /\ pc[t] = "reloadRound"
  /\ cr' = [cr EXCEPT ![t] = current_round]
  /\ Goto(t, IF RoundOver(current_round, i[t]) THEN "leave" ELSE "waitRound")
  /\ UNCHANGED <<in, out, current_round, i, destroyed>>

\* ready_to_leave: o = atomic_fetch_add (&bar->out, 1) + 1.
Leave(t) ==
  /\ pc[t] = "leave"
  /\ out' = out + 1
  /\ i' = [i EXCEPT ![t] = 0]
  /\ cr' = [cr EXCEPT ![t] = 0]
  /\ Goto(t, IF out + 1 = MaxIn THEN "resetRound" ELSE "idle")
  /\ UNCHANGED <<in, current_round, destroyed>>

\* The reset: current_round, out and, as the last step, in.
ResetRound(t) ==
  /\ pc[t] = "resetRound"
  /\ current_round' = 0
  /\ Goto(t, "resetOut")
  /\ UNCHANGED <<in, out, i, cr, destroyed>>

ResetOut(t) ==
  /\ pc[t] = "resetOut"
  /\ out' = 0
  /\ Goto(t, "resetIn")
  /\ UNCHANGED <<in, current_round, i, cr, destroyed>>

ResetIn(t) ==
  /\ pc[t] = "resetIn"
  /\ in' = 0
  /\ Goto(t, "wakeIn")
  /\ UNCHANGED <<out, current_round, i, cr, destroyed>>

WakeIn(t) ==
  /\ pc[t] = "wakeIn"
  /\ WakeAll(t, At({"blockedIn", "d_blocked"}), ResumeIn, "idle")
  /\ UNCHANGED <<in, out, current_round, i, cr, destroyed>>

\* A futex_wait that returns without a wake-up (a signal, a stray wake).
SpuriousWakeup(t) ==
  /\ pc[t] \in {"blockedIn", "blockedRound", "d_blocked"}
  /\ Goto(t, IF pc[t] = "blockedRound" THEN "reloadRound" ELSE ResumeIn(t))
  /\ UNCHANGED <<in, out, current_round, i, cr, destroyed>>

-----------------------------------------------------------------------------
\* __pthread_barrier_destroy.  The program calls it when every call has been
\* released from its round ("no thread is blocked on it").

Exiting == {"wakeRound", "blockedRound", "reloadRound", "loadRound", "finish",
            "waitRound", "leave", "resetRound", "resetOut", "resetIn", "wakeIn"}

\* The end of the round of position n.
RoundEnd(n) == n + ((-n) % Count)

Destroy(t) ==
  /\ pc[t] = "idle"
  /\ ~destroyed
  /\ \A u \in Threads : \/ pc[u] = "idle"
                        \/ pc[u] \in Exiting /\ in >= RoundEnd(i[u])
  /\ Goto(t, "d_load")
  /\ UNCHANGED <<in, out, current_round, i, cr, destroyed>>

DestroyLoad(t) ==
  /\ pc[t] = "d_load"
  /\ i' = [i EXCEPT ![t] = in]
  /\ Goto(t, "d_add")
  /\ UNCHANGED <<in, out, current_round, cr, destroyed>>

DestroyReturn(t) == destroyed' = TRUE /\ i' = [i EXCEPT ![t] = 0] /\ Goto(t, "idle")

\* Pretend that the threshold is reached; whoever brings `out' to it resets.
StillExiting_Never(o, n) == FALSE
StillExiting(o, n) == o < n

DestroyAdd(t) ==
  /\ pc[t] = "d_add"
  /\ out' = out + (MaxIn - i[t])
  /\ IF StillExiting(out, i[t])
       THEN Goto(t, "d_wait") /\ UNCHANGED <<i, destroyed>>
       ELSE DestroyReturn(t)
  /\ UNCHANGED <<in, current_round, cr>>

DestroyWait(t) ==
  /\ pc[t] = "d_wait"
  /\ Goto(t, IF in = i[t] THEN "d_blocked" ELSE "d_reload")
  /\ UNCHANGED <<in, out, current_round, i, cr, destroyed>>

DestroyReload(t) ==
  /\ pc[t] = "d_reload"
  /\ IF in # 0
       THEN i' = [i EXCEPT ![t] = in] /\ Goto(t, "d_wait") /\ UNCHANGED destroyed
       ELSE DestroyReturn(t)
  /\ UNCHANGED <<in, out, current_round, cr>>

-----------------------------------------------------------------------------
Step(t) ==
  \/ Enter(t) \/ WaitIn(t) \/ ReloadIn(t) \/ LoadRound(t) \/ FinishRounds(t)
  \/ WakeRound(t) \/ WaitRound(t) \/ ReloadRound(t) \/ Leave(t)
  \/ ResetRound(t) \/ ResetOut(t) \/ ResetIn(t) \/ WakeIn(t)
  \/ DestroyLoad(t) \/ DestroyAdd(t) \/ DestroyWait(t) \/ DestroyReload(t)

Next == \E t \in Threads : Invoke(t) \/ Destroy(t) \/ Step(t) \/ SpuriousWakeup(t)

Spec == Init /\ [][Next]_vars

\* Every thread that can run keeps running; only callers may stop calling.
FairSpec == Spec /\ \A t \in Threads : WF_vars(Step(t))

-----------------------------------------------------------------------------
\* No thread leaves before all threads of its round have entered, whichever
\* thread finished the round and whatever happened between its loads; and the
\* counters are reset only when every thread that entered has left.
InRound == Exiting \ {"resetRound", "resetOut", "resetIn", "wakeIn"}

NoEarlyExit ==
  /\ \A t \in At({"leave"}) : in >= RoundEnd(i[t]) /\ current_round >= i[t]
  /\ At({"resetRound", "resetOut", "resetIn"}) # {} => At(InRound) = {}

\* After pthread_barrier_destroy has returned no thread accesses the barrier any
\* more: "We must wait until all threads that entered so far have confirmed that
\* they have exited as well."  (A late futex_wake is no access.)
DestroySafe == destroyed => At(Exiting \ {"wakeIn"}) = {}

\* It is so but for the last leaver of a barrier that is destroyed when exactly
\* max_in_before_reset threads have entered: its reset may still be going on.
DestroySafeButReset ==
  destroyed => At(Exiting \ {"wakeIn"})
                 \subseteq IF in = MaxIn THEN At({"resetRound", "resetOut", "resetIn"}) ELSE {}

\* Every thread of a completed round returns, every thread that waits for the
\* reset enters and pthread_barrier_destroy returns, once no new calls are made.
Done(t) == pc[t] = "idle" \/ (pc[t] \in InRound /\ in < RoundEnd(i[t]))

EveryCallReturns ==
  (<>[][~\E t \in Threads : Invoke(t)]_vars) => <>[](\A t \in Threads : Done(t))

\* pthread_barrier_wait implements the abstract barrier: a thread has arrived
\* with its fetch-and-add, and is released by the one that completes its round.
Status(t) ==
  IF pc[t] \notin InRound THEN "out"
  ELSE IF in < RoundEnd(i[t]) THEN "waiting"
  ELSE IF i[t] % Count = 0 THEN "serial" ELSE "released"

status == [t \in Threads |-> Status(t)]

Abs == INSTANCE AbstractBarrier

ImplementsAbstractBarrier == Abs!Spec
=============================================================================
