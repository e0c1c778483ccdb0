-------------------------------- MODULE Once --------------------------------
(***************************************************************************)
(* pthread_once (nptl/pthread_once.c), with cancellation of the            *)
(* initializer and with fork (posix/fork.c, sysdeps/nptl/fork.h).          *)
(*                                                                         *)
(* once_control is 0 (not initialized), the fork generation with the       *)
(* INPROGRESS bit, or DONE.  After a fork the model follows the child: it  *)
(* has a copy of the memory and only the forking thread; the initializer   *)
(* that another thread was running is then lost.                           *)
(***************************************************************************)
EXTENDS Futex

CONSTANTS Threads,
          Generations,     \* number of fork generations once_control can hold
          MaxForks,        \* bound on the number of forks
          ForkInInit       \* whether init_routine may itself call fork

PTHREAD_ONCE_INPROGRESS == 1
PTHREAD_ONCE_DONE == 2
PTHREAD_ONCE_FORK_GEN_INCR == 4

VARIABLES once_control, fork_generation,
          pc,            \* pc[t]: what t does next; "gone": no such thread
          val            \* val[t]: the local val

vars == <<once_control, fork_generation, pc, val>>

Init ==
  /\ once_control = 0 /\ fork_generation = 0
  /\ pc = [t \in Threads |-> "idle"]
  /\ val = [t \in Threads |-> 0]

Goto(t, label) == pc' = [pc EXCEPT ![t] = label]
At(labels) == {t \in Threads : pc[t] \in labels}

IsDone(v) == (v \div PTHREAD_ONCE_DONE) % 2 = 1
IsInProgress(v) == v % 2 = 1

\* newval = __fork_generation | __PTHREAD_ONCE_INPROGRESS, converted to int.
InProgress == (fork_generation % (PTHREAD_ONCE_FORK_GEN_INCR * Generations))
                + PTHREAD_ONCE_INPROGRESS

-----------------------------------------------------------------------------
Invoke(t) ==
  /\ pc[t] = "idle"
  /\ Goto(t, "fast")
  /\ UNCHANGED <<once_control, fork_generation, val>>

\* The fast path of ___pthread_once.
Fast(t) ==
  /\ pc[t] = "fast"
  /\ Goto(t, IF IsDone(once_control) THEN "idle" ELSE "load")
  /\ UNCHANGED <<once_control, fork_generation, val>>

\* __pthread_once_slow.  A value just read: return, or try to move to
\* "in progress".
Read_Unchecked(t) == Goto(t, "cas") /\ val' = [val EXCEPT ![t] = once_control]
Read(t) ==
  IF IsDone(once_control)
    THEN Goto(t, "idle") /\ val' = [val EXCEPT ![t] = 0]
    ELSE Goto(t, "cas") /\ val' = [val EXCEPT ![t] = once_control]

Load(t) ==
  /\ pc[t] = "load"
  /\ Read(t)
  /\ UNCHANGED <<once_control, fork_generation>>

\* Another thread of this process is running the initializer.
OtherIsFaster_AnyGen(v) == IsInProgress(v)
OtherIsFaster_Never(v) == FALSE
OtherIsFaster(v) == IsInProgress(v) /\ v = InProgress

CAS(t) ==
  /\ pc[t] = "cas"
  /\ IF once_control = val[t]
       THEN /\ once_control' = InProgress
            /\ Goto(t, IF OtherIsFaster(val[t]) THEN "wait" ELSE "init")
            /\ val' = [val EXCEPT ![t] = 0]
       ELSE Read(t) /\ UNCHANGED once_control
  /\ UNCHANGED fork_generation

\* futex_wait_simple, then `continue'.
Wait(t) ==
  /\ pc[t] = "wait"
  /\ Goto(t, IF once_control = InProgress THEN "blocked" ELSE "load")
  /\ UNCHANGED <<once_control, fork_generation, val>>

SpuriousWakeup(t) ==
  /\ pc[t] = "blocked"
  /\ Goto(t, "load")
  /\ UNCHANGED <<once_control, fork_generation, val>>

\* init_routine returns, or the thread is cancelled in it and the cleanup
\* handler clear_once_control runs.
InitRoutine(t) ==
  /\ pc[t] = "init"
  /\ Goto(t, "done")
  /\ UNCHANGED <<once_control, fork_generation, val>>

Canceled(t) ==
  /\ pc[t] = "init"
  /\ Goto(t, "clear")
  /\ UNCHANGED <<once_control, fork_generation, val>>

StoreDone(t) ==
  /\ pc[t] = "done"
  /\ once_control' = PTHREAD_ONCE_DONE
  /\ Goto(t, "wakeDone")
  /\ UNCHANGED <<fork_generation, val>>

Clear(t) ==
  /\ pc[t] = "clear"
  /\ once_control' = 0
  /\ Goto(t, "wakeClear")
  /\ UNCHANGED <<fork_generation, val>>

\* futex_wake (once_control, INT_MAX).
ToWake == Cardinality(Threads)

Wake(t) ==
  /\ pc[t] \in {"wakeDone", "wakeClear"}
  /\ \E W \in futex_wake(At({"blocked"}), ToWake) :
       pc' = [u \in Threads |->
                IF u = t THEN IF pc[t] = "wakeDone" THEN "idle" ELSE "gone"
                ELSE IF u \in W THEN "load" ELSE pc[u]]
  /\ UNCHANGED <<once_control, fork_generation, val>>

-----------------------------------------------------------------------------
\* fork, in the child: the memory is copied, the other threads do not exist and
\* fork_system_setup enters the next generation.
Fork(t) ==
  /\ pc[t] = "idle" \/ (ForkInInit /\ pc[t] = "init")
  /\ fork_generation < PTHREAD_ONCE_FORK_GEN_INCR * MaxForks
  /\ fork_generation' = fork_generation + PTHREAD_ONCE_FORK_GEN_INCR
  /\ pc' = [u \in Threads |-> IF u = t THEN pc[t] ELSE "gone"]
  /\ val' = [u \in Threads |-> IF u = t THEN val[t] ELSE 0]
  /\ UNCHANGED once_control

\* The program creates a thread.
Create(t) ==
  /\ pc[t] = "gone"
  /\ Goto(t, "idle")
  /\ UNCHANGED <<once_control, fork_generation, val>>

Step(t) ==
  \/ Fast(t) \/ Load(t) \/ CAS(t) \/ Wait(t) \/ InitRoutine(t)
  \/ StoreDone(t) \/ Clear(t) \/ Wake(t)

Next == \E t \in Threads : \/ Invoke(t) \/ Step(t) \/ SpuriousWakeup(t)
                           \/ Canceled(t) \/ Fork(t) \/ Create(t)

Spec == Init /\ [][Next]_vars

\* Threads keep running and init_routine terminates.
FairSpec == Spec /\ \A t \in Threads : WF_vars(Step(t))

-----------------------------------------------------------------------------
\* The threads between the CAS that makes them the initializer and their last store.
Initializing == At({"init", "done", "clear"})

\* In one process at most one thread runs the initializer at a time, and none
\* does once it is marked as done: "the first thread to do so via a CAS on
\* once_control runs init_routine, other threads block".
OneInitializer ==
  /\ Cardinality(Initializing) <= 1
  /\ once_control = PTHREAD_ONCE_DONE => Initializing = {}

\* "To distinguish an in-progress initialization from an interrupted
\* initialization ... we look at the fork generation": an initialization that is
\* running is never taken for one that a fork interrupted.
NotReclaimedWhileRunning == Cardinality(Initializing) <= 1

\* The initialized state is final: no cancellation, fork or late CAS undoes it.
DoneIsFinal == [][once_control = PTHREAD_ONCE_DONE => UNCHANGED once_control]_vars

\* An initialization that a fork interrupted, Generations forks ago: its value is
\* that of one which is in progress now, and nobody runs it.  The code knows:
\* "XXX: This algorithm has an ABA issue on the fork generation: If an
\* initialization is interrupted, we then fork 2^30 times ..., and try to
\* initialize again, we can deadlock because we can't distinguish".
GenerationReused ==
  /\ fork_generation >= PTHREAD_ONCE_FORK_GEN_INCR * Generations
  /\ once_control = InProgress
  /\ Initializing = {}

\* Once there are no more cancellations and forks every call returns, also
\* those of threads whose initializer was cancelled or lost in a fork, unless the
\* generation of an interrupted initialization has come round again.
EveryCallReturns ==
  (<>[][~\E t \in Threads : Canceled(t) \/ Fork(t)]_vars) =>
    \A t \in Threads :
      (pc[t] \notin {"idle", "gone"}) ~> (pc[t] \in {"idle", "gone"} \/ GenerationReused)
=============================================================================
