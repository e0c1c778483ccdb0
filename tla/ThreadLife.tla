----------------------------- MODULE ThreadLife -----------------------------
(***************************************************************************)
(* The life of a thread descriptor (`struct pthread', pd) and its stack:   *)
(* pthread_create (with the stopped start and its failures), the exit path *)
(* of start_thread, pthread_join, pthread_timedjoin_np, pthread_tryjoin_np,*)
(* pthread_detach, pthread_kill, the part of pthread_cancel that reaches   *)
(* for the descriptor, __nptl_free_tcb and the cache of stacks.            *)
(*                                                                         *)
(* A descriptor stands for the thread that runs on its stack; descriptor   *)
(* `main' for the initial thread, which is never joined here.  The kernel  *)
(* clears `joinstate' when the thread is really gone (CLONE_CHILD_CLEARTID)*)
(* and then wakes one waiter.  Stacks have one size; which suitable stack  *)
(* of the cache is taken, or whether a new one is mapped, is open.  The    *)
(* critical sections of dl_stack_cache_lock are single steps.              *)
(***************************************************************************)
EXTENDS Naturals, FiniteSets, Futex

CONSTANTS TCBs,
          main,         \* the descriptor of the initial thread
          NoTCB,
          MaxCache      \* __nptl_stack_cache_maxsize, in stacks

ASSUME ThreadLifeAssumption ==
  IsFiniteSet(TCBs) /\ main \in TCBs /\ NoTCB \notin TCBs /\ MaxCache \in Nat

EXITED == "EXITED"
EXITING == "EXITING"
JOINABLE == "JOINABLE"
DETACHED == "DETACHED"

JoinOps == {"join", "timedjoin", "detach"}

VARIABLES
  used,          \* dl_stack_used and dl_stack_user
  cache,         \* dl_stack_cache: the stacks in the list,
  newer,         \* and its order: <<p, r>> says that p comes before r
  joinstate, terminated, exiting, exit_lock, setup_failed,  \* fields of pd
  gate,          \* gate[p]: pd->lock is held by the creating thread
  nthreads,      \* __nptl_nthreads
  finished,      \* the process has called exit
  onstack,       \* onstack[p]: how many kernel threads run on the stack of p
  kwake,         \* kwake[p]: the kernel has cleared joinstate and will wake
  pc, op,        \* pc[p], op[p]: what the thread on p does next, in which call
  target,        \* target[p]: the descriptor that call is about
  seen,          \* seen[p]: the local prevstate or state
  handle         \* handle[p]: what the program may do with the thread's id:
                 \* "none", "joinable", "taken" (being joined or detached),
                 \* "detached", "gone"

desc == <<joinstate, terminated, exiting, exit_lock, setup_failed, gate>>
stacks == <<used, cache, newer>>
kernel == <<onstack, kwake>>
locals == <<pc, op, target, seen>>
vars == <<stacks, desc, nthreads, finished, kernel, locals, handle>>

Init ==
  /\ used = {main} /\ cache = {} /\ newer = {}
  /\ joinstate = [p \in TCBs |-> IF p = main THEN JOINABLE ELSE EXITED]
  /\ terminated = [p \in TCBs |-> FALSE]
  /\ exiting = [p \in TCBs |-> FALSE]
  /\ exit_lock = [p \in TCBs |-> NoTCB]
  /\ setup_failed = [p \in TCBs |-> FALSE]
  /\ gate = [p \in TCBs |-> FALSE]
  /\ nthreads = 1 /\ finished = FALSE
  /\ onstack = [p \in TCBs |-> IF p = main THEN 1 ELSE 0]
  /\ kwake = [p \in TCBs |-> FALSE]
  /\ pc = [p \in TCBs |-> IF p = main THEN "run" ELSE "none"]
  /\ op = [p \in TCBs |-> "none"]
  /\ target = [p \in TCBs |-> NoTCB]
  /\ seen = [p \in TCBs |-> EXITED]
  /\ handle = [p \in TCBs |-> "none"]

At(q, label) == ~finished /\ pc[q] = label
Goto(q, label) == pc' = [pc EXCEPT ![q] = label]

Call(q, o, p, label) ==
  /\ Goto(q, label)
  /\ op' = [op EXCEPT ![q] = o]
  /\ target' = [target EXCEPT ![q] = p]
  /\ UNCHANGED seen

Return(q) ==
  /\ Goto(q, "run")
  /\ op' = [op EXCEPT ![q] = "none"]
  /\ target' = [target EXCEPT ![q] = NoTCB]
  /\ seen' = [seen EXCEPT ![q] = EXITED]

-----------------------------------------------------------------------------
\* The cache of stacks.

\* __nptl_stack_in_use (whose result says the opposite of its name).
Reusable_Any(p) == TRUE
Reusable(p) == joinstate[p] = EXITED

\* The order without the stacks that leave the list.
Without(order, v) == {e \in order : e[1] \notin v /\ e[2] \notin v}

\* __nptl_free_stacks: unmap from the end of the cache until it is small enough.
Victims(c, order) ==
  LET free == {p \in c : Reusable(p)} IN
  {p \in free :
     Cardinality({r \in free : r = p \/ <<p, r>> \in order}) + MaxCache <= Cardinality(c)}

\* __nptl_deallocate_stack: p becomes the first of the cache.
Deallocate(p) ==
  LET c == cache \cup {p}
      order == newer \cup ({p} \X cache)
      v == Victims(c, order)
  IN /\ used' = used \ {p}
     /\ cache' = c \ v
     /\ newer' = Without(order, v)

\* __nptl_free_tcb.
FreeTCB(p) ==
  /\ terminated' = [terminated EXCEPT ![p] = TRUE]
  /\ IF terminated[p] THEN UNCHANGED stacks ELSE Deallocate(p)

-----------------------------------------------------------------------------
\* pthread_create.

\* A stack from the cache (get_cached_stack) or a new one; the descriptor is
\* initialised; the count of threads goes up before the thread exists.
Allocate(q) ==
  /\ At(q, "run")
  /\ \E p \in TCBs \ used, detached \in BOOLEAN, stopped \in BOOLEAN :
       /\ p \in cache => Reusable(p)
       /\ used' = used \cup {p}
       /\ cache' = cache \ {p} /\ newer' = Without(newer, {p})
       /\ terminated' = [terminated EXCEPT ![p] = FALSE]
       /\ exiting' = [exiting EXCEPT ![p] = FALSE]
       /\ exit_lock' = [exit_lock EXCEPT ![p] = NoTCB]
       /\ setup_failed' = [setup_failed EXCEPT ![p] = FALSE]
       /\ joinstate' = [joinstate EXCEPT ![p] = IF detached THEN DETACHED ELSE JOINABLE]
       /\ gate' = [gate EXCEPT ![p] = stopped]
       /\ handle' = [handle EXCEPT ![p] = "none"]
       /\ Call(q, "create", p, "clone")
  /\ nthreads' = nthreads + 1
  /\ UNCHANGED <<finished, kernel>>

\* The program gets the thread's id.
Publish(p) ==
  handle' = [handle EXCEPT ![p] = IF joinstate[p] = DETACHED THEN "detached" ELSE "joinable"]

Clone(q) ==
  LET p == target[q] IN
  /\ At(q, "clone")
  /\ onstack' = [onstack EXCEPT ![p] = @ + 1]
  /\ IF gate[p]
       THEN /\ pc' = [pc EXCEPT ![p] = "gate", ![q] = "configure"]
            /\ UNCHANGED <<op, target, seen, handle>>
       ELSE /\ pc' = [pc EXCEPT ![p] = "run", ![q] = "run"]
            /\ op' = [op EXCEPT ![q] = "none"]
            /\ target' = [target EXCEPT ![q] = NoTCB]
            /\ Publish(p)
            /\ UNCHANGED seen
  /\ UNCHANGED <<stacks, desc, nthreads, finished, kwake>>

\* State (d) of the CONCURRENCY NOTES: no thread was created.
CloneFails(q) ==
  /\ At(q, "clone")
  /\ nthreads' = nthreads - 1
  /\ Deallocate(target[q])
  /\ Return(q)
  /\ UNCHANGED <<desc, finished, kernel, handle>>

\* The creating thread sets affinity and scheduling of the stopped thread and
\* releases pd->lock; if it could not, the thread must exit and be waited for.
Configure(q) ==
  LET p == target[q] IN
  /\ At(q, "configure")
  /\ gate' = [gate EXCEPT ![p] = FALSE]
  /\ \/ /\ Publish(p)
        /\ Return(q)
        /\ UNCHANGED setup_failed
     \/ /\ setup_failed' = [setup_failed EXCEPT ![p] = TRUE]
        /\ Goto(q, "j_load")
        /\ UNCHANGED <<op, target, seen, handle>>
  /\ UNCHANGED <<stacks, joinstate, terminated, exiting, exit_lock, nthreads, finished, kernel>>

\* start_thread of a stopped thread.
Gate(p) ==
  /\ At(p, "gate")
  /\ ~gate[p]
  /\ IF setup_failed[p]
       THEN joinstate' = [joinstate EXCEPT ![p] = JOINABLE] /\ Goto(p, "x_kernel")
       ELSE Goto(p, "run") /\ UNCHANGED joinstate
  /\ UNCHANGED <<stacks, terminated, exiting, exit_lock, setup_failed, gate, nthreads, finished,
                 kernel, op, target, seen, handle>>

-----------------------------------------------------------------------------
\* The exit of a thread: start_thread, or __libc_start_call_main for `main'.

Exit(p) ==
  /\ At(p, "run")
  /\ seen' = [seen EXCEPT ![p] = joinstate[p]]
  /\ joinstate' = [joinstate EXCEPT ![p] = IF p = main THEN EXITED ELSE EXITING]
  /\ Goto(p, "x_dec")
  /\ UNCHANGED <<stacks, terminated, exiting, exit_lock, setup_failed, gate, nthreads, finished,
                 kernel, op, target, handle>>

LastThread_OffByOne == nthreads = 2
LastThread == nthreads = 1

Decrement(p) ==
  /\ At(p, "x_dec")
  /\ nthreads' = nthreads - 1
  /\ finished' = LastThread
  /\ IF p = main
       THEN Goto(p, "none") /\ onstack' = [onstack EXCEPT ![p] = 0]
       ELSE Goto(p, "x_lock") /\ UNCHANGED onstack
  /\ UNCHANGED <<stacks, desc, kwake, op, target, seen, handle>>

\* exit_lock is taken to set pd->exiting: a signal being sent delays the exit.
ExitWaits_Not(p) == TRUE
ExitWaits(p) == exit_lock[p] = NoTCB

SetExiting(p) ==
  /\ At(p, "x_lock")
  /\ ExitWaits(p)
  /\ exiting' = [exiting EXCEPT ![p] = TRUE]
  /\ Goto(p, "x_free")
  /\ UNCHANGED <<stacks, joinstate, terminated, exit_lock, setup_failed, gate, nthreads, finished,
                 kernel, op, target, seen, handle>>

\* A detached thread frees its own descriptor, then still runs on its stack
\* and clears pd->tid.
ExitFree(p) ==
  /\ At(p, "x_free")
  /\ IF seen[p] = DETACHED THEN FreeTCB(p) ELSE UNCHANGED <<stacks, terminated>>
  /\ Goto(p, "x_kernel")
  /\ seen' = [seen EXCEPT ![p] = EXITED]
  /\ UNCHANGED <<joinstate, exiting, exit_lock, setup_failed, gate, nthreads, finished, kernel,
                 op, target, handle>>

KernelClear(p) ==
  /\ At(p, "x_kernel")
  /\ ~kwake[p]
  /\ joinstate' = [joinstate EXCEPT ![p] = EXITED]
  /\ onstack' = [onstack EXCEPT ![p] = @ - 1]
  /\ kwake' = [kwake EXCEPT ![p] = TRUE]
  /\ Goto(p, "none")
  /\ UNCHANGED <<stacks, terminated, exiting, exit_lock, setup_failed, gate, nthreads, finished,
                 op, target, seen, handle>>

\* The futex wake-up that follows; the stack may have a new thread by now.
BlockedOn(p) == {q \in TCBs : pc[q] = "j_blocked" /\ target[q] = p}

KernelWake(p) ==
  /\ ~finished
  /\ kwake[p]
  /\ kwake' = [kwake EXCEPT ![p] = FALSE]
  /\ \E W \in futex_wake(BlockedOn(p), 1) :
       pc' = [q \in TCBs |-> IF q \in W THEN "j_load" ELSE pc[q]]
  /\ UNCHANGED <<stacks, desc, nthreads, finished, onstack, op, target, seen, handle>>

-----------------------------------------------------------------------------
\* pthread_join, pthread_timedjoin_np and pthread_detach.  The program joins or
\* detaches a thread once, and while no other call is about it (a thread that
\* detaches itself again gets EINVAL).

Busy(p) == \E q \in TCBs : target[q] = p

TakeHandle(q, o, p, label) ==
  /\ handle[p] = "joinable" \/ (o = "detach" /\ p = q /\ handle[p] = "detached")
  /\ ~Busy(p)
  /\ handle' = [handle EXCEPT ![p] = "taken"]
  /\ Call(q, o, p, label)

Join(q) ==
  /\ At(q, "run")
  /\ \E p \in TCBs, o \in {"join", "timedjoin"} : TakeHandle(q, o, p, "j_load")
  /\ UNCHANGED <<stacks, desc, nthreads, finished, kernel>>

\* pthread_tryjoin_np: EBUSY (nothing happens) unless the thread is gone.
TryJoin(q) ==
  /\ At(q, "run")
  /\ \E p \in TCBs : joinstate[p] = EXITED /\ TakeHandle(q, "join", p, "j_load")
  /\ UNCHANGED <<stacks, desc, nthreads, finished, kernel>>

\* The call fails and the thread stays what it was.
GiveUp(q) == Publish(target[q]) /\ Return(q)

\* The loop of __pthread_clockjoin_ex, and the one of pthread_create that waits
\* for a thread whose setup failed.
JoinLoad(q) ==
  LET p == target[q] IN
  /\ At(q, "j_load")
  /\ IF joinstate[p] = EXITED
       THEN Goto(q, "j_free") /\ UNCHANGED <<op, target, seen, handle>>
       ELSE IF op[q] \in JoinOps /\ (p = q \/ joinstate[p] = DETACHED)   \* EDEADLK, EINVAL
              THEN GiveUp(q)
              ELSE /\ seen' = [seen EXCEPT ![q] = joinstate[p]]
                   /\ Goto(q, "j_wait")
                   /\ UNCHANGED <<op, target, handle>>
  /\ UNCHANGED <<stacks, desc, nthreads, finished, kernel>>

JoinWait(q) ==
  /\ At(q, "j_wait")
  /\ Goto(q, IF joinstate[target[q]] = seen[q] THEN "j_blocked" ELSE "j_load")
  /\ seen' = [seen EXCEPT ![q] = EXITED]
  /\ UNCHANGED <<stacks, desc, nthreads, finished, kernel, op, target, handle>>

\* EINTR or a spurious wake-up: the loop looks again.
JoinInterrupted(q) ==
  /\ At(q, "j_blocked")
  /\ Goto(q, "j_load")
  /\ UNCHANGED <<stacks, desc, nthreads, finished, kernel, op, target, seen, handle>>

\* A deadline passes; a pthread_join that is canceled ends in the same way.
JoinTimedOut(q) ==
  /\ At(q, "j_blocked")
  /\ op[q] = "timedjoin"
  /\ GiveUp(q)
  /\ UNCHANGED <<stacks, desc, nthreads, finished, kernel>>

JoinFree(q) ==
  LET p == target[q] IN
  /\ At(q, "j_free")
  /\ IF op[q] = "create"
       THEN /\ nthreads' = nthreads - 1
            /\ Deallocate(p)
            /\ UNCHANGED <<terminated, handle>>
       ELSE /\ FreeTCB(p)
            /\ handle' = [handle EXCEPT ![p] = "gone"]
            /\ UNCHANGED nthreads
  /\ Return(q)
  /\ UNCHANGED <<joinstate, exiting, exit_lock, setup_failed, gate, finished, kernel>>

Detach(q) ==
  /\ At(q, "run")
  /\ \E p \in TCBs : TakeHandle(q, "detach", p, "d_load")
  /\ UNCHANGED <<stacks, desc, nthreads, finished, kernel>>

DetachLoad(q) ==
  /\ At(q, "d_load")
  /\ seen' = [seen EXCEPT ![q] = joinstate[target[q]]]
  /\ Goto(q, "d_cas")
  /\ UNCHANGED <<stacks, desc, nthreads, finished, kernel, op, target, handle>>

\* The compare-and-exchange succeeds only from the state seen.
DetachCAS_Store(q) == TRUE
DetachCAS(q) == joinstate[target[q]] = seen[q]

DetachTry(q) ==
  LET p == target[q] IN
  /\ At(q, "d_cas")
  /\ \/ /\ seen[q] = DETACHED                                     \* EINVAL
        /\ GiveUp(q)
        /\ UNCHANGED joinstate
     \/ /\ seen[q] \in {EXITING, EXITED}
        /\ Goto(q, "j_load")
        /\ seen' = [seen EXCEPT ![q] = EXITED]
        /\ UNCHANGED <<joinstate, op, target, handle>>
     \/ /\ seen[q] = JOINABLE
        /\ IF DetachCAS(q)
             THEN /\ joinstate' = [joinstate EXCEPT ![p] = DETACHED]
                  /\ handle' = [handle EXCEPT ![p] = "detached"]
                  /\ Return(q)
             ELSE /\ seen' = [seen EXCEPT ![q] = joinstate[p]]
                  /\ UNCHANGED <<joinstate, pc, op, target, handle>>
  /\ UNCHANGED <<stacks, terminated, exiting, exit_lock, setup_failed, gate, nthreads, finished,
                 kernel>>

-----------------------------------------------------------------------------
\* pthread_kill of another thread, and the end of pthread_cancel, which sends
\* SIGCANCEL the same way unless the thread has already exited.

Kill(q) ==
  /\ At(q, "run")
  /\ \E p \in TCBs \ {q}, o \in {"kill", "cancel"} :
       /\ handle[p] = "joinable"
       /\ o = "cancel" => joinstate[p] # EXITED
       /\ Call(q, o, p, "k_lock")
  /\ UNCHANGED <<stacks, desc, nthreads, finished, kernel, handle>>

KillLock(q) ==
  LET p == target[q] IN
  /\ At(q, "k_lock")
  /\ exit_lock[p] = NoTCB
  /\ exit_lock' = [exit_lock EXCEPT ![p] = q]
  /\ Goto(q, "k_check")
  /\ UNCHANGED <<stacks, joinstate, terminated, exiting, setup_failed, gate, nthreads, finished,
                 kernel, op, target, seen, handle>>

KillCheck(q) ==
  /\ At(q, "k_check")
  /\ Goto(q, IF exiting[target[q]] THEN "k_unlock" ELSE "tgkill")
  /\ UNCHANGED <<stacks, desc, nthreads, finished, kernel, op, target, seen, handle>>

Tgkill(q) ==
  /\ At(q, "tgkill")
  /\ Goto(q, "k_unlock")
  /\ UNCHANGED <<stacks, desc, nthreads, finished, kernel, op, target, seen, handle>>

KillUnlock(q) ==
  /\ At(q, "k_unlock")
  /\ exit_lock' = [exit_lock EXCEPT ![target[q]] = NoTCB]
  /\ Return(q)
  /\ UNCHANGED <<stacks, joinstate, terminated, exiting, setup_failed, gate, nthreads, finished,
                 kernel, handle>>

Next ==
  \E q \in TCBs :
    \/ Allocate(q) \/ Clone(q) \/ CloneFails(q) \/ Configure(q) \/ Gate(q)
    \/ Exit(q) \/ Decrement(q) \/ SetExiting(q) \/ ExitFree(q) \/ KernelClear(q) \/ KernelWake(q)
    \/ Join(q) \/ TryJoin(q) \/ JoinLoad(q) \/ JoinWait(q)
    \/ JoinInterrupted(q) \/ JoinTimedOut(q) \/ JoinFree(q)
    \/ Detach(q) \/ DetachLoad(q) \/ DetachTry(q)
    \/ Kill(q) \/ KillLock(q) \/ KillCheck(q) \/ Tgkill(q) \/ KillUnlock(q)

Spec == Init /\ [][Next]_vars

-----------------------------------------------------------------------------
\* "The memory may still be in use but it will not be reused until the kernel
\* marks the stack as not used anymore" (nptl-stack.c): no two threads ever run
\* on one stack, a stack is not unmapped under a running thread, and a call that
\* is about a thread finds its descriptor neither freed nor given to another.
StackOutlivesThread ==
  /\ \A p \in TCBs : onstack[p] <= 1
  /\ \A p \in TCBs : onstack[p] = 1 => p \in used \cup cache
  /\ \A q \in TCBs : target[q] # NoTCB => target[q] \in used

\* exit_lock: the thread id passed to tgkill is still that of the thread the
\* caller means, which cannot leave before the signal is queued.  (That the
\* descriptor still is that thread's is up to the program, which does not join or
\* detach the thread during the call.)
KillHitsTarget ==
  \A q \in TCBs : pc[q] = "tgkill" => onstack[target[q]] = 1

\* The descriptor of a thread that is gone is freed by exactly one of the
\* thread itself, pthread_join and pthread_detach, whichever way they race, and
\* its stack can then be used again; nobody waits for a thread that is gone
\* without a wake-up on its way.
FreedOnceGone ==
  \A p \in TCBs \ {main} :
    /\ onstack[p] = 0 /\ handle[p] \in {"detached", "gone"} => p \notin used
    /\ handle[p] \in {"joinable", "taken"} => p \in used
    /\ terminated[p] /\ onstack[p] = 0 => Reusable(p)
    /\ BlockedOn(p) # {} /\ Reusable(p) => kwake[p]

\* The process ends with its last thread, and not before: a thread that leaves
\* calls exit(0) only if no other runs or is being created, and among threads that
\* leave together, and creations that fail, one finds __nptl_nthreads at 1.
Running == {p \in TCBs : onstack[p] = 1 /\ pc[p] \notin {"x_lock", "x_free", "x_kernel"}}

EndsWithLast == finished <=> Running = {}
=============================================================================
