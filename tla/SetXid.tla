------------------------------- MODULE SetXid -------------------------------
(***************************************************************************)
(* The set*id broadcast: the kernel keeps user and group ids per thread,   *)
(* POSIX per process, so __nptl_setxid makes every thread on the lists of  *)
(* stacks execute the system call in a handler of SIGSETXID, under         *)
(* dl_stack_cache_lock.  With it, the parts of pthread_create,             *)
(* start_thread and __libc_start_call_main that take part in the handshake.*)
(*                                                                         *)
(* An action is one access or one system call; a store to setxid_futex or  *)
(* cntr and the wake-up that follows it are one, as a late wake-up is a    *)
(* spurious one.  Waiting threads are interrupted by the handler.  The     *)
(* lists are traversed in any order.  A thread may call every function as  *)
(* long as it runs code of the program, that is also in the cleanup        *)
(* handlers.  The destructors of thread-specific data count as part of     *)
(* what runs before them, start_routine or the cleanup handlers: nothing   *)
(* but a store to setxid_futex, of no consequence there, is in between.    *)
(***************************************************************************)
EXTENDS Integers, FiniteSets

CONSTANTS Threads,
          main,       \* the initial thread
          NoThread,
          MaxCalls    \* bound: calls of set*id functions

VARIABLES
  used,          \* dl_stack_used and dl_stack_user
  lock,          \* who holds dl_stack_cache_lock for a broadcast, or NoThread
  setxid_futex,
  ch,            \* cancelhandling: its bits SETXID and EXITING
  ids,           \* ids[t]: the user and group ids the kernel has for t
  sig,           \* sig[t]: SIGSETXID is pending
  cmd,           \* *xidcmd: the new ids, error and cntr; and from: the ids it was
                 \* executed with (history)
  skipped,       \* history: those a broadcast left out as they were exiting, and
                 \* the threads these have created since
  agree,         \* history: all but those executed a command with the same ids
  pc,
  hpc,           \* hpc[t]: the same for the signal handler that runs on top
  child,         \* child[t]: the thread t is creating
  gate,          \* gate[p]: "closed" while pd->lock is held for p, "open", "failed"
  todo, at,      \* loops of the broadcast: what is left of the lists, the element
  signalled, cur \* locals of __nptl_setxid (signalled: also retry)

thread == <<used, child, gate>>
loop == <<todo, at, signalled, cur>>
call == <<lock, cmd, skipped, agree, loop>>
vars == <<thread, setxid_futex, ch, ids, sig, call, pc, hpc>>

NoCommand == [id |-> 0, error |-> -1, cntr |-> 0, from |-> -1]

Init ==
  /\ used = {main} /\ lock = NoThread
  /\ setxid_futex = [t \in Threads |-> 0]
  /\ ch = [t \in Threads |-> {}]
  /\ ids = [t \in Threads |-> 0]
  /\ sig = [t \in Threads |-> FALSE]
  /\ cmd = NoCommand /\ skipped = {} /\ agree = TRUE
  /\ pc = [t \in Threads |-> IF t = main THEN "run" ELSE "none"]
  /\ hpc = [t \in Threads |-> "none"]
  /\ child = [t \in Threads |-> NoThread]
  /\ gate = [t \in Threads |-> "open"]
  /\ todo = {} /\ at = NoThread /\ signalled = FALSE /\ cur = 0

At(t, label) == pc[t] = label /\ hpc[t] = "none"
Goto(t, label) == pc' = [pc EXCEPT ![t] = label]
SetFutex(t, v) == setxid_futex' = [setxid_futex EXCEPT ![t] = v]

\* A futex_wait_simple returns; every caller looks at its condition again.
Resumed(label) ==
  CASE label = "x_blocked" -> "x_again"
    [] label = "m_blocked" -> "m_wait"
    [] label = "w_blocked" -> "w_load"
    [] OTHER -> label

\* The threads that wait on setxid_futex of t: t itself, at its exit, and the
\* caller of a set*id function.
Waiters(t) == {w \in Threads : (w = t /\ pc[w] = "x_blocked") \/ (at = t /\ pc[w] = "m_blocked")}

\* pc after t went to `label` and the threads in W were woken.
Woken(t, label, W) ==
  pc' = [w \in Threads |-> IF w = t THEN label ELSE IF w \in W THEN Resumed(pc[w]) ELSE pc[w]]

Spurious(t) ==
  /\ At(t, "x_blocked") \/ At(t, "m_blocked") \/ At(t, "w_blocked")
  /\ Goto(t, Resumed(pc[t]))
  /\ UNCHANGED <<thread, setxid_futex, ch, ids, sig, call, hpc>>

-----------------------------------------------------------------------------
\* pthread_create, as far as the broadcast can tell.

\* allocate_stack: the descriptor joins the list of stacks in use.
Allocate(q) ==
  /\ At(q, "run")
  /\ lock = NoThread
  /\ \E p \in Threads \ used :
       /\ pc[p] = "none"
       /\ used' = used \cup {p}
       /\ SetFutex(p, -1)
       /\ child' = [child EXCEPT ![q] = p]
  /\ Goto(q, "c_reset")
  /\ UNCHANGED <<gate, ch, ids, sig, call, hpc>>

\* A cached descriptor has its old cancelhandling until here; then all signals
\* are blocked.
Reset(q) ==
  /\ At(q, "c_reset")
  /\ ch' = [ch EXCEPT ![child[q]] = {}]
  /\ Goto(q, "clone")
  /\ UNCHANGED <<thread, setxid_futex, ids, sig, call, hpc>>

\* The new thread has the ids of its creator and starts with signals blocked.
Clone(q) ==
  LET p == child[q] IN
  /\ At(q, "clone")
  /\ ids' = [ids EXCEPT ![p] = ids[q]]
  /\ skipped' = IF q \in skipped THEN skipped \cup {p} ELSE skipped \ {p}
  /\ \/ /\ pc' = [pc EXCEPT ![q] = "run", ![p] = "start"]
        /\ child' = [child EXCEPT ![q] = NoThread]
        /\ UNCHANGED gate
     \/ /\ pc' = [pc EXCEPT ![q] = "configure", ![p] = "gate"]
        /\ gate' = [gate EXCEPT ![p] = "closed"]
        /\ UNCHANGED child
  /\ UNCHANGED <<used, setxid_futex, ch, sig, lock, cmd, agree, loop, hpc>>

CloneFails(q) ==
  /\ At(q, "clone")
  /\ Goto(q, "c_free")
  /\ UNCHANGED <<thread, setxid_futex, ch, ids, sig, call, hpc>>

\* Affinity and scheduling of a stopped thread are set and the signal mask is
\* restored; pd->lock is released, after a failure with setup_failed set.
Configure(q) ==
  /\ At(q, "configure")
  /\ Goto(q, "c_open")
  /\ UNCHANGED <<thread, setxid_futex, ch, ids, sig, call, hpc>>

OpenGate(q) ==
  /\ At(q, "c_open")
  /\ \/ /\ gate' = [gate EXCEPT ![child[q]] = "open"]
        /\ child' = [child EXCEPT ![q] = NoThread]
        /\ Goto(q, "run")
     \/ /\ gate' = [gate EXCEPT ![child[q]] = "failed"]
        /\ Goto(q, "c_join")
        /\ UNCHANGED child
  /\ UNCHANGED <<used, setxid_futex, ch, ids, sig, call, hpc>>

\* The creator waits for the thread whose set-up failed.
AwaitFailed(q) ==
  /\ At(q, "c_join")
  /\ pc[child[q]] = "none"
  /\ Goto(q, "c_free")
  /\ UNCHANGED <<thread, setxid_futex, ch, ids, sig, call, hpc>>

Free(q) ==
  /\ At(q, "c_free")
  /\ lock = NoThread
  /\ used' = used \ {child[q]}
  /\ child' = [child EXCEPT ![q] = NoThread]
  /\ Goto(q, "run")
  /\ UNCHANGED <<gate, setxid_futex, ch, ids, sig, call, hpc>>

-----------------------------------------------------------------------------
\* start_thread.

Gate(p) ==
  /\ At(p, "gate")
  /\ gate[p] # "closed"
  /\ Goto(p, IF gate[p] = "failed" THEN "none" ELSE "start")
  /\ gate' = [gate EXCEPT ![p] = "open"]
  /\ sig' = [sig EXCEPT ![p] = @ /\ gate[p] # "failed"]
  /\ UNCHANGED <<used, child, setxid_futex, ch, ids, call, hpc>>

\* pthread_exit or a cancellation: __do_cancel, then the cleanup handlers run.
Unwinding(p) == "EXITING" \in ch[p]

DoCancel(p) ==
  /\ At(p, "run") /\ ~Unwinding(p)
  /\ ch' = [ch EXCEPT ![p] = @ \cup {"EXITING"}]
  /\ UNCHANGED <<thread, setxid_futex, ids, sig, call, pc, hpc>>

\* "Allow setxid from now onwards."  A thread that has been unwound comes here once
\* more; it has set EXITING before.
AllowSetxid(p) ==
  /\ At(p, "start") \/ (At(p, "run") /\ Unwinding(p) /\ p # main)
  /\ SetFutex(p, 0)
  /\ Woken(p, IF pc[p] = "start" THEN "run" ELSE "x_check",
           IF setxid_futex[p] = -2 THEN Waiters(p) ELSE {})
  /\ UNCHANGED <<thread, ch, ids, sig, call, hpc>>

\* The initial thread, unwound, blocks all signals and leaves.
LeaveMain(p) ==
  /\ At(p, "run") /\ Unwinding(p) /\ p = main
  /\ Goto(p, "leave")
  /\ UNCHANGED <<thread, setxid_futex, ch, ids, sig, call, hpc>>

\* start_routine has returned.
Exiting(p) ==
  /\ At(p, "run") /\ ~Unwinding(p) /\ p # main
  /\ ch' = [ch EXCEPT ![p] = @ \cup {"EXITING"}]
  /\ Goto(p, "x_check")
  /\ UNCHANGED <<thread, setxid_futex, ids, sig, call, hpc>>

\* "Some other thread might call any of the setXid functions and expect us to
\* reply."
MustReply_Never(p) == FALSE
MustReply(p) == "SETXID" \in ch[p]

ExitCheck(p) ==
  /\ At(p, "x_check")
  /\ Goto(p, IF MustReply(p) THEN "x_wait" ELSE "x_free")
  /\ UNCHANGED <<thread, setxid_futex, ch, ids, sig, call, hpc>>

ExitWait(p) ==
  /\ At(p, "x_wait")
  /\ Goto(p, IF setxid_futex[p] = 0 THEN "x_blocked" ELSE "x_again")
  /\ UNCHANGED <<thread, setxid_futex, ch, ids, sig, call, hpc>>

ExitAgain(p) ==
  /\ At(p, "x_again")
  /\ IF MustReply(p)
       THEN Goto(p, "x_wait") /\ UNCHANGED setxid_futex
       ELSE Goto(p, "x_free") /\ SetFutex(p, 0)
  /\ UNCHANGED <<thread, ch, ids, sig, call, hpc>>

\* A detached thread frees its stack, any other is left on the list.
ExitFree(p) ==
  /\ At(p, "x_free")
  /\ \/ lock = NoThread /\ used' = used \ {p}
     \/ UNCHANGED used
  /\ Goto(p, "leave")
  /\ UNCHANGED <<child, gate, setxid_futex, ch, ids, sig, call, hpc>>

Leave(p) ==
  /\ At(p, "leave")
  /\ Goto(p, "none")
  /\ sig' = [sig EXCEPT ![p] = FALSE]
  /\ ids' = [ids EXCEPT ![p] = 0]
  /\ skipped' = skipped \ {p}
  /\ UNCHANGED <<used, child, gate, setxid_futex, ch, lock, cmd, agree, loop, hpc>>

\* pthread_join of a thread that is gone.
Join(q) ==
  /\ At(q, "run")
  /\ lock = NoThread
  /\ \E p \in used \ {main} :
       /\ pc[p] = "none"
       /\ \A t \in Threads : child[t] # p
       /\ used' = used \ {p}
  /\ UNCHANGED <<child, gate, setxid_futex, ch, ids, sig, call, pc, hpc>>

-----------------------------------------------------------------------------
\* __nptl_setxid.

\* The system call: the kernel accepts it (0) or not (1).  Which one depends on the
\* ids of the thread; setxid_error keeps the first answer.
Answers == IF cmd.error = -1 THEN {0, 1} ELSE {cmd.error}

Execute(t, error) ==
  /\ ids' = IF error = 0 THEN [ids EXCEPT ![t] = cmd.id] ELSE ids
  /\ skipped' = IF error = 0 THEN skipped \ {t} ELSE skipped
  /\ agree' = (agree /\ (t \in skipped \/ cmd.from \in {-1, ids[t]}))

Call(q) ==
  /\ At(q, "run")
  /\ cmd.id + Cardinality({t \in Threads : pc[t] = "s_lock"}) < MaxCalls
  /\ Goto(q, "s_lock")
  /\ UNCHANGED <<thread, setxid_futex, ch, ids, sig, call, hpc>>

Begin(q) ==
  /\ At(q, "s_lock")
  /\ lock = NoThread
  /\ lock' = q
  /\ cmd' = [NoCommand EXCEPT !.id = cmd.id + 1]
  /\ todo' = used \ {q}
  /\ Goto(q, "m_next")
  /\ UNCHANGED <<thread, setxid_futex, ch, ids, sig, skipped, agree, at, signalled, cur, hpc>>

\* The first loop: setxid_mark_thread.
NotCloned_Ignored(t) == FALSE
NotCloned(t) == setxid_futex[t] = -1

MarkCheck(q) ==
  /\ At(q, "m_next")
  /\ at' \in todo
  /\ todo' = todo \ {at'}
  /\ IF NotCloned(at')
       THEN SetFutex(at', -2) /\ Goto(q, "m_wait")
       ELSE Goto(q, "m_zero") /\ UNCHANGED setxid_futex
  /\ UNCHANGED <<thread, ch, ids, sig, lock, cmd, skipped, agree, signalled, cur, hpc>>

MarkWait(q) ==
  /\ At(q, "m_wait")
  /\ Goto(q, IF setxid_futex[at] = -2 THEN "m_blocked" ELSE "m_zero")
  /\ UNCHANGED <<thread, setxid_futex, ch, ids, sig, call, hpc>>

MarkZero(q) ==
  /\ At(q, "m_zero")
  /\ SetFutex(at, 0)
  /\ Goto(q, "m_bit")
  /\ UNCHANGED <<thread, ch, ids, sig, call, hpc>>

\* "If the thread is exiting right now, ignore it."
MarkBit(q) ==
  LET exiting == "EXITING" \in ch[at]
      marked == "SETXID" \in ch[at] IN
  /\ At(q, "m_bit")
  /\ IF exiting /\ ~marked
       THEN Goto(q, "m_release") /\ UNCHANGED at
       ELSE Goto(q, "m_next") /\ at' = NoThread
  /\ ch' = IF exiting THEN ch ELSE [ch EXCEPT ![at] = @ \cup {"SETXID"}]
  /\ skipped' = IF exiting /\ ~marked /\ pc[at] # "none" THEN skipped \cup {at} ELSE skipped
  /\ UNCHANGED <<thread, setxid_futex, ids, sig, lock, cmd, agree, todo, signalled, cur, hpc>>

MarkRelease(q) ==
  /\ At(q, "m_release")
  /\ SetFutex(at, 1)
  /\ Woken(q, "m_next", Waiters(at))
  /\ at' = NoThread
  /\ UNCHANGED <<thread, ch, ids, sig, lock, cmd, skipped, agree, todo, signalled, cur, hpc>>

\* The second loop: setxid_signal_thread, until a pass signals nobody.
Signalling(q) == At(q, "g_next") \/ (At(q, "m_next") /\ todo = {})
Unvisited(q) == IF pc[q] = "m_next" THEN used \ {q} ELSE todo

SignalNext(q) ==
  /\ Signalling(q)
  /\ \E t \in Unvisited(q) :
       /\ todo' = Unvisited(q) \ {t}
       /\ IF "SETXID" \in ch[t]
            THEN Goto(q, "tgkill") /\ at' = t
            ELSE Goto(q, "g_next") /\ at' = NoThread
  /\ UNCHANGED <<thread, setxid_futex, ch, ids, sig, lock, cmd, skipped, agree, signalled, cur, hpc>>

\* The kernel knows the initial thread until the process ends; a signal to it is
\* accepted also when it has left.  EAGAIN: the queue of signals is full.
KernelKnows(t) == pc[t] # "none" \/ t = main

Tgkill(q) ==
  /\ At(q, "tgkill")
  /\ \/ /\ sig' = [sig EXCEPT ![at] = pc[at] # "none"]
        /\ Goto(q, IF KernelKnows(at) THEN "g_count" ELSE "g_next")
        /\ UNCHANGED signalled
     \/ /\ KernelKnows(at)
        /\ signalled' = TRUE
        /\ Goto(q, "g_next")
        /\ UNCHANGED sig
  /\ at' = NoThread
  /\ UNCHANGED <<thread, setxid_futex, ch, ids, lock, cmd, skipped, agree, todo, cur, hpc>>

Count(q) ==
  /\ At(q, "g_count")
  /\ cmd' = [cmd EXCEPT !.cntr = @ + 1]
  /\ signalled' = TRUE
  /\ Goto(q, "g_next")
  /\ UNCHANGED <<thread, setxid_futex, ch, ids, sig, lock, skipped, agree, todo, at, cur, hpc>>

\* The pass is over, or a wait has returned.
AwaitLoad(q) ==
  /\ At(q, "w_load") \/ (Signalling(q) /\ Unvisited(q) = {})
  /\ IF cmd.cntr # 0
       THEN Goto(q, "w_wait") /\ cur' = cmd.cntr /\ UNCHANGED <<todo, signalled>>
       ELSE /\ Goto(q, IF signalled THEN "g_next" ELSE "s_unmark")
            /\ todo' = used \ {q}
            /\ signalled' = FALSE
            /\ cur' = 0
  /\ UNCHANGED <<thread, setxid_futex, ch, ids, sig, lock, cmd, skipped, agree, at, hpc>>

AwaitBlock(q) ==
  /\ At(q, "w_wait")
  /\ Goto(q, IF cmd.cntr = cur THEN "w_blocked" ELSE "w_load")
  /\ cur' = 0
  /\ UNCHANGED <<thread, setxid_futex, ch, ids, sig, lock, cmd, skipped, agree, todo, at, signalled, hpc>>

\* The third loop, setxid_unmark_thread, as one step: it finds no bit set.
Unmark(q) ==
  LET marked == {t \in todo : "SETXID" \in ch[t]} IN
  /\ At(q, "s_unmark")
  /\ ch' = [t \in Threads |-> IF t \in todo THEN ch[t] \ {"SETXID"} ELSE ch[t]]
  /\ setxid_futex' = [t \in Threads |-> IF t \in marked THEN 1 ELSE setxid_futex[t]]
  /\ Woken(q, "s_self", UNION {Waiters(t) : t \in marked})
  /\ todo' = {}
  /\ UNCHANGED <<thread, ids, sig, lock, cmd, skipped, agree, at, signalled, cur, hpc>>

Finish(q) ==
  /\ At(q, "s_self")
  /\ \E error \in Answers : Execute(q, error)
  /\ cmd' = [NoCommand EXCEPT !.id = cmd.id]
  /\ lock' = NoThread
  /\ Goto(q, "run")
  /\ UNCHANGED <<thread, setxid_futex, ch, sig, loop, hpc>>

-----------------------------------------------------------------------------
\* __nptl_setxid_sighandler.

\* Threads are created with all signals blocked; so leaves the initial thread.
Masked(t) ==
  pc[t] \in {"none", "clone", "configure", "gate", "start"} \/ (t = main /\ pc[t] = "leave")

Deliver(t) ==
  /\ sig[t] /\ hpc[t] = "none" /\ ~Masked(t)
  /\ sig' = [sig EXCEPT ![t] = FALSE]
  /\ Goto(t, Resumed(pc[t]))
  /\ \E error \in Answers :
       /\ Execute(t, error)
       /\ cmd' = [cmd EXCEPT !.error = error, !.from = IF t \in skipped THEN @ ELSE ids[t]]
  /\ hpc' = [hpc EXCEPT ![t] = "h_clear"]
  /\ UNCHANGED <<thread, setxid_futex, ch, lock, loop>>

HandlerClear(t) ==
  /\ hpc[t] = "h_clear"
  /\ ch' = [ch EXCEPT ![t] = @ \ {"SETXID"}]
  /\ hpc' = [hpc EXCEPT ![t] = "h_release"]
  /\ UNCHANGED <<thread, setxid_futex, ids, sig, call, pc>>

HandlerRelease(t) ==
  /\ hpc[t] = "h_release"
  /\ SetFutex(t, 1)
  /\ hpc' = [hpc EXCEPT ![t] = "h_count"]
  /\ UNCHANGED <<thread, ch, ids, sig, call, pc>>

LastReply == cmd.cntr = 1

HandlerCount(t) ==
  /\ hpc[t] = "h_count"
  /\ cmd' = [cmd EXCEPT !.cntr = @ - 1]
  /\ pc' = [w \in Threads |-> IF LastReply /\ pc[w] = "w_blocked" THEN "w_load" ELSE pc[w]]
  /\ hpc' = [hpc EXCEPT ![t] = "none"]
  /\ UNCHANGED <<thread, setxid_futex, ch, ids, sig, lock, skipped, agree, loop>>

\* pthread_create after the allocation, the broadcast under the lock, the handler.
Create(t) ==
  /\ child[t] # NoThread
  /\ \/ Reset(t) \/ Clone(t) \/ CloneFails(t) \/ Configure(t) \/ OpenGate(t)
     \/ AwaitFailed(t) \/ Free(t)

Broadcast(t) ==
  /\ lock = t
  /\ \/ MarkCheck(t) \/ MarkWait(t) \/ MarkZero(t) \/ MarkBit(t) \/ MarkRelease(t)
     \/ SignalNext(t) \/ Tgkill(t) \/ Count(t) \/ AwaitLoad(t) \/ AwaitBlock(t)
     \/ Unmark(t) \/ Finish(t)

Handle(t) ==
  /\ hpc[t] # "none"
  /\ HandlerClear(t) \/ HandlerRelease(t) \/ HandlerCount(t)

Next ==
  \E t \in Threads :
    \/ Spurious(t)
    \/ Allocate(t) \/ Create(t) \/ Join(t)
    \/ Gate(t) \/ AllowSetxid(t) \/ DoCancel(t) \/ LeaveMain(t)
    \/ Exiting(t) \/ ExitCheck(t) \/ ExitWait(t) \/ ExitAgain(t) \/ ExitFree(t) \/ Leave(t)
    \/ Call(t) \/ Begin(t) \/ Broadcast(t)
    \/ Deliver(t) \/ Handle(t)

Spec == Init /\ [][Next]_vars

-----------------------------------------------------------------------------
\* The ids are those of the process: when no broadcast is in progress all threads
\* have the same, but those that have begun to exit; and all execute a command
\* with the same ids, so that setxid_error, which aborts if their results differ,
\* does not.  One case is excluded: a broadcast ignores a thread that has begun to
\* exit, but in its cleanup handlers that thread may still call a set*id function
\* with its old ids, or create a thread, which gets them and keeps them until the
\* next call.  In that case "their children will be automatically correct once
\* started" (__nptl_setxid) does not hold.
Settled(t) == pc[t] # "none" /\ "EXITING" \notin ch[t] /\ t \notin skipped

IdsOfProcess ==
  /\ agree
  /\ lock = NoThread => \A t, u \in Threads : Settled(t) /\ Settled(u) => ids[t] = ids[u]

\* Nobody waits for ever: when no thread is in the middle of a library function
\* but those that wait, none does, the lock is free and no thread is kept from
\* exiting.  Two cases are excluded: the broadcast waits for a thread that was
\* never started, and the initial thread left although it was marked.
Waiting(t) ==
  \/ pc[t] \in {"x_blocked", "m_blocked", "w_blocked"}
  \/ pc[t] \in {"s_lock", "c_free"} /\ lock # NoThread
  \/ pc[t] = "x_free" /\ lock # NoThread
  \/ pc[t] = "c_join" /\ pc[child[t]] # "none"
  \/ pc[t] = "gate" /\ gate[t] = "closed"

Quiet ==
  \A t \in Threads :
    /\ hpc[t] = "none"
    /\ sig[t] => Masked(t)
    /\ pc[t] \in {"none", "run"} \/ Waiting(t)

NeverStarted == \E q \in Threads : pc[q] = "m_blocked" /\ pc[at] = "none"
LeftMarked == pc[main] = "none" /\ "SETXID" \in ch[main]

NobodyStuck == Quiet => NeverStarted \/ LeftMarked \/ \A t \in Threads : ~Waiting(t)
=============================================================================
