---------------------------- MODULE Cancellation ----------------------------
(***************************************************************************)
(* Thread cancellation: pthread_cancel, the SIGCANCEL handler, the         *)
(* cancellable system call bridge, pthread_setcancelstate,                 *)
(* pthread_setcanceltype, pthread_testcancel, the cleanup regions that     *)
(* defer cancellation, and pthread_exit.                                   *)
(*                                                                         *)
(* One thread, the target, is cancelled by the Cancelers and by itself.    *)
(* Everything turns on its word cancelhandling and on where its program    *)
(* counter is when SIGCANCEL arrives.  The loops in which the target       *)
(* updates its own word are one action, the CAS that succeeds: the value   *)
(* they store depends on no earlier load.                                  *)
(*                                                                         *)
(* The word has one more bit for nptl_setxid and one that marks a freed    *)
(* TCB; neither is used here.  The process has more than one thread, so    *)
(* SINGLE_THREAD_P is false.                                               *)
(***************************************************************************)
EXTENDS FiniteSets

CONSTANT Cancelers  \* the other threads that call pthread_cancel

VARIABLES ch,      \* cancelhandling: the set of bits that are set
          pc,      \* where the target is
          region,  \* the canceltype saved by the cleanup region it is in
          result,  \* the target's pd->result
          nested,  \* a signal handler of the application runs on top of pc
          sig,     \* SIGCANCEL is pending for the target
          cpc,     \* cpc[c]: where canceler c is
          cold,    \* cold[c]: its snapshot of cancelhandling
          lost     \* history: the signal was not sent, or was spent in vain

target == <<ch, pc, region, result, nested>>
vars == <<target, sig, cpc, cold, lost>>

Bits == {"CANCELSTATE", "CANCELTYPE", "CANCELED", "EXITING"}

cancel_enabled(w) == "CANCELSTATE" \notin w
cancel_async_enabled(w) == "CANCELTYPE" \in w
cancel_exiting(w) == "EXITING" \in w
cancel_enabled_and_canceled(w) ==
  cancel_enabled(w) /\ "CANCELED" \in w /\ ~cancel_exiting(w)
cancel_enabled_and_canceled_and_async(w) ==
  cancel_enabled_and_canceled(w) /\ cancel_async_enabled(w)

Init ==
  /\ ch = {} /\ pc = "run" /\ region = "none" /\ result = "none"
  /\ nested = FALSE /\ sig = FALSE /\ lost = FALSE
  /\ cpc = [c \in Cancelers |-> "idle"]
  /\ cold = [c \in Cancelers |-> {}]

\* The target runs its own code: that of the application, or, once exiting is
\* set, that of the cleanup handlers.
Running == pc = "run" /\ ~nested
Others == <<sig, cpc, cold, lost>>

\* The entry of __do_cancel.
Decide(r) == pc' = "do_cancel" /\ result' = r

\* The CAS that makes w the word, and the check that follows it.
Update(w, acts) ==
  /\ ch' = w
  /\ IF acts THEN Decide("canceled") ELSE UNCHANGED <<pc, result>>
  /\ UNCHANGED <<nested, Others>>

-----------------------------------------------------------------------------
\* What the target does by itself.

\* The bit b is set or cleared, unless it is that way already, and a request that
\* the new word lets an asynchronous cancellation act upon is acted upon.
SetBit(b) ==
  /\ Running
  /\ \E w \in {ch \cup {b}, ch \ {b}} \ {ch} :
       Update(w, cancel_enabled_and_canceled_and_async(w))
  /\ UNCHANGED region

pthread_setcancelstate == SetBit("CANCELSTATE")
pthread_setcanceltype == SetBit("CANCELTYPE")

\* pthread_cleanup_push_defer_np: cancellation is deferred in the region, and
\* the type in force before is kept for its end.
RegisterDefer ==
  /\ Running
  /\ region = "none"
  /\ region' = IF cancel_async_enabled(ch) THEN "async" ELSE "deferred"
  /\ ch' = ch \ {"CANCELTYPE"}
  /\ UNCHANGED <<pc, result, nested, Others>>

\* pthread_cleanup_pop_restore_np.
UnregisterRestore ==
  /\ Running
  /\ region # "none"
  /\ region' = "none"
  /\ IF region = "async" /\ ~cancel_async_enabled(ch)
       THEN Update(ch \cup {"CANCELTYPE"}, cancel_enabled_and_canceled(ch))
       ELSE UNCHANGED <<ch, pc, result, nested, Others>>

pthread_testcancel ==
  /\ Running
  /\ cancel_enabled_and_canceled(ch)
  /\ Decide("canceled")
  /\ UNCHANGED <<ch, region, nested, Others>>

pthread_exit ==
  /\ Running
  /\ ~cancel_exiting(ch)
  /\ Decide("exit")
  /\ UNCHANGED <<ch, region, nested, Others>>

\* pthread_cancel (pthread_self ()).
CancelSelf ==
  /\ Running
  /\ "CANCELED" \notin ch
  /\ LET w == ch \cup {"CANCELED"}
     IN Update(w, cancel_enabled(w) /\ cancel_async_enabled(w))
  /\ UNCHANGED region

\* __syscall_do_cancel, reached from the bridge and from the handler.
SyscallDoCancel ==
  /\ pc = "syscall_do_cancel"
  /\ ~nested
  /\ ch' = ch \cup {"CANCELSTATE"}
  /\ Decide("canceled")
  /\ UNCHANGED <<region, nested, Others>>

\* The rest of __do_cancel; the unwinder runs the cleanup handlers.
Exiting(w) == (w \cup {"CANCELSTATE", "EXITING"}) \ {"CANCELTYPE"}

DoCancel ==
  /\ pc = "do_cancel"
  /\ ~nested
  /\ ch' = Exiting(ch)
  /\ pc' = "run"
  /\ region' = "none"
  /\ UNCHANGED <<result, nested, Others>>

\* The last cleanup handler has run.  (A thread that returns from start_routine
\* is left out: it sets EXITING in start_thread and acts on no request any more.)
Exit ==
  /\ Running
  /\ cancel_exiting(ch)
  /\ pc' = "exited"
  /\ UNCHANGED <<ch, region, result, nested, Others>>

-----------------------------------------------------------------------------
\* A cancellable system call: internal_syscall_cancel and __syscall_cancel_arch.

Goto(label) == pc' = label /\ UNCHANGED <<ch, region, result, nested, Others>>

Bridged(w) == cancel_enabled(w) /\ ~cancel_exiting(w)

Syscall ==
  /\ Running
  /\ Goto(IF Bridged(ch) THEN "arch_start" ELSE "direct")

ArchStart ==
  /\ pc = "arch_start"
  /\ ~nested
  /\ Goto(IF "CANCELED" \in ch THEN "syscall_do_cancel" ELSE "arch_syscall")

\* The syscall instruction.  The call may block for ever.
Issue ==
  /\ pc = "arch_syscall"
  /\ ~nested
  /\ Goto("blocked")

Complete ==
  \/ pc = "blocked" /\ Goto("arch_end_done")
  \/ pc = "direct" /\ ~nested /\ Goto("run")

\* Back in internal_syscall_cancel.  A call that failed with EINTR had no side
\* effect, so a request is acted upon; a call that did something returns.
SyscallReturn ==
  /\ pc \in {"arch_end_done", "arch_end_eintr"}
  /\ ~nested
  /\ Goto(IF pc = "arch_end_eintr" /\ cancel_enabled_and_canceled(ch)
            THEN "syscall_do_cancel" ELSE "run")

-----------------------------------------------------------------------------
\* Signals.  A signal interrupts a system call: it is restarted, with the
\* program counter back at the instruction, or returns EINTR, or returns what
\* it has done so far.

Interrupted(p) ==
  IF p = "blocked" THEN {"arch_syscall", "arch_end_eintr", "arch_end_done"}
  ELSE IF p = "direct" THEN {"direct", "run"} ELSE {p}

cancellation_pc_check_PastEnd(p) ==
  p \in {"arch_start", "arch_syscall", "arch_end_done", "arch_end_eintr"}
cancellation_pc_check(p) == p \in {"arch_start", "arch_syscall"}

\* The kernel delivers SIGCANCEL and sigcancel_handler looks at the word and at
\* the interrupted program counter, which is that of the application's handler
\* if one is running.
sigcancel_handler ==
  /\ sig
  /\ pc # "exited"
  /\ sig' = FALSE
  /\ \E p \in IF nested THEN {pc} ELSE Interrupted(pc) :
       IF \/ cancel_enabled_and_canceled_and_async(ch)
          \/ (~nested /\ cancellation_pc_check(p))
         THEN pc' = "syscall_do_cancel" /\ nested' = FALSE /\ UNCHANGED lost
         ELSE /\ pc' = p
              /\ lost' = (lost \/ (nested /\ p = "arch_syscall"))
              /\ UNCHANGED nested
  /\ UNCHANGED <<ch, region, result, cpc, cold>>

\* Any other signal with a handler, which leaves cancellation alone.
HandlerEntered ==
  /\ ~nested
  /\ pc # "exited"
  /\ nested' = TRUE
  /\ \E p \in Interrupted(pc) : pc' = p
  /\ UNCHANGED <<ch, region, result, Others>>

HandlerReturned ==
  /\ nested
  /\ nested' = FALSE
  /\ UNCHANGED <<ch, pc, region, result, Others>>

-----------------------------------------------------------------------------
\* pthread_cancel of another thread.

CancelLoad(c) ==
  /\ cpc[c] = "idle"
  /\ pc # "exited"
  /\ cpc' = [cpc EXCEPT ![c] = "cas"]
  /\ cold' = [cold EXCEPT ![c] = ch]
  /\ UNCHANGED <<target, sig, lost>>

CancelReturn(c, label) ==
  /\ cpc' = [cpc EXCEPT ![c] = label]
  /\ cold' = [cold EXCEPT ![c] = {}]

\* The CAS tells whether cancellation was enabled when the bit was set.
CASFails_Unchecked(c) == FALSE
CASFails(c) == ch # cold[c]

CancelCAS(c) ==
  /\ cpc[c] = "cas"
  /\ IF "CANCELED" \in cold[c]
       THEN CancelReturn(c, "idle") /\ UNCHANGED ch
       ELSE IF CASFails(c)
         THEN cold' = [cold EXCEPT ![c] = ch] /\ UNCHANGED <<ch, cpc>>
         ELSE /\ ch' = ch \cup {"CANCELED"}
              /\ CancelReturn(c, IF cancel_enabled(cold[c]) THEN "kill" ELSE "idle")
  /\ UNCHANGED <<pc, region, result, nested, sig, lost>>

\* __pthread_kill_internal.  tgkill fails with EAGAIN when no more realtime
\* signals can be queued; pthread_cancel returns the error.
CancelKill(c) ==
  /\ cpc[c] = "kill"
  /\ CancelReturn(c, "idle")
  /\ \/ sig' = (pc # "exited") /\ UNCHANGED lost
     \/ lost' = TRUE /\ UNCHANGED sig
  /\ UNCHANGED target

-----------------------------------------------------------------------------
Step ==
  \/ pthread_setcancelstate \/ pthread_setcanceltype \/ RegisterDefer
  \/ UnregisterRestore \/ pthread_testcancel \/ pthread_exit \/ CancelSelf
  \/ SyscallDoCancel \/ DoCancel \/ Exit
  \/ Syscall \/ ArchStart \/ Issue \/ Complete \/ SyscallReturn

Next ==
  \/ Step \/ sigcancel_handler \/ HandlerEntered \/ HandlerReturned
  \/ \E c \in Cancelers : CancelLoad(c) \/ CancelCAS(c) \/ CancelKill(c)

Spec == Init /\ [][Next]_vars

-----------------------------------------------------------------------------
Labels ==
  {"run", "do_cancel", "syscall_do_cancel", "arch_start", "arch_syscall",
   "blocked", "arch_end_done", "arch_end_eintr", "direct", "exited"}

TypeOK ==
  /\ ch \in SUBSET Bits
  /\ pc \in Labels
  /\ region \in {"none", "async", "deferred"}
  /\ result \in {"none", "canceled", "exit"}
  /\ nested \in BOOLEAN /\ sig \in BOOLEAN /\ lost \in BOOLEAN
  /\ cpc \in [Cancelers -> {"idle", "cas", "kill"}]
  /\ cold \in [Cancelers -> SUBSET Bits]

\* The target will act on a request without being told.
Acting == pc \in {"syscall_do_cancel", "do_cancel"}

\* It will not look at cancelhandling again before it blocks or computes for
\* ever: it is past the test of the bridge, or trusts in asynchronous
\* cancellation.
Committed == pc \in {"arch_syscall", "blocked"} \/ cancel_async_enabled(ch)

\* A request is never lost between the target's last test of the word and the
\* system call that blocks it, nor by a change of state or type that races with
\* pthread_cancel: whenever a cancellable target no longer looks by itself, a
\* SIGCANCEL is pending or about to be sent.  Two cases are excluded: tgkill
\* failed, and the signal came while another handler was running on top of the
\* bridge.
RequestNotLost ==
  cancel_enabled_and_canceled(ch) /\ Committed /\ ~Acting /\ pc # "exited" /\ ~lost
    => sig \/ \E c \in Cancelers : cpc[c] = "kill"

\* A request is acted upon only where POSIX allows it: cancellation is enabled,
\* a request was made, the thread is not already unwinding (also if a cleanup
\* handler enables cancellation again and calls a cancellation point), and a
\* system call that had side effects returns them to a thread whose cancellation
\* is deferred (a call has had them if it is at __syscall_cancel_arch_end with a
\* result, which is all that cancellation_pc_check goes by).  The code makes one exception, which the last conjunct allows
\* for: a cleanup handler of a thread that was not cancelled before enables
\* asynchronous cancellation and then cancels its own thread.
ActsOnlyWhenAllowed ==
  [][(~Acting /\ Acting' /\ ~(result = "none" /\ result' = "exit")) =>
       /\ "CANCELED" \in ch' /\ cancel_enabled(ch')
       /\ pc = "arch_end_done" => cancel_async_enabled(ch)
       /\ result # "none" => "CANCELED" \notin ch]_vars
=============================================================================
