------------------------------ MODULE RWLock ------------------------------
(***************************************************************************)
(* The reader-writer lock (nptl/pthread_rwlock_common.c and its callers    *)
(* pthread_rwlock_rdlock, wrlock, tryrdlock, trywrlock, timed variants and *)
(* unlock).                                                                *)
(*                                                                         *)
(* Every action is one atomic access, one compare-and-swap loop without    *)
(* side effects, or one futex call.  __readers is the record               *)
(* [wp |-> WRPHASE, wl |-> WRLOCKED, rw |-> RWAITING, n |-> the count]; a  *)
(* futex word is its value plus FUTEX_USED.  abstime is abstracted: every  *)
(* futex wait of a read lock call may time out, and of a write lock call   *)
(* if the program uses timed ones (`timed', for the kinds in TimedWriters).*)
(***************************************************************************)
EXTENDS Naturals, FiniteSets, Futex

CONSTANTS Threads,
          Kinds,             \* the values of __flags to check
          MaxReads,          \* a thread holds at most this many read locks
          TimedWriters,      \* kinds for which a program may call timed write locks
          READER_OVERFLOW,   \* PTHREAD_RWLOCK_READER_OVERFLOW, as a count
          NoThread           \* the tid 0

\* 0 is no thread's id, and one reader is not too many.
ASSUME RWLockAssumption ==
  /\ IsFiniteSet(Threads) /\ NoThread \notin Threads
  /\ READER_OVERFLOW \in Nat \ {0, 1}

VARIABLES flags,
          timed,     \* this program calls timed write locks
          readers, writers, wrphase_futex, writers_futex, cur_writer,
          pc,        \* pc[t]: what t does next
          r,         \* r[t]: the local r, a snapshot of __readers
          wf,        \* wf[t]: the local wf, or what wake_writers was read from
          share,     \* share[t]: may_share_futex_used_flag
          ready,     \* ready[t]: the local ready
          reads,     \* reads[t]: how many read locks t holds
          writing    \* the threads that hold the write lock

lock   == <<readers, writers, wrphase_futex, writers_futex, cur_writer>>
locals == <<r, wf, share, ready>>
owners == <<reads, writing>>
attr   == <<flags, timed>>
vars   == <<attr, lock, pc, locals, owners>>

FUTEX_USED == 2
Used(word) == word >= FUTEX_USED
Value(word) == word % FUTEX_USED

Unlocked == [wp |-> FALSE, wl |-> FALSE, rw |-> FALSE, n |-> 0]
NoWriters == [handover |-> FALSE, n |-> 0]

Init ==
  /\ flags \in Kinds
  /\ timed \in BOOLEAN /\ (timed => flags \in TimedWriters)
  /\ readers = Unlocked /\ writers = NoWriters
  /\ wrphase_futex = 0 /\ writers_futex = 0
  /\ cur_writer = NoThread
  /\ pc = [t \in Threads |-> "idle"]
  /\ r = [t \in Threads |-> Unlocked]
  /\ wf = [t \in Threads |-> 0]
  /\ share = [t \in Threads |-> FALSE]
  /\ ready = [t \in Threads |-> FALSE]
  /\ reads = [t \in Threads |-> 0]
  /\ writing = {}

prefer_writer == flags # "PREFER_READER"

Goto(t, label) == pc' = [pc EXCEPT ![t] = label]

At(labels) == {t \in Threads : pc[t] \in labels}

\* The call returns; its locals are dead.
Reset(t) ==
  /\ r' = [r EXCEPT ![t] = Unlocked]
  /\ wf' = [wf EXCEPT ![t] = 0]
  /\ share' = [share EXCEPT ![t] = FALSE]
  /\ ready' = [ready EXCEPT ![t] = FALSE]

Return(t) == Goto(t, "idle") /\ Reset(t)

\* futex_wake: the woken threads look at the lock again.
Resume(label) == CASE label = "blockedR" -> "rd_loadRW"
                   [] label = "rd_blockedP" -> "rd_wpf"
                   [] label = "wr_blockedP" -> "wr_wpf"
                   [] label = "blockedW" -> "wr_reload"

Wake(t, labels, n, label) ==
  /\ \E woken \in futex_wake(At(labels), n) :
       pc' = [u \in Threads |-> IF u = t THEN label
                                ELSE IF u \in woken THEN Resume(pc[u]) ELSE pc[u]]
  /\ IF label = "idle" THEN Reset(t) ELSE UNCHANGED locals
  /\ UNCHANGED <<attr, lock>>

All == Cardinality(Threads)
OnPhase == {"rd_blockedP", "wr_blockedP"}

-----------------------------------------------------------------------------
\* __pthread_rwlock_rdlock_full64.  (A call that returns EDEADLK because the
\* caller holds the write lock leaves everything as it is: it is no action.)

\* A reader of this kind does not prolong a read phase a writer waits for.
MustLetWriterGoFirst(rr) ==
  flags = "PREFER_WRITER_NONRECURSIVE" /\ ~rr.wp /\ rr.wl /\ rr.n > 0

RdLock(t) ==
  /\ pc[t] = "idle"
  /\ cur_writer # t
  /\ reads[t] < IF flags = "PREFER_WRITER_NONRECURSIVE" THEN 1 ELSE MaxReads
  /\ Goto(t, "rd_prefer")
  /\ UNCHANGED <<attr, lock, locals, owners>>

\* Set RWAITING, or go on to register.
RdPrefer(t) ==
  /\ pc[t] = "rd_prefer"
  /\ IF MustLetWriterGoFirst(readers)
       THEN readers' = [readers EXCEPT !.rw = TRUE] /\ Goto(t, "rd_loadRW")
       ELSE Goto(t, "rd_register") /\ UNCHANGED readers
  /\ UNCHANGED <<attr, writers, wrphase_futex, writers_futex, cur_writer, locals, owners>>

RdLoadRW(t) ==
  /\ pc[t] = "rd_loadRW"
  /\ IF readers.rw
       THEN r' = [r EXCEPT ![t] = readers] /\ Goto(t, "rd_futexR")
       ELSE /\ r' = [r EXCEPT ![t] = Unlocked]
            /\ Goto(t, IF MustLetWriterGoFirst(readers) THEN "rd_prefer" ELSE "rd_register")
  /\ UNCHANGED <<attr, lock, wf, share, ready, owners>>

RdFutexR(t) ==
  /\ pc[t] = "rd_futexR"
  /\ Goto(t, IF readers = r[t] THEN "blockedR" ELSE "rd_loadRW")
  /\ UNCHANGED <<attr, lock, locals, owners>>

\* The time-out of this wait returns at once.
RdGiveUp(t) ==
  /\ pc[t] \in {"rd_futexR", "blockedR"}
  /\ Return(t)
  /\ UNCHANGED <<attr, lock, owners>>

HasRead(t) == reads' = [reads EXCEPT ![t] = @ + 1] /\ UNCHANGED writing

Acquired(t) == Return(t) /\ HasRead(t)

\* r >= PTHREAD_RWLOCK_READER_OVERFLOW
Overflow_OffByOne(n) == n > READER_OVERFLOW
Overflow(n) == n >= READER_OVERFLOW

\* The fetch-and-add on __readers.
RdRegister(t) ==
  /\ pc[t] = "rd_register"
  /\ readers' = [readers EXCEPT !.n = @ + 1]
  /\ IF ~Overflow(readers.n + 1) /\ ~readers.wp
       THEN Acquired(t)
       ELSE /\ Goto(t, IF Overflow(readers.n + 1) THEN "rd_overflow"
                       ELSE IF readers.wl THEN "rd_wpf" ELSE "rd_start")
            /\ UNCHANGED <<locals, owners>>
  /\ UNCHANGED <<attr, writers, wrphase_futex, writers_futex, cur_writer>>

\* Undo the registration (EAGAIN) unless there is no overflow any more.
RdOverflow(t) ==
  /\ pc[t] = "rd_overflow"
  /\ \/ /\ Overflow(readers.n)
        /\ readers' = [readers EXCEPT !.n = @ - 1]
        /\ Return(t) /\ UNCHANGED owners
     \/ /\ ~Overflow(readers.n)
        /\ UNCHANGED readers
        /\ IF ~readers.wp
             THEN Acquired(t)
             ELSE /\ Goto(t, IF readers.wl THEN "rd_wpf" ELSE "rd_start")
                  /\ UNCHANGED <<locals, owners>>
  /\ UNCHANGED <<attr, writers, wrphase_futex, writers_futex, cur_writer>>

\* A write phase without primary writer: the reader starts the read phase.
RdStart(t) ==
  /\ pc[t] = "rd_start"
  /\ IF readers.wp /\ ~readers.wl
       THEN readers' = [readers EXCEPT !.wp = FALSE] /\ Goto(t, "rd_phase")
       ELSE Goto(t, "rd_wpf") /\ UNCHANGED readers
  /\ UNCHANGED <<attr, writers, wrphase_futex, writers_futex, cur_writer, locals, owners>>

\* Hand the read phase over: atomic_exchange (&__wrphase_futex, 0) and wake.
RdPhase(t) ==
  /\ pc[t] = "rd_phase"
  /\ wrphase_futex' = 0
  /\ IF Used(wrphase_futex)
       THEN Goto(t, "rd_wakeP") /\ UNCHANGED <<locals, owners>>
       ELSE Acquired(t)
  /\ UNCHANGED <<attr, readers, writers, writers_futex, cur_writer>>

RdWakeP(t) == pc[t] = "rd_wakeP" /\ Wake(t, OnPhase, All, "idle") /\ HasRead(t)

\* Wait until __wrphase_futex is 0 and this is known to be of the present phase.
RdWpf(t) ==
  /\ pc[t] = "rd_wpf"
  /\ \/ /\ Value(wrphase_futex) = 1
        /\ wrphase_futex' = 1 + FUTEX_USED
        /\ Goto(t, "rd_futexP")
        /\ UNCHANGED <<locals, owners>>
     \/ /\ Value(wrphase_futex) = 0
        /\ IF ready[t]
             THEN Acquired(t)
             ELSE Goto(t, "rd_check") /\ UNCHANGED <<locals, owners>>
        /\ UNCHANGED wrphase_futex
  /\ UNCHANGED <<attr, readers, writers, writers_futex, cur_writer>>

RdCheck_Skipped(t) ==
  /\ pc[t] = "rd_check"
  /\ ready' = [ready EXCEPT ![t] = TRUE]
  /\ Goto(t, "rd_wpf")
  /\ UNCHANGED <<attr, lock, r, wf, share, owners>>

RdCheck(t) ==
  /\ pc[t] = "rd_check"
  /\ ready' = [ready EXCEPT ![t] = ~readers.wp]
  /\ Goto(t, "rd_wpf")
  /\ UNCHANGED <<attr, lock, r, wf, share, owners>>

RdFutexP(t) ==
  /\ pc[t] = "rd_futexP"
  /\ Goto(t, IF wrphase_futex = 1 + FUTEX_USED THEN "rd_blockedP" ELSE "rd_wpf")
  /\ UNCHANGED <<attr, lock, locals, owners>>

\* The wait times out: unregister, or wait for the hand-over that has begun.
RdTimeout(t) ==
  /\ pc[t] \in {"rd_futexP", "rd_blockedP"}
  /\ Goto(t, "rd_timeout")
  /\ UNCHANGED <<attr, lock, locals, owners>>

RdUnregister(t) ==
  /\ pc[t] = "rd_timeout"
  /\ IF readers.wp
       THEN readers' = [readers EXCEPT !.n = @ - 1] /\ Return(t)
       ELSE Goto(t, "rd_spin") /\ UNCHANGED <<readers, locals>>
  /\ UNCHANGED <<attr, writers, wrphase_futex, writers_futex, cur_writer, owners>>

RdSpin(t) ==
  /\ pc[t] = "rd_spin"
  /\ Value(wrphase_futex) = 0
  /\ Acquired(t)
  /\ UNCHANGED <<attr, lock>>

-----------------------------------------------------------------------------
\* __pthread_rwlock_wrlock_full64.

WrLock(t) ==
  /\ pc[t] = "idle"
  /\ cur_writer # t
  /\ reads[t] = 0
  /\ Goto(t, "wr_set")
  /\ UNCHANGED <<attr, lock, locals, owners>>

\* The fetch-and-or of WRLOCKED.
WrSet(t) ==
  /\ pc[t] = "wr_set"
  /\ readers' = [readers EXCEPT !.wl = TRUE]
  /\ IF readers.wl
       THEN Goto(t, IF prefer_writer THEN "wr_register" ELSE "wr_block") /\ UNCHANGED r
       ELSE Goto(t, "wr_enable") /\ r' = [r EXCEPT ![t] = readers]
  /\ UNCHANGED <<attr, writers, wrphase_futex, writers_futex, cur_writer, wf, share, ready, owners>>

WrRegister(t) ==
  /\ pc[t] = "wr_register"
  /\ writers' = [writers EXCEPT !.n = @ + 1]
  /\ Goto(t, "wr_token")
  /\ UNCHANGED <<attr, readers, wrphase_futex, writers_futex, cur_writer, locals, owners>>

WrReload(t) ==
  /\ pc[t] = "wr_reload"
  /\ Goto(t, IF ~readers.wl THEN "wr_try" ELSE IF prefer_writer THEN "wr_token" ELSE "wr_block")
  /\ UNCHANGED <<attr, lock, locals, owners>>

\* The CAS from no primary writer to this one.
WrTry(t) ==
  /\ pc[t] = "wr_try"
  /\ IF ~readers.wl
       THEN /\ readers' = [readers EXCEPT !.wl = TRUE]
            /\ r' = [r EXCEPT ![t] = readers]
            /\ Goto(t, IF prefer_writer THEN "wr_unregister" ELSE "wr_enable")
       ELSE /\ Goto(t, IF prefer_writer THEN "wr_token" ELSE "wr_block")
            /\ UNCHANGED <<readers, r>>
  /\ UNCHANGED <<attr, writers, wrphase_futex, writers_futex, cur_writer, wf, share, ready, owners>>

Unregistered(w) == [w EXCEPT !.n = @ - 1]

WrUnregister(t) ==
  /\ pc[t] = "wr_unregister"
  /\ writers' = Unregistered(writers)
  /\ Goto(t, "wr_enable")
  /\ UNCHANGED <<attr, readers, wrphase_futex, writers_futex, cur_writer, locals, owners>>

\* Grab the WRHANDOVER token, if it is there, and with it WRLOCKED.
WrToken(t) ==
  /\ pc[t] = "wr_token"
  /\ IF writers.handover
       THEN writers' = [handover |-> FALSE, n |-> writers.n - 1] /\ Goto(t, "wr_inherit")
       ELSE Goto(t, "wr_block") /\ UNCHANGED writers
  /\ UNCHANGED <<attr, readers, wrphase_futex, writers_futex, cur_writer, locals, owners>>

WrInherit(t) ==
  /\ pc[t] = "wr_inherit"
  /\ r' = [r EXCEPT ![t] = readers]
  /\ Goto(t, "wr_enable")
  /\ UNCHANGED <<attr, lock, wf, share, ready, owners>>

\* Set FUTEX_USED and wait; or, if the word says that there is no primary
\* writer or the (weak) CAS fails, look at __readers again.
WrBlock(t) ==
  /\ pc[t] = "wr_block"
  /\ \/ /\ writers_futex # 1 + FUTEX_USED
        /\ Goto(t, "wr_reload")
        /\ UNCHANGED <<writers_futex, share>>
     \/ /\ Value(writers_futex) = 1
        /\ writers_futex' = 1 + FUTEX_USED
        /\ share' = [share EXCEPT ![t] = TRUE]
        /\ Goto(t, "wr_futexW")
  /\ UNCHANGED <<attr, readers, writers, wrphase_futex, cur_writer, r, wf, ready, owners>>

WrFutexW(t) ==
  /\ pc[t] = "wr_futexW"
  /\ Goto(t, IF writers_futex = 1 + FUTEX_USED THEN "blockedW" ELSE "wr_reload")
  /\ UNCHANGED <<attr, lock, locals, owners>>

\* The wait times out: unregister, but the last registered writer must take
\* WRLOCKED if it has been handed over.
WrTimeout(t) ==
  /\ timed /\ pc[t] \in {"wr_futexW", "blockedW"}
  /\ IF prefer_writer
       THEN Goto(t, "wr_timeoutW") /\ UNCHANGED locals
       ELSE Return(t)
  /\ UNCHANGED <<attr, lock, owners>>

MustTakeOver(w) == w = [handover |-> TRUE, n |-> 1]

WrTimeoutW(t) ==
  /\ pc[t] = "wr_timeoutW"
  /\ IF MustTakeOver(writers)
       THEN writers' = NoWriters /\ Goto(t, "wr_inherit") /\ UNCHANGED locals
       ELSE writers' = Unregistered(writers) /\ Return(t)
  /\ UNCHANGED <<attr, readers, wrphase_futex, writers_futex, cur_writer, owners>>

\* The primary writer enables blocking on __writers_futex, keeping FUTEX_USED
\* if it may share the flag with writers that are still blocked.
Enabled_NotUsed(shared) == 1
Enabled(shared) == 1 + (IF shared THEN FUTEX_USED ELSE 0)

WrEnable(t) ==
  /\ pc[t] = "wr_enable"
  /\ writers_futex' = Enabled(share[t])
  /\ Goto(t, IF r[t].wp THEN "wr_done" ELSE IF r[t].n = 0 THEN "wr_start" ELSE "wr_wpf")
  /\ r' = [r EXCEPT ![t] = Unlocked]
  /\ share' = [share EXCEPT ![t] = FALSE]
  /\ UNCHANGED <<attr, readers, writers, wrphase_futex, cur_writer, wf, ready, owners>>

\* Start a write phase if there are no readers.
WrStart(t) ==
  /\ pc[t] = "wr_start"
  /\ IF ~readers.wp /\ readers.n = 0
       THEN readers' = [readers EXCEPT !.wp = TRUE] /\ Goto(t, "wr_phase")
       ELSE Goto(t, "wr_wpf") /\ UNCHANGED readers
  /\ UNCHANGED <<attr, writers, wrphase_futex, writers_futex, cur_writer, locals, owners>>

WrPhase(t) ==
  /\ pc[t] = "wr_phase"
  /\ wrphase_futex' = 1
  /\ Goto(t, "wr_done")
  /\ UNCHANGED <<attr, readers, writers, writers_futex, cur_writer, locals, owners>>

\* Otherwise wait for explicit hand-over by the last reader.
WrWpf(t) ==
  /\ pc[t] = "wr_wpf"
  /\ \/ /\ Value(wrphase_futex) = 0
        /\ wrphase_futex' = FUTEX_USED
        /\ Goto(t, "wr_futexP")
     \/ /\ Value(wrphase_futex) = 1
        /\ Goto(t, IF ready[t] THEN "wr_done" ELSE "wr_check")
        /\ UNCHANGED wrphase_futex
  /\ UNCHANGED <<attr, readers, writers, writers_futex, cur_writer, locals, owners>>

WrCheck(t) ==
  /\ pc[t] = "wr_check"
  /\ ready' = [ready EXCEPT ![t] = readers.wp]
  /\ Goto(t, "wr_wpf")
  /\ UNCHANGED <<attr, lock, r, wf, share, owners>>

WrFutexP(t) ==
  /\ pc[t] = "wr_futexP"
  /\ Goto(t, IF wrphase_futex = FUTEX_USED THEN "wr_blockedP" ELSE "wr_wpf")
  /\ UNCHANGED <<attr, lock, locals, owners>>

\* The wait times out.  First try to hand WRLOCKED over to a waiting writer.
WrTimeoutP(t) ==
  /\ timed /\ pc[t] \in {"wr_futexP", "wr_blockedP"}
  /\ Goto(t, IF prefer_writer THEN "wr_others" ELSE "wr_giveUp")
  /\ UNCHANGED <<attr, lock, locals, owners>>

WrOthers(t) ==
  /\ pc[t] = "wr_others"
  /\ Goto(t, IF writers # NoWriters THEN "wr_disable1" ELSE "wr_giveUp")
  /\ UNCHANGED <<attr, lock, locals, owners>>

WrDisable(t) ==
  /\ pc[t] \in {"wr_disable1", "wr_disable2"}
  /\ wf' = [wf EXCEPT ![t] = writers_futex]
  /\ writers_futex' = 0
  /\ Goto(t, IF pc[t] = "wr_disable1" THEN "wr_handOver" ELSE "wr_release")
  /\ UNCHANGED <<attr, readers, writers, wrphase_futex, cur_writer, r, share, ready, owners>>

WrHandOver(t) ==
  /\ pc[t] = "wr_handOver"
  /\ IF writers # NoWriters
       THEN /\ writers' = [writers EXCEPT !.handover = TRUE]
            /\ IF Used(wf[t]) THEN Goto(t, "wr_wakeW") /\ UNCHANGED locals ELSE Return(t)
       ELSE Goto(t, "wr_restore1") /\ UNCHANGED <<writers, locals>>
  /\ UNCHANGED <<attr, readers, wrphase_futex, writers_futex, cur_writer, owners>>

WrRestore(t) ==
  /\ pc[t] \in {"wr_restore1", "wr_restore2"}
  /\ writers_futex' = wf[t]
  /\ wf' = [wf EXCEPT ![t] = 0]
  /\ Goto(t, IF pc[t] = "wr_restore1" THEN "wr_giveUp" ELSE "wr_spin")
  /\ UNCHANGED <<attr, readers, writers, wrphase_futex, cur_writer, r, share, ready, owners>>

\* Otherwise stop being the primary writer, unless a write phase has begun.
WrGiveUp(t) ==
  /\ pc[t] = "wr_giveUp"
  /\ Goto(t, IF readers.wp THEN "wr_spin" ELSE "wr_disable2")
  /\ UNCHANGED <<attr, lock, locals, owners>>

WakesReaders(rr) == rr.rw

WrRelease(t) ==
  /\ pc[t] = "wr_release"
  /\ IF readers.wp
       THEN Goto(t, "wr_restore2") /\ UNCHANGED <<readers, locals>>
       ELSE /\ readers' = [readers EXCEPT !.wl = FALSE, !.rw = FALSE]
            /\ IF Used(wf[t]) \/ WakesReaders(readers)
                 THEN /\ r' = [r EXCEPT ![t] = readers]
                      /\ Goto(t, IF Used(wf[t]) THEN "wr_wakeW" ELSE "wr_wakeR")
                      /\ UNCHANGED <<wf, share, ready>>
                 ELSE Return(t)
  /\ UNCHANGED <<attr, writers, wrphase_futex, writers_futex, cur_writer, owners>>

WrWakeW(t) ==
  /\ pc[t] = "wr_wakeW"
  /\ Wake(t, {"blockedW"}, 1, IF WakesReaders(r[t]) THEN "wr_wakeR" ELSE "idle")
  /\ UNCHANGED owners

WrWakeR(t) ==
  /\ pc[t] = "wr_wakeR"
  /\ Wake(t, {"blockedR"}, All, "idle")
  /\ UNCHANGED owners

WrSpin(t) ==
  /\ pc[t] = "wr_spin"
  /\ Value(wrphase_futex) = 1
  /\ Goto(t, "wr_done")
  /\ UNCHANGED <<attr, lock, locals, owners>>

\* The store to __cur_writer; the call returns 0.
WrDone(t) ==
  /\ pc[t] = "wr_done"
  /\ cur_writer' = t
  /\ writing' = writing \cup {t}
  /\ Return(t)
  /\ UNCHANGED <<attr, readers, writers, wrphase_futex, writers_futex, reads>>

-----------------------------------------------------------------------------
\* ___pthread_rwlock_unlock: a thread that is not __cur_writer is a reader.

RdUnlock(t) ==
  /\ pc[t] = "idle"
  /\ cur_writer # t
  /\ reads[t] > 0
  /\ reads' = [reads EXCEPT ![t] = @ - 1]
  /\ Goto(t, "ru_leave")
  /\ UNCHANGED <<attr, lock, locals, writing>>

\* __pthread_rwlock_rdunlock.  The last reader starts the write phase for a
\* primary writer and lets the readers go that wait for a writer to go first.
AfterReader(rr) ==
  IF rr.n = 1 THEN [rr EXCEPT !.n = 0, !.wp = @ \/ rr.wl, !.rw = FALSE]
  ELSE [rr EXCEPT !.n = @ - 1]

RuLeave(t) ==
  /\ pc[t] = "ru_leave"
  /\ readers' = AfterReader(readers)
  /\ LET woken == readers.rw # readers'.rw
     IN  IF ~readers'.wp /\ ~woken
           THEN Return(t)
           ELSE /\ Goto(t, IF readers'.wp THEN "ru_phase" ELSE "ru_wakeR")
                /\ r' = [r EXCEPT ![t].rw = woken]
                /\ UNCHANGED <<wf, share, ready>>
  /\ UNCHANGED <<attr, writers, wrphase_futex, writers_futex, cur_writer, owners>>

RuPhase(t) ==
  /\ pc[t] = "ru_phase"
  /\ wrphase_futex' = 1
  /\ IF Used(wrphase_futex) THEN Goto(t, "ru_wakeP") /\ UNCHANGED locals
     ELSE IF r[t].rw THEN Goto(t, "ru_wakeR") /\ UNCHANGED locals
     ELSE Return(t)
  /\ UNCHANGED <<attr, readers, writers, writers_futex, cur_writer, owners>>

RuWakeP(t) ==
  /\ pc[t] = "ru_wakeP"
  /\ Wake(t, OnPhase, All, IF r[t].rw THEN "ru_wakeR" ELSE "idle")
  /\ UNCHANGED owners

RuWakeR(t) ==
  /\ pc[t] = "ru_wakeR"
  /\ Wake(t, {"blockedR"}, All, "idle")
  /\ UNCHANGED owners

\* __pthread_rwlock_wrunlock.
WrUnlock(t) ==
  /\ pc[t] = "idle"
  /\ cur_writer = t
  /\ cur_writer' = NoThread
  /\ writing' = writing \ {t}
  /\ Goto(t, "wu_disable")
  /\ UNCHANGED <<attr, readers, writers, wrphase_futex, writers_futex, locals, reads>>

WuDisable(t) ==
  /\ pc[t] = "wu_disable"
  /\ wf' = [wf EXCEPT ![t] = writers_futex]
  /\ writers_futex' = 0
  /\ Goto(t, IF prefer_writer THEN "wu_handOver" ELSE "wu_release")
  /\ UNCHANGED <<attr, readers, writers, wrphase_futex, cur_writer, r, share, ready, owners>>

\* done: wake a writer if there may be one.
WuDone(t) ==
  IF Used(wf[t]) THEN Goto(t, "wu_wakeW") /\ UNCHANGED locals ELSE Return(t)

WuHandOver(t) ==
  /\ pc[t] = "wu_handOver"
  /\ IF writers # NoWriters
       THEN writers' = [writers EXCEPT !.handover = TRUE] /\ WuDone(t)
       ELSE Goto(t, "wu_release") /\ UNCHANGED <<writers, locals>>
  /\ UNCHANGED <<attr, readers, wrphase_futex, writers_futex, cur_writer, owners>>

\* Hand over to the registered readers, or stay in the write phase.
WuRelease(t) ==
  /\ pc[t] = "wu_release"
  /\ readers' = [readers EXCEPT !.wl = FALSE, !.wp = IF readers.n = 0 THEN @ ELSE ~@]
  /\ IF readers.n # 0 THEN Goto(t, "wu_phase") /\ UNCHANGED locals ELSE WuDone(t)
  /\ UNCHANGED <<attr, writers, wrphase_futex, writers_futex, cur_writer, owners>>

WuPhase(t) ==
  /\ pc[t] = "wu_phase"
  /\ wrphase_futex' = 0
  /\ IF Used(wrphase_futex) THEN Goto(t, "wu_wakeP") /\ UNCHANGED locals ELSE WuDone(t)
  /\ UNCHANGED <<attr, readers, writers, writers_futex, cur_writer, owners>>

WuWakeP(t) ==
  /\ pc[t] = "wu_wakeP"
  /\ Wake(t, OnPhase, All, IF Used(wf[t]) THEN "wu_wakeW" ELSE "idle")
  /\ UNCHANGED owners

WuWakeW(t) ==
  /\ pc[t] = "wu_wakeW"
  /\ Wake(t, {"blockedW"}, 1, "idle")
  /\ UNCHANGED owners

-----------------------------------------------------------------------------
\* ___pthread_rwlock_tryrdlock and ___pthread_rwlock_trywrlock when they
\* succeed; EBUSY and EAGAIN change nothing.

TryRdLock(t) ==
  /\ pc[t] = "idle"
  /\ cur_writer # t
  /\ reads[t] < MaxReads
  /\ ~Overflow(readers.n + 1)
  /\ ~readers.wl \/ (~readers.wp /\ flags # "PREFER_WRITER_NONRECURSIVE")
  /\ readers' = [readers EXCEPT !.n = @ + 1, !.wp = FALSE]
  /\ IF readers.wp
       THEN Goto(t, "rd_phase") /\ UNCHANGED <<locals, owners>>
       ELSE Acquired(t)
  /\ UNCHANGED <<attr, writers, wrphase_futex, writers_futex, cur_writer>>

CanTryWrite_Readers(rr) == ~rr.wl /\ (rr.n = 0 \/ prefer_writer)
CanTryWrite(rr) == ~rr.wl /\ (rr.n = 0 \/ (prefer_writer /\ rr.wp))

TryWrLock(t) ==
  /\ pc[t] = "idle"
  /\ CanTryWrite(readers)
  /\ readers' = [readers EXCEPT !.wp = TRUE, !.wl = TRUE]
  /\ r' = [r EXCEPT ![t] = readers]
  /\ Goto(t, "tw_enable")
  /\ UNCHANGED <<attr, writers, wrphase_futex, writers_futex, cur_writer, wf, share, ready, owners>>

TwEnable(t) ==
  /\ pc[t] = "tw_enable"
  /\ writers_futex' = 1
  /\ r' = [r EXCEPT ![t] = Unlocked]
  /\ Goto(t, IF r[t].wp THEN "wr_done" ELSE "wr_phase")
  /\ UNCHANGED <<attr, readers, writers, wrphase_futex, cur_writer, wf, share, ready, owners>>

-----------------------------------------------------------------------------
\* A futex wait that returns without a wake-up.
SpuriousWakeup(t) ==
  /\ pc[t] \in {"blockedR", "blockedW"} \cup OnPhase
  /\ Goto(t, Resume(pc[t]))
  /\ UNCHANGED <<attr, lock, locals, owners>>

Call(t) == RdLock(t) \/ WrLock(t) \/ TryRdLock(t) \/ TryWrLock(t)

Unlock(t) == RdUnlock(t) \/ WrUnlock(t)

GiveUp(t) == RdGiveUp(t) \/ RdTimeout(t) \/ WrTimeout(t) \/ WrTimeoutP(t)

Step(t) ==
  \/ RdPrefer(t) \/ RdLoadRW(t) \/ RdFutexR(t) \/ RdRegister(t) \/ RdOverflow(t)
  \/ RdStart(t) \/ RdPhase(t) \/ RdWakeP(t) \/ RdWpf(t) \/ RdCheck(t)
  \/ RdFutexP(t) \/ RdUnregister(t) \/ RdSpin(t)
  \/ WrSet(t) \/ WrRegister(t) \/ WrReload(t) \/ WrTry(t) \/ WrUnregister(t)
  \/ WrToken(t) \/ WrInherit(t) \/ WrBlock(t) \/ WrFutexW(t) \/ WrTimeoutW(t)
  \/ WrEnable(t) \/ WrStart(t) \/ WrPhase(t) \/ WrWpf(t) \/ WrCheck(t)
  \/ WrFutexP(t) \/ WrOthers(t) \/ WrDisable(t) \/ WrHandOver(t) \/ WrRestore(t)
  \/ WrGiveUp(t) \/ WrRelease(t) \/ WrWakeW(t) \/ WrWakeR(t) \/ WrSpin(t) \/ WrDone(t)
  \/ RuLeave(t) \/ RuPhase(t) \/ RuWakeP(t) \/ RuWakeR(t)
  \/ WuDisable(t) \/ WuHandOver(t) \/ WuRelease(t) \/ WuPhase(t) \/ WuWakeP(t) \/ WuWakeW(t)
  \/ TwEnable(t)

Next == \E t \in Threads :
          Call(t) \/ Unlock(t) \/ GiveUp(t) \/ Step(t) \/ SpuriousWakeup(t)

Spec == Init /\ [][Next]_vars

-----------------------------------------------------------------------------
\* A writer excludes every reader and every other writer, whichever way each got
\* the lock: at once, by explicit hand-over of a phase, by writer-writer
\* hand-over, by a time-out that comes too late or by a try.
Exclusion ==
  \A t \in writing : writing = {t} /\ \A u \in Threads : reads[u] = 0

\* A writer that inherits WRLOCKED from one whose wait timed out may find the
\* write phase begun and skip the hand-over; no other program can get there.
ExplicitHandOver == ~(timed /\ prefer_writer)

\* "destroying a rwlock is allowed as soon as no thread has acquired or will
\* acquire the lock": nobody gets the lock before the unlock of its last owner
\* has released it, and while an unlock has its store to __wrphase_futex left
\* some lock call cannot return, so that the lock is not destroyed under it.
HandedOver ==
  ExplicitHandOver =>
    /\ At({"wu_disable", "wu_handOver", "wu_release"}) # {}
         => writing = {} /\ \A u \in Threads : reads[u] = 0
    /\ At({"ru_leave", "ru_phase", "wu_phase"}) # {} => writing = {}
    /\ At({"wu_phase"}) # {}
         => At({"rd_wpf", "rd_check", "rd_futexP", "rd_blockedP", "rd_timeout",
                "rd_spin", "rd_start", "rd_overflow"}) # {}
    /\ At({"ru_phase"}) # {}
         => writers.handover \/ At({"wr_enable", "wr_start", "wr_wpf", "wr_check",
              "wr_futexP", "wr_blockedP", "wr_others", "wr_disable1", "wr_disable2",
              "wr_handOver", "wr_restore1", "wr_restore2", "wr_giveUp", "wr_release",
              "wr_spin", "wr_unregister", "wr_inherit"}) # {}

\* There is a primary writer or a WRHANDOVER token if and only if WRLOCKED is
\* set, and never two of them; __writers counts the writers that wait to become it,
\* and a token always has one of them to take it.
Primary ==
  writing \cup At({"wr_unregister", "wr_inherit", "wr_enable", "wr_start", "wr_phase",
    "wr_wpf", "wr_check", "wr_futexP", "wr_blockedP", "wr_others", "wr_disable1",
    "wr_disable2", "wr_handOver", "wr_restore1", "wr_restore2", "wr_giveUp",
    "wr_release", "wr_spin", "wr_done", "wu_disable", "wu_handOver", "wu_release",
    "tw_enable"})

RegisteredWriters == At({"wr_token", "wr_block", "wr_reload", "wr_try", "wr_futexW",
                         "blockedW", "wr_timeoutW", "wr_unregister"})

OnePrimaryWriter ==
  /\ Cardinality(Primary) + (IF writers.handover THEN 1 ELSE 0)
       = IF readers.wl THEN 1 ELSE 0
  /\ writers.n = IF prefer_writer THEN Cardinality(RegisteredWriters) ELSE 0
  /\ writers.handover => writers.n > 0

ReadLocks == Cardinality(UNION {{t} \X (1 .. reads[t]) : t \in Threads})

Registered ==
  At({"rd_overflow", "rd_start", "rd_phase", "rd_wakeP", "rd_wpf", "rd_check", "rd_futexP",
      "rd_blockedP", "rd_timeout", "rd_spin", "ru_leave"})

\* The table of states of __readers and __writers: RWAITING is set in state #4a
\* only; the count of readers is that of the read locks held plus the calls that
\* have registered, and the read locks held never reach the overflow mark; the
\* writers are as above.
StateTable ==
  /\ OnePrimaryWriter
  /\ readers.rw => ~readers.wp /\ readers.wl /\ readers.n > 0
  /\ readers.n = ReadLocks + Cardinality(Registered)
  /\ ReadLocks < READER_OVERFLOW

\* No thread stays blocked when the phase it waits for has begun, or when nobody
\* keeps it waiting for a writer to go first: somebody is about to wake it.  ("The
\* futex synchronization ensures that there are no lost wake-ups".)
NoLostWakeup ==
  /\ At({"rd_blockedP"}) # {} /\ ~readers.wp
       => At({"rd_phase", "rd_wakeP", "wu_phase", "wu_wakeP"}) # {}
  /\ At({"wr_blockedP"}) # {} /\ readers.wp
       => At({"ru_phase", "ru_wakeP"}) # {}
  /\ At({"blockedR"}) # {} /\ ~readers.rw
       => \E t \in Threads : r[t].rw /\ pc[t] \in {"wr_wakeW", "wr_wakeR", "ru_phase",
                                                   "ru_wakeP", "ru_wakeR"}

\* A thread that cannot go on by itself.
Stuck(t) ==
  \/ pc[t] \in {"blockedR", "blockedW"} \cup OnPhase
  \/ pc[t] = "rd_spin" /\ Value(wrphase_futex) = 1
  \/ pc[t] = "wr_spin" /\ Value(wrphase_futex) = 0

\* Nobody is stranded if phases are handed over explicitly: no wake-up is lost
\* while others hold the lock, and when no thread can take a step and nobody holds
\* the lock every lock call has returned, whichever word its thread could wait for.
NobodyStranded ==
  ExplicitHandOver =>
    /\ NoLostWakeup
    /\ (/\ writing = {} /\ \A t \in Threads : reads[t] = 0
        /\ \A t \in Threads : pc[t] = "idle" \/ Stuck(t))
         => \A t \in Threads : pc[t] = "idle"
=============================================================================
