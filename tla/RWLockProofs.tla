---------------------------- MODULE RWLockProofs ----------------------------
(***************************************************************************)
(* Proofs about RWLock, for any number of threads, kinds of lock, read     *)
(* locks per thread and mark of overflow: Exclusion and StateTable.        *)
(*                                                                         *)
(* The invariant counts.  Every thread is at a location that says whether  *)
(* it has added itself to __readers or __writers, whether it is the        *)
(* primary writer, and whether the present phase is its own; __readers and *)
(* __writers say how many of each there are.  A blocked thread is taken to *)
(* be where it goes on, so that a wake-up changes the waker alone.         *)
(***************************************************************************)
EXTENDS RWLock, Integers, TLAPS

USE SMTT(30), ZenonT(30)

Bits == [wp : BOOLEAN, wl : BOOLEAN, rw : BOOLEAN, n : Nat]

RdBlocking == {"rd_wpf", "rd_check", "rd_futexP", "rd_blockedP", "rd_timeout"}
RdPassed == RdBlocking \cup {"rd_start", "rd_phase", "rd_wakeP", "rd_spin", "ru_leave"}
RdRegistered == RdPassed \cup {"rd_overflow"}
RdOther == {"rd_prefer", "rd_loadRW", "rd_futexR", "blockedR", "rd_register",
            "ru_phase", "ru_wakeP", "ru_wakeR"}

WrBlocking == {"wr_wpf", "wr_check", "wr_futexP", "wr_blockedP", "wr_others", "wr_disable1",
               "wr_disable2", "wr_handOver", "wr_restore1", "wr_giveUp", "wr_release"}
WrSure == {"wr_phase", "wr_restore2", "wr_spin", "wr_done", "tw_enable", "wu_disable", "wu_handOver",
           "wu_release"}
WrPrimary == WrBlocking \cup WrSure \cup {"wr_unregister", "wr_inherit", "wr_enable", "wr_start"}
WrRegistered == {"wr_token", "wr_block", "wr_reload", "wr_try", "wr_futexW", "blockedW",
                 "wr_timeoutW", "wr_unregister"}
WrOther == {"wr_set", "wr_register", "wr_wakeW", "wr_wakeR", "wu_phase", "wu_wakeP", "wu_wakeW"}

Blocking == {"blockedR", "rd_blockedP", "wr_blockedP", "blockedW"}
Labels == RdRegistered \cup RdOther \cup WrPrimary \cup WrRegistered \cup WrOther \cup {"idle"}

TypeOK ==
  /\ readers \in Bits
  /\ writers \in [handover : BOOLEAN, n : Nat]
  /\ pc \in [Threads -> Labels]
  /\ r \in [Threads -> Bits]
  /\ ready \in [Threads -> BOOLEAN]
  /\ reads \in [Threads -> Nat]
  /\ writing \subseteq Threads

\* Where a thread is, a blocked one where it looks again.
Awake(l) == IF l \in Blocking THEN Resume(l) ELSE l
apc == [u \in Threads |-> Awake(pc[u])]

\* A thread that holds a read lock, or will as soon as __wrphase_futex lets it.
Reader(l, rdy, k) ==
  k > 0 \/ l \in {"rd_phase", "rd_wakeP", "rd_spin", "ru_leave"} \/ (rdy /\ l \in RdBlocking)

\* A thread that holds the write lock, or will as soon as it may.
Writer(l, rdy, wp, w) ==
  w \/ l \in WrSure \/ (wp /\ l \in {"wr_unregister", "wr_enable"}) \/ (rdy /\ l \in WrBlocking)

IsPrimary(l, w) == w \/ l \in WrPrimary

\* What is so of one thread.
ThreadOK(l, rdy, wp, k, w, bits) ==
  /\ rdy => l \in RdBlocking \cup WrBlocking \cup
                {"rd_spin", "wr_restore2", "wr_spin", "wr_done", "wr_wakeW", "wr_wakeR"}
  /\ w => l = "idle"
  /\ Reader(l, rdy, k) => ~bits.wp
  /\ Writer(l, rdy, wp, w) => bits.wp
  /\ l \in {"wr_register", "wr_token", "wr_unregister", "wr_timeoutW"} => prefer_writer

OK(t) == ThreadOK(apc[t], ready[t], r[t].wp, reads[t], t \in writing, readers)

IsP(t) == IsPrimary(apc[t], t \in writing)

Primaries ==
  /\ \A t \in Threads : t \in writing <=> cur_writer = t
  /\ \A t, u \in Threads : IsP(t) /\ IsP(u) => t = u
  /\ \A t \in Threads : IsP(t) => readers.wl /\ ~writers.handover
  /\ writers.handover => readers.wl
  /\ readers.wl => writers.handover \/ \E t \in Threads : IsP(t)

Where(labels) == {t \in Threads : apc[t] \in labels}

Held(f) == UNION {{t} \X (1 .. f[t]) : t \in Threads}

Counts ==
  /\ readers.n = Cardinality(Held(reads)) + Cardinality(Where(RdRegistered))
  /\ Cardinality(Held(reads)) + Cardinality(Where(RdPassed)) < READER_OVERFLOW
  /\ writers.n = IF prefer_writer THEN Cardinality(Where(WrRegistered)) ELSE 0
  /\ writers.handover => writers.n > 0
  /\ readers.rw => ~readers.wp /\ readers.wl /\ readers.n > 0

IInv == TypeOK /\ (\A t \in Threads : OK(t)) /\ Primaries /\ Counts

-----------------------------------------------------------------------------
Countable(T) ==
  \A S \in SUBSET T :
    /\ Cardinality(S) \in Nat
    /\ Cardinality(S) = 0 <=> S = {}
    /\ \A x \in T \ S : Cardinality(S \cup {x}) = Cardinality(S) + 1
    /\ \A x \in S : Cardinality(S \ {x}) = Cardinality(S) - 1
    /\ \A R \in SUBSET S : Cardinality(R) <= Cardinality(S)

\* g is f but for one more at t.
OneMore(f, g, t) == g[t] = f[t] + 1 /\ \A u \in Threads \ {t} : g[u] = f[u]

\* The read locks can be counted.
ReadsCountable ==
  \A f \in [Threads -> Nat] :
    /\ Cardinality(Held(f)) \in Nat
    /\ Cardinality(Held(f)) = 0 <=> \A t \in Threads : f[t] = 0
    /\ \A g \in [Threads -> Nat],
         t \in Threads : OneMore(f, g, t) => Cardinality(Held(g)) = Cardinality(Held(f)) + 1

Constants ==
  /\ NoThread \notin Threads /\ READER_OVERFLOW \in Nat \ {0, 1}
  /\ Countable(Threads) /\ ReadsCountable

In(l, labels) == IF l \in labels THEN 1 ELSE 0

\* How the number of threads at some labels changes when one thread moves.
LEMMA CountMove ==
  ASSUME Constants, NEW t \in Threads, NEW a, NEW labels, apc' = [apc EXCEPT ![t] = a]
  PROVE  /\ Cardinality(Where(labels)) \in Nat
         /\ Cardinality(Where(labels))' = Cardinality(Where(labels)) + In(a, labels) - In(apc[t], labels)
<1> DEFINE A == Where(labels)
           B == Where(labels)'
<1>1. A \in SUBSET Threads /\ B \in SUBSET Threads
  BY Zenon DEF Where
<1>2. \A u \in Threads : apc'[u] = IF u = t THEN a ELSE apc[u]
  BY Zenon DEF apc
<1>3. /\ a \in labels /\ apc[t] \notin labels => B = A \cup {t} /\ t \notin A
      /\ a \notin labels /\ apc[t] \in labels => B = A \ {t} /\ t \in A
      /\ (a \in labels <=> apc[t] \in labels) => B = A
  BY <1>2, Zenon DEF Where
<1> HIDE DEF A, B
<1>4. Cardinality(A) \in Nat
  BY <1>1, Zenon DEF Constants, Countable
<1>5. /\ a \in labels /\ apc[t] \notin labels => Cardinality(B) = Cardinality(A) + 1
      /\ a \notin labels /\ apc[t] \in labels => Cardinality(B) = Cardinality(A) - 1
      /\ (a \in labels <=> apc[t] \in labels) => Cardinality(B) = Cardinality(A)
  BY <1>1, <1>3, Zenon DEF Constants, Countable
<1>6. Cardinality(B) = Cardinality(A) + In(a, labels) - In(apc[t], labels)
  BY <1>4, <1>5 DEF In
<1> QED
  BY <1>4, <1>6 DEF A, B

\* How the number of read locks changes when a thread gets or drops one.
LEMMA HeldMove ==
  ASSUME Constants, reads \in [Threads -> Nat], reads' \in [Threads -> Nat], NEW t \in Threads,
         \/ reads' = reads
         \/ reads' = [reads EXCEPT ![t] = @ + 1]
         \/ reads[t] > 0 /\ reads' = [reads EXCEPT ![t] = @ - 1]
  PROVE  /\ Cardinality(Held(reads)) \in Nat
         /\ Cardinality(Held(reads')) = Cardinality(Held(reads)) + reads'[t] - reads[t]
<1>1. /\ Cardinality(Held(reads)) \in Nat /\ Cardinality(Held(reads')) \in Nat
  BY Zenon DEF Constants, ReadsCountable
<1>2. CASE reads' = reads
  BY <1>1, <1>2
<1>3. CASE reads' = [reads EXCEPT ![t] = @ + 1]
  <2>1. OneMore(reads, reads', t)
    BY <1>3 DEF OneMore
  <2>2. Cardinality(Held(reads')) = Cardinality(Held(reads)) + 1
    BY <2>1, Zenon DEF Constants, ReadsCountable
  <2> QED
    BY <1>1, <2>1, <2>2 DEF OneMore
<1>4. CASE reads[t] > 0 /\ reads' = [reads EXCEPT ![t] = @ - 1]
  <2>1. OneMore(reads', reads, t)
    BY <1>4 DEF OneMore
  <2>2. Cardinality(Held(reads)) = Cardinality(Held(reads')) + 1
    BY <2>1, Zenon DEF Constants, ReadsCountable
  <2> QED
    BY <1>1, <2>1, <2>2 DEF OneMore
<1> QED
  BY <1>2, <1>3, <1>4

\* What the count of __readers says about the others.
LEMMA FewReaders ==
  ASSUME Constants, IInv, NEW t \in Threads
  PROVE  /\ apc[t] \in RdRegistered \/ reads[t] > 0 => readers.n > 0
         /\ readers.n = 0 => \A u \in Threads : apc[u] \notin RdRegistered /\ reads[u] = 0
         /\ readers.n = 1 /\ apc[t] \in RdRegistered =>
              /\ \A u \in Threads : reads[u] = 0
              /\ \A u \in Threads \ {t} : apc[u] \notin RdRegistered
<1> DEFINE G == Where(RdRegistered)
           h == Cardinality(Held(reads))
<1>1. readers.n = h + Cardinality(G) /\ readers.n \in Nat /\ reads \in [Threads -> Nat]
  BY Zenon DEF IInv, TypeOK, Bits, Counts
<1>2. G \in SUBSET Threads
  BY Zenon DEF Where
<1> HIDE DEF G
<1>3. h \in Nat /\ (h = 0 <=> \A u \in Threads : reads[u] = 0)
  BY <1>1, Zenon DEF Constants, ReadsCountable
<1>4. Cardinality(G) \in Nat /\ (Cardinality(G) = 0 <=> G = {})
  BY <1>2, Zenon DEF Constants, Countable
<1>5. ASSUME t \in G, Cardinality(G) = 1 PROVE G \ {t} = {}
  <2>1. Cardinality(G \ {t}) = Cardinality(G) - 1 /\ G \ {t} \in SUBSET Threads
    BY <1>2, <1>5, Zenon DEF Constants, Countable
  <2>2. Cardinality(G \ {t}) = 0
    BY <1>5, <2>1
  <2> QED
    BY <2>1, <2>2, Zenon DEF Constants, Countable
<1> HIDE DEF h
<1>6. /\ readers.n = 0 => h = 0 /\ G = {}
      /\ readers.n = 1 /\ t \in G => h = 0 /\ Cardinality(G) = 1
      /\ t \in G \/ h # 0 => readers.n > 0
  BY <1>1, <1>3, <1>4
<1> QED
  BY <1>1, <1>3, <1>5, <1>6 DEF G, Where

\* A step of thread t to a, as the others see it.
Moves(t, a) ==
  /\ TypeOK' /\ flags' = flags
  /\ apc' = [apc EXCEPT ![t] = a]
  /\ \A u \in Threads \ {t} : ready'[u] = ready[u] /\ r'[u] = r[u]
  /\ \/ reads' = reads
     \/ reads' = [reads EXCEPT ![t] = @ + 1]
     \/ reads[t] > 0 /\ reads' = [reads EXCEPT ![t] = @ - 1]
  /\ \A u \in Threads \ {t} : u \in writing' <=> u \in writing
  /\ \A u \in Threads : u \in writing' <=> cur_writer' = u

\* What such a step must do to be proper: to the bits,
ProperBits(t, a) ==
  /\ ThreadOK(a, ready'[t], r'[t].wp, reads'[t], t \in writing', readers')
  /\ readers'.wp /\ ~readers.wp => readers.n = 0 \/ (readers.n = 1 /\ apc[t] \in RdRegistered)
  /\ readers.wp /\ ~readers'.wp => ~readers.wl \/ IsP(t)
  /\ IF IsPrimary(a, t \in writing')
       THEN /\ readers'.wl /\ ~writers'.handover
            /\ IsP(t) \/ ~readers.wl \/ writers.handover
       ELSE /\ writers'.handover => readers'.wl
            /\ IF IsP(t) THEN readers'.wl => writers'.handover
               ELSE readers'.wl = readers.wl /\ writers'.handover = writers.handover
  /\ readers'.rw => ~readers'.wp /\ readers'.wl /\ readers'.n > 0

\* and to the counts.
ProperCounts(t, a) ==
  /\ readers'.n = readers.n + (reads'[t] - reads[t]) + In(a, RdRegistered) - In(apc[t], RdRegistered)
  /\ \/ readers'.n < READER_OVERFLOW
     \/ reads'[t] - reads[t] + In(a, RdPassed) - In(apc[t], RdPassed) <= 0
  /\ prefer_writer => writers'.n = writers.n + In(a, WrRegistered) - In(apc[t], WrRegistered)
  /\ ~prefer_writer => writers'.n = 0
  /\ writers'.handover => writers'.n > 0

\* Such a step preserves the inductive invariant.
LEMMA StepOfOne ==
  ASSUME Constants, IInv, NEW t \in Threads, NEW a, Moves(t, a), ProperBits(t, a),
         ProperCounts(t, a)
  PROVE  IInv'
<1>1. TypeOK /\ (\A u \in Threads : OK(u)) /\ Primaries /\ Counts /\ TypeOK'
  BY Zenon DEF IInv, Moves
<1>2. /\ \A u \in Threads : apc'[u] = IF u = t THEN a ELSE apc[u]
      /\ \A u \in Threads \ {t} : reads'[u] = reads[u]
      /\ prefer_writer' = prefer_writer
  BY <1>1, Zenon DEF Moves, apc, TypeOK, prefer_writer
<1>3. \A u \in Threads : OK(u)'
  <2>1. OK(t)'
    BY <1>2, Zenon DEF OK, ThreadOK, ProperBits
  <2>2. ASSUME NEW u \in Threads \ {t} PROVE OK(u)'
    <3>1. /\ apc'[u] = apc[u] /\ ready'[u] = ready[u] /\ r'[u] = r[u] /\ reads'[u] = reads[u]
          /\ u \in writing' <=> u \in writing
      BY <1>2, <2>2, Zenon DEF Moves
    <3>2. OK(u) /\ readers.n \in Nat /\ reads[u] \in Nat
      BY <1>1, Zenon DEF TypeOK, Bits
    <3>3. Reader(apc[u], ready[u], reads[u]) => ~readers'.wp
      <4>1. Reader(apc[u], ready[u], reads[u]) => apc[u] \in RdRegistered \/ reads[u] # 0
        BY <3>2 DEF Reader, RdRegistered, RdPassed
      <4>2. readers'.wp /\ ~readers.wp => apc[u] \notin RdRegistered /\ reads[u] = 0
        BY FewReaders, Zenon DEF ProperBits
      <4> QED
        BY <3>2, <4>1, <4>2, Zenon DEF OK, ThreadOK
    <3>4. Writer(apc[u], ready[u], r[u].wp, u \in writing) => readers'.wp
      <4>1. Writer(apc[u], ready[u], r[u].wp, u \in writing) => IsP(u)
        BY Zenon DEF Writer, IsP, IsPrimary, WrPrimary
      <4>2. IsP(u) => readers.wl /\ ~IsP(t)
        BY <1>1, <2>2, Zenon DEF Primaries
      <4> QED
        BY <1>1, <3>2, <4>1, <4>2, Zenon DEF OK, ThreadOK, ProperBits, TypeOK, Bits
    <3> QED
      BY <1>2, <3>1, <3>2, <3>3, <3>4, Zenon DEF OK, ThreadOK, Reader, Writer
  <2> QED
    BY <2>1, <2>2, Zenon
<1>4. Primaries'
  <2>1. /\ \A u \in Threads \ {t} : IsP(u)' <=> IsP(u)
        /\ IsP(t)' <=> IsPrimary(a, t \in writing')
    BY <1>2, Zenon DEF IsP, IsPrimary, Moves
  <2>2. \A u \in Threads : IsP(u) /\ IsP(t) => u = t
    BY <1>1, Zenon DEF Primaries
  <2>3. CASE IsPrimary(a, t \in writing')
    <3>1. \A u \in Threads \ {t} : ~IsP(u)
      BY <1>1, <2>2, <2>3, Zenon DEF Primaries, ProperBits
    <3>2. readers'.wl /\ ~writers'.handover
      BY <2>3, Zenon DEF ProperBits
    <3> QED
      BY <2>1, <2>3, <3>1, <3>2, Zenon DEF Primaries, Moves
  <2>4. CASE ~IsPrimary(a, t \in writing') /\ IsP(t)
    <3>1. \A u \in Threads : ~IsP(u)'
      BY <2>1, <2>2, <2>4, Zenon
    <3> QED
      BY <2>4, <3>1, Zenon DEF Primaries, Moves, ProperBits
  <2>5. CASE ~IsPrimary(a, t \in writing') /\ ~IsP(t)
    <3>1. \A u \in Threads : IsP(u)' <=> IsP(u)
      BY <2>1, <2>5, Zenon
    <3>2. readers'.wl = readers.wl /\ writers'.handover = writers.handover
      BY <2>5, Zenon DEF ProperBits
    <3> QED
      BY <1>1, <3>1, <3>2, Zenon DEF Primaries, Moves
  <2> QED
    BY <2>3, <2>4, <2>5, Zenon
<1>5. Counts'
  <2> DEFINE h == Cardinality(Held(reads))
             g == Cardinality(Where(RdRegistered))
             p == Cardinality(Where(RdPassed))
             w == Cardinality(Where(WrRegistered))
  <2>1. /\ g \in Nat /\ g' = g + In(a, RdRegistered) - In(apc[t], RdRegistered)
        /\ p \in Nat /\ p' = p + In(a, RdPassed) - In(apc[t], RdPassed)
        /\ w \in Nat /\ w' = w + In(a, WrRegistered) - In(apc[t], WrRegistered)
    BY CountMove, Zenon DEF Moves
  <2>2. h \in Nat /\ h' = h + reads'[t] - reads[t]
    BY <1>1, HeldMove, Zenon DEF Moves, TypeOK
  <2>3. reads[t] \in Nat /\ reads'[t] \in Nat
    BY <1>1, Zenon DEF TypeOK
  <2>4. p' <= g' /\ g' \in Nat /\ p' \in Nat
    <3>1. Where(RdPassed)' \subseteq Where(RdRegistered)'
            /\ Where(RdRegistered)' \subseteq Threads
      BY Zenon DEF Where, RdRegistered
    <3> QED
      BY <3>1, Zenon DEF Constants, Countable
  <2>5. h' \in Nat
    BY <1>1, Zenon DEF Constants, ReadsCountable, TypeOK
  <2>6. /\ readers.n = h + g /\ h + p < READER_OVERFLOW
        /\ prefer_writer => writers.n = w
    BY <1>1, Zenon DEF Counts
  <2>7. readers.n \in Nat /\ readers'.n \in Nat /\ READER_OVERFLOW \in Nat
    BY <1>1, Zenon DEF TypeOK, Bits, Constants
  <2> HIDE DEF h, g, p, w
  <2>8. readers'.n = h' + g'
    BY <2>1, <2>2, <2>3, <2>6, <2>7 DEF ProperCounts, In
  <2>9. h' + p' < READER_OVERFLOW
    BY <2>1, <2>2, <2>3, <2>4, <2>5, <2>6, <2>7, <2>8 DEF ProperCounts, In
  <2>10. prefer_writer => writers'.n = w'
    BY <2>1, <2>6 DEF ProperCounts, In
  <2>11. /\ ~prefer_writer => writers'.n = 0
         /\ writers'.handover => writers'.n > 0
         /\ readers'.rw => ~readers'.wp /\ readers'.wl /\ readers'.n > 0
    BY Zenon DEF ProperCounts, ProperBits
  <2> QED
    BY <1>2, <2>8, <2>9, <2>10, <2>11, Zenon DEF Counts, h, g, p, w
<1> QED
  BY <1>1, <1>3, <1>4, <1>5, Zenon DEF IInv

\* What a thread knows about the lock.
Known(t) ==
  /\ readers.wp \in BOOLEAN /\ readers.wl \in BOOLEAN /\ readers.rw \in BOOLEAN
       /\ readers.n \in Nat
  /\ readers \in Bits
  /\ writers.handover \in BOOLEAN /\ writers.n \in Nat
       /\ writers \in [handover : BOOLEAN, n : Nat]
  /\ pc[t] \in Labels /\ r[t] \in Bits /\ ready[t] \in BOOLEAN /\ reads[t] \in Nat
  /\ apc[t] = Awake(pc[t])
  /\ OK(t)
  /\ t \in writing <=> cur_writer = t
  /\ IsP(t) => readers.wl /\ ~writers.handover /\ \A u \in Threads \ {t} : u \notin writing
  /\ writers.handover => readers.wl /\ writers.n > 0
  /\ ~prefer_writer => writers.n = 0
  /\ prefer_writer /\ apc[t] \in WrRegistered => writers.n > 0
  /\ readers.rw => ~readers.wp /\ readers.wl /\ readers.n > 0
  /\ apc[t] \in RdRegistered \/ reads[t] > 0 => readers.n > 0
  /\ readers.n = 0 => reads[t] = 0
  /\ readers.n = 1 /\ apc[t] \in RdRegistered => reads[t] = 0

\* It follows from the invariant.
LEMMA KnownHolds ==
  ASSUME Constants, IInv, NEW t \in Threads
  PROVE  Known(t)
<1>1. TypeOK /\ OK(t) /\ Primaries /\ Counts
  BY Zenon DEF IInv
<1>2. /\ readers.wp \in BOOLEAN /\ readers.wl \in BOOLEAN /\ readers.rw \in BOOLEAN
           /\ readers.n \in Nat
      /\ readers \in Bits
      /\ writers.handover \in BOOLEAN /\ writers.n \in Nat
           /\ writers \in [handover : BOOLEAN, n : Nat]
      /\ pc[t] \in Labels /\ r[t] \in Bits /\ ready[t] \in BOOLEAN /\ reads[t] \in Nat
  BY <1>1, Zenon DEF TypeOK, Bits
<1>3. apc[t] = Awake(pc[t])
  BY Zenon DEF apc
<1>4. IsP(t) => readers.wl /\ ~writers.handover /\ \A u \in Threads \ {t} : u \notin writing
  BY <1>1, Zenon DEF Primaries, IsP, IsPrimary
<1>5. prefer_writer /\ apc[t] \in WrRegistered => writers.n > 0
  <2>1. Where(WrRegistered) \in SUBSET Threads
          /\ (apc[t] \in WrRegistered => Where(WrRegistered) # {})
    BY Zenon DEF Where
  <2>2. apc[t] \in WrRegistered => Cardinality(Where(WrRegistered)) # 0
    BY <2>1, Zenon DEF Constants, Countable
  <2> QED
    BY <1>1, <1>2, <2>2 DEF Counts
<1> QED
  BY <1>1, <1>2, <1>3, <1>4, <1>5, FewReaders, Zenon DEF Known, Primaries, Counts

\* A step that moves thread t and leaves the others alone.
Alone(t) ==
  /\ flags' = flags
  /\ pc' \in [Threads -> Labels] /\ r' \in [Threads -> Bits] /\ ready' \in [Threads -> BOOLEAN]
  /\ readers' \in Bits /\ writers' \in [handover : BOOLEAN, n : Nat]
  /\ \A u \in Threads \ {t} : pc'[u] = pc[u] /\ r'[u] = r[u] /\ ready'[u] = ready[u]
  /\ \/ reads' = reads
     \/ reads' = [reads EXCEPT ![t] = @ + 1]
     \/ reads[t] > 0 /\ reads' = [reads EXCEPT ![t] = @ - 1]
  /\ \/ UNCHANGED <<writing, cur_writer>>
     \/ writing' = writing \ {t} /\ cur_writer' = NoThread /\ cur_writer = t
     \/ writing' = writing \cup {t} /\ cur_writer' = t
          /\ \A u \in Threads \ {t} : u \notin writing

\* Such a step is one of those of StepOfOne.
LEMMA AloneMoves ==
  ASSUME Constants, IInv, NEW t \in Threads, Alone(t)
  PROVE  Moves(t, apc'[t])
<1>1. TypeOK /\ Primaries
  BY Zenon DEF IInv
<1>2. TypeOK'
  <2>1. reads' \in [Threads -> Nat]
    BY <1>1 DEF Alone, TypeOK
  <2> QED
    BY <1>1, <2>1, Zenon DEF Alone, TypeOK
<1>3. apc' = [apc EXCEPT ![t] = apc'[t]]
  BY <1>1, Zenon DEF apc, Alone, TypeOK
<1>4. \A u \in Threads \ {t} : ready'[u] = ready[u] /\ r'[u] = r[u]
  BY <1>1, Zenon DEF Alone, TypeOK
<1>5. /\ \A u \in Threads \ {t} : u \in writing' <=> u \in writing
      /\ \A u \in Threads : u \in writing' <=> cur_writer' = u
  BY <1>1, Zenon DEF Alone, Primaries, Constants
<1> QED
  BY <1>2, <1>3, <1>4, <1>5, Zenon DEF Alone, Moves

\* The local r of a call that has not read __readers is well formed.
LEMMA UnlockedBits == Unlocked \in Bits /\ ~Unlocked.wp
  BY DEF Unlocked, Bits

\* Where t is after a step.
LEMMA Here ==
  ASSUME NEW t \in Threads
  PROVE  apc'[t] = Awake(pc'[t])
  BY DEF apc

WBits == [handover : BOOLEAN, n : Nat]

\* What __writers can be set to.
LEMMA WriterBits ==
  /\ NoWriters \in WBits
  /\ \A v \in BOOLEAN, m \in Nat : [handover |-> v, n |-> m] \in WBits
<1>1. 0 \in Nat
  OBVIOUS
<1> QED
  BY <1>1, Zenon DEF NoWriters, WBits

\* A step that moves the control of t.
LEMMA Goes ==
  ASSUME TypeOK, NEW t \in Threads, NEW l \in Labels, Goto(t, l)
  PROVE  /\ pc' \in [Threads -> Labels] /\ pc'[t] = l
         /\ \A u \in Threads \ {t} : pc'[u] = pc[u]
  BY Zenon DEF TypeOK, Goto

\* The locals of a call that returns.
LEMMA Resets ==
  ASSUME TypeOK, NEW t \in Threads, Reset(t)
  PROVE  /\ r' \in [Threads -> Bits] /\ ~r'[t].wp
         /\ ready' \in [Threads -> BOOLEAN] /\ ~ready'[t]
         /\ \A u \in Threads \ {t} : r'[u] = r[u] /\ ready'[u] = ready[u]
<1>1. r' = [r EXCEPT ![t] = Unlocked] /\ ready' = [ready EXCEPT ![t] = FALSE]
  BY Zenon DEF Reset
<1>2. r \in [Threads -> Bits] /\ ready \in [Threads -> BOOLEAN]
  BY Zenon DEF TypeOK
<1> QED
  BY <1>1, <1>2, UnlockedBits, Zenon

\* The reads after a step of t: as they were, one more or one less.
ReadsMove(t) ==
  \/ reads' = reads
  \/ reads' = [reads EXCEPT ![t] = @ + 1]
  \/ reads[t] > 0 /\ reads' = [reads EXCEPT ![t] = @ - 1]

\* A call of t returns.
LEMMA Returned ==
  ASSUME TypeOK, NEW t \in Threads, Return(t), flags' = flags, readers' \in Bits,
         writers' \in WBits,
         ReadsMove(t), UNCHANGED <<writing, cur_writer>>
  PROVE  Alone(t) /\ pc'[t] = "idle" /\ ~ready'[t] /\ ~r'[t].wp
<1>1. Goto(t, "idle") /\ Reset(t) /\ "idle" \in Labels
  BY Zenon DEF Return, Labels
<1> QED
  BY <1>1, Goes, Resets, Zenon DEF Alone, ReadsMove, WBits

\* A call of t goes on to l.
LEMMA WentOn ==
  ASSUME TypeOK, NEW t \in Threads, NEW l \in Labels, Goto(t, l), UNCHANGED <<r, ready>>,
         flags' = flags,
         readers' \in Bits, writers' \in WBits, ReadsMove(t), UNCHANGED <<writing, cur_writer>>
  PROVE  Alone(t) /\ pc'[t] = l /\ ready'[t] = ready[t] /\ r'[t] = r[t]
  BY Goes, Zenon DEF Alone, ReadsMove, WBits, TypeOK

\* What __readers and __writers are after the step.
ReadersAre(wp, wl, rw, n) ==
  readers' \in Bits /\ readers'.wp = wp /\ readers'.wl = wl /\ readers'.rw = rw /\ readers'.n = n
WritersAre(h, n) == writers' \in WBits /\ writers'.handover = h /\ writers'.n = n

\* The step leaves __writers alone,
LEMMA SameWriters ==
  ASSUME TypeOK, writers' = writers
  PROVE  WritersAre(writers.handover, writers.n)
  BY Zenon DEF TypeOK, WritersAre, WBits

\* or __readers.
LEMMA SameReaders ==
  ASSUME TypeOK, readers' = readers
  PROVE  ReadersAre(readers.wp, readers.wl, readers.rw, readers.n)
  BY Zenon DEF TypeOK, ReadersAre

\* The calls between two accesses to __readers or __writers: sets of locations
\* that mean the same to the invariant.
RdEarly == {"rd_prefer", "rd_loadRW", "rd_futexR", "blockedR", "rd_register"}
WrWaiting == {"wr_token", "wr_block", "wr_reload", "wr_try", "wr_futexW", "blockedW"}
WrUnlocking == {"wu_disable", "wu_handOver", "wu_release"}

SameTo(a, l) ==
  \/ a \in RdEarly /\ l \in RdEarly
  \/ a \in RdBlocking /\ l \in RdBlocking
  \/ a \in WrWaiting /\ l \in WrWaiting
  \/ a \in WrBlocking /\ l \in WrBlocking
  \/ a \in WrUnlocking /\ l \in WrUnlocking

\* A step of t that only moves its control, past what it has just read.
Quiet(t) ==
  /\ pc' \in [Threads -> Labels] /\ \A u \in Threads \ {t} : pc'[u] = pc[u]
  /\ UNCHANGED <<flags, readers, writers, cur_writer, r, ready, reads, writing>>
  /\ \/ SameTo(pc[t], pc'[t]) /\ (pc'[t] = "wr_token" => prefer_writer)
     \/ pc[t] \in WrSure \cup WrBlocking /\ pc'[t] \in {"wr_spin", "wr_done"}
          /\ (pc[t] \in WrBlocking => ready[t] \/ readers.wp)
     \/ pc[t] = "idle" /\ cur_writer # t /\ pc'[t] \in {"rd_prefer", "wr_set"}

\* A quiet step preserves the invariant.
LEMMA QuietPreserves ==
  ASSUME Constants, IInv, NEW t \in Threads, Quiet(t)
  PROVE  IInv'
<1>1. Known(t) /\ TypeOK /\ apc'[t] = Awake(pc'[t])
  BY KnownHolds, Here, Zenon DEF IInv
<1>2. Alone(t)
  BY <1>1, Zenon DEF Quiet, Alone, TypeOK
<1>3. UNCHANGED <<flags, readers, writers, reads, writing>> /\ ready'[t] = ready[t]
        /\ r'[t] = r[t]
  BY Zenon DEF Quiet
<1>4. ASSUME pc[t] \in RdEarly /\ pc'[t] \in RdEarly
      PROVE  ProperBits(t, apc'[t]) /\ ProperCounts(t, apc'[t])
  BY <1>1, <1>3, <1>4 DEF RdEarly, Known, OK, ThreadOK, ProperBits, ProperCounts, Awake, Resume,
     Reader, Writer, IsP, IsPrimary, In, Constants, prefer_writer, Labels, RdBlocking, RdPassed,
     RdRegistered, RdOther, WrBlocking, WrSure, WrPrimary, WrRegistered, WrOther, Blocking
<1>5. ASSUME pc[t] \in RdBlocking /\ pc'[t] \in RdBlocking
      PROVE  ProperBits(t, apc'[t]) /\ ProperCounts(t, apc'[t])
  BY <1>1, <1>3, <1>5 DEF Known, OK, ThreadOK, ProperBits, ProperCounts, Awake, Resume, Reader,
     Writer, IsP, IsPrimary, In, Constants, prefer_writer, Labels, RdBlocking, RdPassed,
     RdRegistered, RdOther, WrBlocking, WrSure, WrPrimary, WrRegistered, WrOther, Blocking
<1>6. ASSUME pc[t] \in WrWaiting /\ pc'[t] \in WrWaiting /\ (pc'[t] = "wr_token" => prefer_writer)
      PROVE  ProperBits(t, apc'[t]) /\ ProperCounts(t, apc'[t])
  BY <1>1, <1>3, <1>6 DEF WrWaiting, Known, OK, ThreadOK, ProperBits, ProperCounts, Awake,
     Resume, Reader, Writer, IsP, IsPrimary, In, Constants, prefer_writer, Labels, RdBlocking,
     RdPassed, RdRegistered, RdOther, WrBlocking, WrSure, WrPrimary, WrRegistered, WrOther,
     Blocking
<1>7. ASSUME pc[t] \in WrBlocking /\ pc'[t] \in WrBlocking
      PROVE  ProperBits(t, apc'[t]) /\ ProperCounts(t, apc'[t])
  BY <1>1, <1>3, <1>7 DEF Known, OK, ThreadOK, ProperBits, ProperCounts, Awake, Resume, Reader,
     Writer, IsP, IsPrimary, In, Constants, prefer_writer, Labels, RdBlocking, RdPassed,
     RdRegistered, RdOther, WrBlocking, WrSure, WrPrimary, WrRegistered, WrOther, Blocking
<1>8. ASSUME pc[t] \in WrUnlocking /\ pc'[t] \in WrUnlocking
      PROVE  ProperBits(t, apc'[t]) /\ ProperCounts(t, apc'[t])
  BY <1>1, <1>3, <1>8 DEF WrUnlocking, Known, OK, ThreadOK, ProperBits, ProperCounts, Awake,
     Resume, Reader, Writer, IsP, IsPrimary, In, Constants, prefer_writer, Labels, RdBlocking,
     RdPassed, RdRegistered, RdOther, WrBlocking, WrSure, WrPrimary, WrRegistered, WrOther,
     Blocking
<1>9. ASSUME pc[t] \in WrSure \cup WrBlocking, pc'[t] \in {"wr_spin", "wr_done"},
             pc[t] \in WrBlocking => ready[t] \/ readers.wp
      PROVE  ProperBits(t, apc'[t]) /\ ProperCounts(t, apc'[t])
  <2>1. readers.wp /\ IsP(t) /\ ~(reads[t] > 0) /\ t \notin writing
    BY <1>1, <1>9 DEF Known, OK, ThreadOK, Awake, Resume, Reader, Writer, IsP, IsPrimary,
       Labels, RdBlocking, RdPassed, RdRegistered, RdOther, WrBlocking, WrSure, WrPrimary,
       WrRegistered, WrOther, Blocking
  <2>2. ProperBits(t, apc'[t])
    BY <1>1, <1>3, <1>9, <2>1 DEF Known, ThreadOK, ProperBits, Awake, Reader, Writer, IsPrimary,
       Labels, RdBlocking, RdPassed, RdRegistered, RdOther, WrBlocking, WrSure, WrPrimary,
       WrRegistered, WrOther, Blocking
  <2>3. ProperCounts(t, apc'[t])
    BY <1>1, <1>3, <1>9 DEF Known, ProperCounts, Awake, Resume, In, Constants, Labels,
       RdBlocking, RdPassed, RdRegistered, RdOther, WrBlocking, WrSure, WrPrimary, WrRegistered,
       WrOther, Blocking
  <2> QED
    BY <2>2, <2>3
<1>10. ASSUME pc[t] = "idle" /\ cur_writer # t /\ pc'[t] \in {"rd_prefer", "wr_set"}
      PROVE  ProperBits(t, apc'[t]) /\ ProperCounts(t, apc'[t])
  BY <1>1, <1>3, <1>10 DEF Known, OK, ThreadOK, ProperBits, ProperCounts, Awake, Resume, Reader,
     Writer, IsP, IsPrimary, In, Constants, prefer_writer, Labels, RdBlocking, RdPassed,
     RdRegistered, RdOther, WrBlocking, WrSure, WrPrimary, WrRegistered, WrOther, Blocking
<1>11. ProperBits(t, apc'[t]) /\ ProperCounts(t, apc'[t])
  BY <1>4, <1>5, <1>6, <1>7, <1>8, <1>9, <1>10, Zenon DEF Quiet, SameTo
<1> QED
  BY <1>2, <1>11, AloneMoves, StepOfOne, Zenon

\* The steps that are quiet.
LEMMA QuietSteps ==
  ASSUME Constants, IInv, NEW t \in Threads,
         \/ RdLock(t) \/ RdFutexR(t) \/ RdFutexP(t) \/ RdTimeout(t) \/ WrLock(t) \/ WrReload(t)
              \/ WrBlock(t) \/ WrFutexW(t) \/ WrPhase(t) \/ WrWpf(t) \/ WrFutexP(t)
              \/ WrTimeoutP(t) \/ WrOthers(t) \/ WrDisable(t) \/ WrRestore(t) \/ WrGiveUp(t)
              \/ WrSpin(t) \/ WuDisable(t)
  PROVE  IInv'
<1> TypeOK
  BY Zenon DEF IInv
<1>1. ASSUME RdLock(t) PROVE Quiet(t)
  BY <1>1 DEF RdLock, Quiet, SameTo, TypeOK, Goto, RdEarly, WrWaiting, WrUnlocking, attr, lock,
     locals, owners, Labels, RdBlocking, RdPassed, RdRegistered, RdOther, WrBlocking, WrSure,
     WrPrimary, WrRegistered, WrOther, Blocking
<1>2. ASSUME RdFutexR(t) PROVE Quiet(t)
  BY <1>2 DEF RdFutexR, Quiet, SameTo, TypeOK, Goto, RdEarly, WrWaiting, WrUnlocking, attr,
     lock, locals, owners, Labels, RdBlocking, RdPassed, RdRegistered, RdOther, WrBlocking,
     WrSure, WrPrimary, WrRegistered, WrOther, Blocking
<1>3. ASSUME RdFutexP(t) PROVE Quiet(t)
  BY <1>3 DEF RdFutexP, Quiet, SameTo, TypeOK, Goto, RdEarly, WrWaiting, WrUnlocking, attr,
     lock, locals, owners, Labels, RdBlocking, RdPassed, RdRegistered, RdOther, WrBlocking,
     WrSure, WrPrimary, WrRegistered, WrOther, Blocking
<1>4. ASSUME RdTimeout(t) PROVE Quiet(t)
  BY <1>4 DEF RdTimeout, Quiet, SameTo, TypeOK, Goto, RdEarly, WrWaiting, WrUnlocking, attr,
     lock, locals, owners, Labels, RdBlocking, RdPassed, RdRegistered, RdOther, WrBlocking,
     WrSure, WrPrimary, WrRegistered, WrOther, Blocking
<1>5. ASSUME WrLock(t) PROVE Quiet(t)
  BY <1>5 DEF WrLock, Quiet, SameTo, TypeOK, Goto, RdEarly, WrWaiting, WrUnlocking, attr, lock,
     locals, owners, Labels, RdBlocking, RdPassed, RdRegistered, RdOther, WrBlocking, WrSure,
     WrPrimary, WrRegistered, WrOther, Blocking
<1>6. ASSUME WrReload(t) PROVE Quiet(t)
  BY <1>6 DEF WrReload, Quiet, SameTo, TypeOK, Goto, RdEarly, WrWaiting, WrUnlocking, attr,
     lock, locals, owners, Labels, RdBlocking, RdPassed, RdRegistered, RdOther, WrBlocking,
     WrSure, WrPrimary, WrRegistered, WrOther, Blocking
<1>7. ASSUME WrBlock(t) PROVE Quiet(t)
  BY <1>7 DEF WrBlock, Quiet, SameTo, TypeOK, Goto, RdEarly, WrWaiting, WrUnlocking, attr, lock,
     locals, owners, Labels, RdBlocking, RdPassed, RdRegistered, RdOther, WrBlocking, WrSure,
     WrPrimary, WrRegistered, WrOther, Blocking
<1>8. ASSUME WrFutexW(t) PROVE Quiet(t)
  BY <1>8 DEF WrFutexW, Quiet, SameTo, TypeOK, Goto, RdEarly, WrWaiting, WrUnlocking, attr,
     lock, locals, owners, Labels, RdBlocking, RdPassed, RdRegistered, RdOther, WrBlocking,
     WrSure, WrPrimary, WrRegistered, WrOther, Blocking
<1>9. ASSUME WrPhase(t) PROVE Quiet(t)
  BY <1>9 DEF WrPhase, Quiet, SameTo, TypeOK, Goto, RdEarly, WrWaiting, WrUnlocking, attr, lock,
     locals, owners, Labels, RdBlocking, RdPassed, RdRegistered, RdOther, WrBlocking, WrSure,
     WrPrimary, WrRegistered, WrOther, Blocking
<1>10. ASSUME WrWpf(t) PROVE Quiet(t)
  BY <1>10 DEF WrWpf, Quiet, SameTo, TypeOK, Goto, RdEarly, WrWaiting, WrUnlocking, attr, lock,
     locals, owners, Labels, RdBlocking, RdPassed, RdRegistered, RdOther, WrBlocking, WrSure,
     WrPrimary, WrRegistered, WrOther, Blocking
<1>11. ASSUME WrFutexP(t) PROVE Quiet(t)
  BY <1>11 DEF WrFutexP, Quiet, SameTo, TypeOK, Goto, RdEarly, WrWaiting, WrUnlocking, attr,
     lock, locals, owners, Labels, RdBlocking, RdPassed, RdRegistered, RdOther, WrBlocking,
     WrSure, WrPrimary, WrRegistered, WrOther, Blocking
<1>12. ASSUME WrTimeoutP(t) PROVE Quiet(t)
  BY <1>12 DEF WrTimeoutP, Quiet, SameTo, TypeOK, Goto, RdEarly, WrWaiting, WrUnlocking, attr,
     lock, locals, owners, Labels, RdBlocking, RdPassed, RdRegistered, RdOther, WrBlocking,
     WrSure, WrPrimary, WrRegistered, WrOther, Blocking
<1>13. ASSUME WrOthers(t) PROVE Quiet(t)
  BY <1>13 DEF WrOthers, Quiet, SameTo, TypeOK, Goto, RdEarly, WrWaiting, WrUnlocking, attr,
     lock, locals, owners, Labels, RdBlocking, RdPassed, RdRegistered, RdOther, WrBlocking,
     WrSure, WrPrimary, WrRegistered, WrOther, Blocking
<1>14. ASSUME WrDisable(t) PROVE Quiet(t)
  BY <1>14 DEF WrDisable, Quiet, SameTo, TypeOK, Goto, RdEarly, WrWaiting, WrUnlocking, attr,
     lock, locals, owners, Labels, RdBlocking, RdPassed, RdRegistered, RdOther, WrBlocking,
     WrSure, WrPrimary, WrRegistered, WrOther, Blocking
<1>15. ASSUME WrRestore(t) PROVE Quiet(t)
  BY <1>15 DEF WrRestore, Quiet, SameTo, TypeOK, Goto, RdEarly, WrWaiting, WrUnlocking, attr,
     lock, locals, owners, Labels, RdBlocking, RdPassed, RdRegistered, RdOther, WrBlocking,
     WrSure, WrPrimary, WrRegistered, WrOther, Blocking
<1>16. ASSUME WrGiveUp(t) PROVE Quiet(t)
  BY <1>16 DEF WrGiveUp, Quiet, SameTo, TypeOK, Goto, RdEarly, WrWaiting, WrUnlocking, attr,
     lock, locals, owners, Labels, RdBlocking, RdPassed, RdRegistered, RdOther, WrBlocking,
     WrSure, WrPrimary, WrRegistered, WrOther, Blocking
<1>17. ASSUME WrSpin(t) PROVE Quiet(t)
  BY <1>17 DEF WrSpin, Quiet, SameTo, TypeOK, Goto, RdEarly, WrWaiting, WrUnlocking, attr, lock,
     locals, owners, Labels, RdBlocking, RdPassed, RdRegistered, RdOther, WrBlocking, WrSure,
     WrPrimary, WrRegistered, WrOther, Blocking
<1>18. ASSUME WuDisable(t) PROVE Quiet(t)
  BY <1>18 DEF WuDisable, Quiet, SameTo, TypeOK, Goto, RdEarly, WrWaiting, WrUnlocking, attr,
     lock, locals, owners, Labels, RdBlocking, RdPassed, RdRegistered, RdOther, WrBlocking,
     WrSure, WrPrimary, WrRegistered, WrOther, Blocking
<1> QED
  BY <1>1, <1>2, <1>3, <1>4, <1>5, <1>6, <1>7, <1>8, <1>9, <1>10, <1>11, <1>12, <1>13, <1>14,
     <1>15, <1>16, <1>17, <1>18, QuietPreserves, Zenon

\* The fetch-and-add on __readers.
LEMMA RdRegisterPreserves ==
  ASSUME Constants, IInv, NEW t \in Threads, RdRegister(t)
  PROVE  IInv'
<1>1. Known(t) /\ TypeOK /\ apc'[t] = Awake(pc'[t])
  BY KnownHolds, Here, Zenon DEF IInv
<1>2. readers.n + 1 \in Nat
  BY <1>1 DEF Known
<1>3. ReadersAre(readers.wp, readers.wl, readers.rw, readers.n + 1)
        /\ WritersAre(writers.handover, writers.n)
  <2>1. readers' = [readers EXCEPT !.n = readers.n + 1] /\ writers' = writers /\ readers \in Bits
    BY <1>1, Zenon DEF RdRegister, Known
  <2> QED
    BY <1>1, <1>2, <2>1, SameWriters, Zenon DEF ReadersAre, Bits
<1>4. flags' = flags /\ cur_writer' = cur_writer /\ pc[t] = "rd_register"
  BY Zenon DEF RdRegister, attr
<1>5. CASE ~Overflow(readers.n + 1) /\ ~readers.wp
  <2>1. Return(t) /\ reads' = [reads EXCEPT ![t] = @ + 1] /\ writing' = writing
    BY <1>5, Zenon DEF RdRegister, Acquired, HasRead
  <2>2. Alone(t) /\ pc'[t] = "idle" /\ ~ready'[t] /\ ~r'[t].wp
    BY <1>1, <1>3, <1>4, <2>1, Returned, Zenon DEF ReadsMove, ReadersAre, WritersAre
  <2>3. reads'[t] = reads[t] + 1
    BY <1>1, <2>1 DEF TypeOK
  <2>4. ProperBits(t, apc'[t]) /\ ProperCounts(t, apc'[t])
    BY <1>1, <1>3, <1>4, <1>5, <2>1, <2>2, <2>3 DEF Known, ReadersAre, WritersAre, OK, ThreadOK,
       ProperBits, ProperCounts, Awake, Reader, Writer, IsP, IsPrimary, In, Constants,
       prefer_writer, Overflow, Labels, RdBlocking, RdPassed, RdRegistered, RdOther, WrBlocking,
       WrSure, WrPrimary, WrRegistered, WrOther, Blocking
  <2> QED
    BY <2>2, <2>4, AloneMoves, StepOfOne, Zenon
<1>6. CASE Overflow(readers.n + 1) \/ readers.wp
  <2> DEFINE l == IF Overflow(readers.n + 1) THEN "rd_overflow"
                  ELSE IF readers.wl THEN "rd_wpf" ELSE "rd_start"
  <2>1. Goto(t, l) /\ UNCHANGED <<r, ready, reads, writing>> /\ l \in Labels
    BY <1>6, Zenon DEF RdRegister, locals, owners, Labels, RdRegistered, RdPassed, RdBlocking
  <2>2. Alone(t) /\ pc'[t] = l /\ ready'[t] = ready[t] /\ r'[t] = r[t]
    <3> HIDE DEF l
    <3> QED
      BY <1>1, <1>3, <1>4, <2>1, WentOn, Zenon DEF ReadsMove, ReadersAre, WritersAre
  <2>4. ProperBits(t, apc'[t]) /\ ProperCounts(t, apc'[t])
    BY <1>1, <1>3, <1>4, <1>6, <2>1, <2>2 DEF Known, ReadersAre, WritersAre, OK, ThreadOK,
       ProperBits, ProperCounts, Awake, Resume, Reader, Writer, IsP, IsPrimary, In, Constants,
       prefer_writer, Overflow, Labels, RdBlocking, RdPassed, RdRegistered, RdOther, WrBlocking,
       WrSure, WrPrimary, WrRegistered, WrOther, Blocking
  <2> QED
    BY <2>2, <2>4, AloneMoves, StepOfOne, Zenon
<1> QED
  BY <1>5, <1>6, Zenon

\* The reader that found too many of them.
LEMMA RdOverflowPreserves ==
  ASSUME Constants, IInv, NEW t \in Threads, RdOverflow(t)
  PROVE  IInv'
<1>1. Known(t) /\ TypeOK /\ apc'[t] = Awake(pc'[t])
  BY KnownHolds, Here, Zenon DEF IInv
<1>2. flags' = flags /\ cur_writer' = cur_writer /\ pc[t] = "rd_overflow"
  BY Zenon DEF RdOverflow, attr, owners
<1>3. CASE Overflow(readers.n)
  <2>1. ReadersAre(readers.wp, readers.wl, readers.rw, readers.n - 1)
          /\ WritersAre(writers.handover, writers.n)
    <3>1. readers.n - 1 \in Nat /\ readers \in Bits
      BY <1>1, <1>2, <1>3 DEF Known, Awake, Labels, RdBlocking, RdPassed, RdRegistered, RdOther,
         WrBlocking, WrSure, WrPrimary, WrRegistered, WrOther, Blocking
    <3>2. readers' = [readers EXCEPT !.n = readers.n - 1] /\ writers' = writers
      BY <1>2, <1>3, Zenon DEF RdOverflow
    <3> QED
      BY <1>1, <3>1, <3>2, SameWriters, Zenon DEF ReadersAre, Bits
  <2>2. Return(t) /\ UNCHANGED <<reads, writing>>
    BY <1>2, <1>3, Zenon DEF RdOverflow, owners
  <2>3. Alone(t) /\ pc'[t] = "idle" /\ ~ready'[t] /\ ~r'[t].wp
    BY <1>1, <1>2, <2>1, <2>2, Returned, Zenon DEF ReadsMove, ReadersAre, WritersAre
  <2>4. reads'[t] = reads[t]
    BY <2>2, Zenon
  <2>5. ProperBits(t, apc'[t]) /\ ProperCounts(t, apc'[t])
    BY <1>1, <1>2, <1>3, <2>1, <2>2, <2>3, <2>4 DEF Known, ReadersAre, WritersAre, OK, ThreadOK,
       ProperBits, ProperCounts, Awake, Resume, Reader, Writer, IsP, IsPrimary, In, Constants,
       prefer_writer, Overflow, Labels, RdBlocking, RdPassed, RdRegistered, RdOther, WrBlocking,
       WrSure, WrPrimary, WrRegistered, WrOther, Blocking
  <2> QED
    BY <2>3, <2>5, AloneMoves, StepOfOne, Zenon
<1>4. CASE ~Overflow(readers.n) /\ ~readers.wp
  <2>1. ReadersAre(readers.wp, readers.wl, readers.rw, readers.n)
          /\ WritersAre(writers.handover, writers.n)
    <3>1. readers' = readers /\ writers' = writers
      BY <1>2, <1>4, Zenon DEF RdOverflow
    <3> QED
      BY <1>1, <3>1, SameReaders, SameWriters, Zenon
  <2>2. Return(t) /\ reads' = [reads EXCEPT ![t] = @ + 1] /\ writing' = writing
    BY <1>2, <1>4, Zenon DEF RdOverflow, owners, Acquired, HasRead
  <2>3. Alone(t) /\ pc'[t] = "idle" /\ ~ready'[t] /\ ~r'[t].wp
    BY <1>1, <1>2, <2>1, <2>2, Returned, Zenon DEF ReadsMove, ReadersAre, WritersAre
  <2>4. reads'[t] = reads[t] + 1
    BY <1>1, <2>2 DEF TypeOK
  <2>5. ProperBits(t, apc'[t]) /\ ProperCounts(t, apc'[t])
    BY <1>1, <1>2, <1>4, <2>1, <2>2, <2>3, <2>4 DEF Known, ReadersAre, WritersAre, OK, ThreadOK,
       ProperBits, ProperCounts, Awake, Resume, Reader, Writer, IsP, IsPrimary, In, Constants,
       prefer_writer, Overflow, Labels, RdBlocking, RdPassed, RdRegistered, RdOther, WrBlocking,
       WrSure, WrPrimary, WrRegistered, WrOther, Blocking
  <2> QED
    BY <2>3, <2>5, AloneMoves, StepOfOne, Zenon
<1>5. CASE ~Overflow(readers.n) /\ readers.wp
  <2> DEFINE l == IF readers.wl THEN "rd_wpf" ELSE "rd_start"
  <2>1. ReadersAre(readers.wp, readers.wl, readers.rw, readers.n)
          /\ WritersAre(writers.handover, writers.n)
    <3>1. readers' = readers /\ writers' = writers
      BY <1>2, <1>5, Zenon DEF RdOverflow
    <3> QED
      BY <1>1, <3>1, SameReaders, SameWriters, Zenon
  <2>2. Goto(t, l) /\ UNCHANGED <<r, ready, reads, writing>> /\ l \in Labels
    BY <1>2, <1>5, Zenon DEF RdOverflow, locals, owners, Labels, RdBlocking, RdPassed,
       RdRegistered, RdOther, WrBlocking, WrSure, WrPrimary, WrRegistered, WrOther, Blocking
  <2>3. Alone(t) /\ pc'[t] = l /\ ready'[t] = ready[t] /\ r'[t] = r[t]
    <3> HIDE DEF l
    <3> QED
      BY <1>1, <1>2, <2>1, <2>2, WentOn, Zenon DEF ReadsMove, ReadersAre, WritersAre
  <2>5. ProperBits(t, apc'[t]) /\ ProperCounts(t, apc'[t])
    BY <1>1, <1>2, <1>5, <2>1, <2>2, <2>3 DEF Known, ReadersAre, WritersAre, OK, ThreadOK,
       ProperBits, ProperCounts, Awake, Resume, Reader, Writer, IsP, IsPrimary, In, Constants,
       prefer_writer, Overflow, Labels, RdBlocking, RdPassed, RdRegistered, RdOther, WrBlocking,
       WrSure, WrPrimary, WrRegistered, WrOther, Blocking
  <2> QED
    BY <2>3, <2>5, AloneMoves, StepOfOne, Zenon
<1> QED
  BY <1>3, <1>4, <1>5, Zenon

\* A timed read lock call gives up, unless its phase has begun.
LEMMA RdUnregisterPreserves ==
  ASSUME Constants, IInv, NEW t \in Threads, RdUnregister(t)
  PROVE  IInv'
<1>1. Known(t) /\ TypeOK /\ apc'[t] = Awake(pc'[t])
  BY KnownHolds, Here, Zenon DEF IInv
<1>2. flags' = flags /\ cur_writer' = cur_writer /\ pc[t] = "rd_timeout"
  BY Zenon DEF RdUnregister, attr, owners
<1>3. CASE readers.wp
  <2>1. ReadersAre(readers.wp, readers.wl, readers.rw, readers.n - 1)
          /\ WritersAre(writers.handover, writers.n)
    <3>1. readers.n - 1 \in Nat /\ readers \in Bits
      BY <1>1, <1>2, <1>3 DEF Known, Awake, Labels, RdBlocking, RdPassed, RdRegistered, RdOther,
         WrBlocking, WrSure, WrPrimary, WrRegistered, WrOther, Blocking
    <3>2. readers' = [readers EXCEPT !.n = readers.n - 1] /\ writers' = writers
      BY <1>2, <1>3, Zenon DEF RdUnregister
    <3> QED
      BY <1>1, <3>1, <3>2, SameWriters, Zenon DEF ReadersAre, Bits
  <2>2. Return(t) /\ UNCHANGED <<reads, writing>>
    BY <1>2, <1>3, Zenon DEF RdUnregister, owners
  <2>3. Alone(t) /\ pc'[t] = "idle" /\ ~ready'[t] /\ ~r'[t].wp
    BY <1>1, <1>2, <2>1, <2>2, Returned, Zenon DEF ReadsMove, ReadersAre, WritersAre
  <2>4. reads'[t] = reads[t]
    BY <2>2, Zenon
  <2>5. ProperBits(t, apc'[t]) /\ ProperCounts(t, apc'[t])
    BY <1>1, <1>2, <1>3, <2>1, <2>2, <2>3, <2>4 DEF Known, ReadersAre, WritersAre, OK, ThreadOK,
       ProperBits, ProperCounts, Awake, Resume, Reader, Writer, IsP, IsPrimary, In, Constants,
       prefer_writer, Overflow, Labels, RdBlocking, RdPassed, RdRegistered, RdOther, WrBlocking,
       WrSure, WrPrimary, WrRegistered, WrOther, Blocking
  <2> QED
    BY <2>3, <2>5, AloneMoves, StepOfOne, Zenon
<1>4. CASE ~readers.wp
  <2> DEFINE l == "rd_spin"
  <2>1. ReadersAre(readers.wp, readers.wl, readers.rw, readers.n)
          /\ WritersAre(writers.handover, writers.n)
    <3>1. readers' = readers /\ writers' = writers
      BY <1>2, <1>4, Zenon DEF RdUnregister
    <3> QED
      BY <1>1, <3>1, SameReaders, SameWriters, Zenon
  <2>2. Goto(t, l) /\ UNCHANGED <<r, ready, reads, writing>> /\ l \in Labels
    BY <1>2, <1>4, Zenon DEF RdUnregister, locals, owners, Labels, RdBlocking, RdPassed,
       RdRegistered, RdOther, WrBlocking, WrSure, WrPrimary, WrRegistered, WrOther, Blocking
  <2>3. Alone(t) /\ pc'[t] = l /\ ready'[t] = ready[t] /\ r'[t] = r[t]
    <3> HIDE DEF l
    <3> QED
      BY <1>1, <1>2, <2>1, <2>2, WentOn, Zenon DEF ReadsMove, ReadersAre, WritersAre
  <2>5. ProperBits(t, apc'[t]) /\ ProperCounts(t, apc'[t])
    BY <1>1, <1>2, <1>4, <2>1, <2>2, <2>3 DEF Known, ReadersAre, WritersAre, OK, ThreadOK,
       ProperBits, ProperCounts, Awake, Resume, Reader, Writer, IsP, IsPrimary, In, Constants,
       prefer_writer, Overflow, Labels, RdBlocking, RdPassed, RdRegistered, RdOther, WrBlocking,
       WrSure, WrPrimary, WrRegistered, WrOther, Blocking
  <2> QED
    BY <2>3, <2>5, AloneMoves, StepOfOne, Zenon
<1> QED
  BY <1>3, <1>4, Zenon

\* A writer takes over WRLOCKED.
LEMMA WrTokenPreserves ==
  ASSUME Constants, IInv, NEW t \in Threads, WrToken(t)
  PROVE  IInv'
<1>1. Known(t) /\ TypeOK /\ apc'[t] = Awake(pc'[t])
  BY KnownHolds, Here, Zenon DEF IInv
<1>2. flags' = flags /\ cur_writer' = cur_writer /\ pc[t] = "wr_token"
  BY Zenon DEF WrToken, attr, owners
<1>3. CASE writers.handover
  <2> DEFINE l == "wr_inherit"
  <2>1. ReadersAre(readers.wp, readers.wl, readers.rw, readers.n)
          /\ WritersAre(FALSE, writers.n - 1)
    <3>1. writers.n - 1 \in Nat
      BY <1>1, <1>3 DEF Known
    <3>2. writers' = [handover |-> FALSE, n |-> writers.n - 1] /\ readers' = readers
      BY <1>3, Zenon DEF WrToken
    <3> QED
      BY <1>1, <3>1, <3>2, WriterBits, SameReaders, Zenon DEF WritersAre
  <2>2. Goto(t, l) /\ UNCHANGED <<r, ready, reads, writing>> /\ l \in Labels
    BY <1>2, <1>3, Zenon DEF WrToken, locals, owners, Labels, RdBlocking, RdPassed,
       RdRegistered, RdOther, WrBlocking, WrSure, WrPrimary, WrRegistered, WrOther, Blocking
  <2>3. Alone(t) /\ pc'[t] = l /\ ready'[t] = ready[t] /\ r'[t] = r[t]
    <3> HIDE DEF l
    <3> QED
      BY <1>1, <1>2, <2>1, <2>2, WentOn, Zenon DEF ReadsMove, ReadersAre, WritersAre
  <2>5. ProperBits(t, apc'[t]) /\ ProperCounts(t, apc'[t])
    BY <1>1, <1>2, <1>3, <2>1, <2>2, <2>3 DEF Known, ReadersAre, WritersAre, OK, ThreadOK,
       ProperBits, ProperCounts, Awake, Resume, Reader, Writer, IsP, IsPrimary, In, Constants,
       prefer_writer, Overflow, Labels, RdBlocking, RdPassed, RdRegistered, RdOther, WrBlocking,
       WrSure, WrPrimary, WrRegistered, WrOther, Blocking
  <2> QED
    BY <2>3, <2>5, AloneMoves, StepOfOne, Zenon
<1>4. CASE ~writers.handover
  <2> DEFINE l == "wr_block"
  <2>1. ReadersAre(readers.wp, readers.wl, readers.rw, readers.n)
          /\ WritersAre(writers.handover, writers.n)
    <3>1. readers' = readers /\ writers' = writers
      BY <1>2, <1>4, Zenon DEF WrToken
    <3> QED
      BY <1>1, <3>1, SameReaders, SameWriters, Zenon
  <2>2. Goto(t, l) /\ UNCHANGED <<r, ready, reads, writing>> /\ l \in Labels
    BY <1>2, <1>4, Zenon DEF WrToken, locals, owners, Labels, RdBlocking, RdPassed,
       RdRegistered, RdOther, WrBlocking, WrSure, WrPrimary, WrRegistered, WrOther, Blocking
  <2>3. Alone(t) /\ pc'[t] = l /\ ready'[t] = ready[t] /\ r'[t] = r[t]
    <3> HIDE DEF l
    <3> QED
      BY <1>1, <1>2, <2>1, <2>2, WentOn, Zenon DEF ReadsMove, ReadersAre, WritersAre
  <2>5. ProperBits(t, apc'[t]) /\ ProperCounts(t, apc'[t])
    BY <1>1, <1>2, <1>4, <2>1, <2>2, <2>3 DEF Known, ReadersAre, WritersAre, OK, ThreadOK,
       ProperBits, ProperCounts, Awake, Resume, Reader, Writer, IsP, IsPrimary, In, Constants,
       prefer_writer, Overflow, Labels, RdBlocking, RdPassed, RdRegistered, RdOther, WrBlocking,
       WrSure, WrPrimary, WrRegistered, WrOther, Blocking
  <2> QED
    BY <2>3, <2>5, AloneMoves, StepOfOne, Zenon
<1> QED
  BY <1>3, <1>4, Zenon

\* A writer stops waiting to become the primary one.
LEMMA WrTimeoutWPreserves ==
  ASSUME Constants, IInv, NEW t \in Threads, WrTimeoutW(t)
  PROVE  IInv'
<1>1. Known(t) /\ TypeOK /\ apc'[t] = Awake(pc'[t])
  BY KnownHolds, Here, Zenon DEF IInv
<1>2. flags' = flags /\ cur_writer' = cur_writer /\ pc[t] = "wr_timeoutW"
        /\ UNCHANGED <<reads, writing>>
  BY Zenon DEF WrTimeoutW, attr, owners
<1>3. CASE MustTakeOver(writers)
  <2> DEFINE l == "wr_inherit"
  <2>1. ReadersAre(readers.wp, readers.wl, readers.rw, readers.n) /\ WritersAre(FALSE, 0)
          /\ writers.handover /\ writers.n = 1
    <3>1. writers' = NoWriters /\ readers' = readers /\ writers = [handover |-> TRUE, n |-> 1]
      BY <1>3, Zenon DEF WrTimeoutW, MustTakeOver
    <3>2. NoWriters.handover = FALSE /\ NoWriters.n = 0 /\ writers.handover = TRUE
            /\ writers.n = 1
      BY <3>1, Zenon DEF NoWriters
    <3> QED
      BY <1>1, <3>1, <3>2, WriterBits, SameReaders, Zenon DEF WritersAre
  <2>2. Goto(t, l) /\ UNCHANGED <<r, ready, reads, writing>> /\ l \in Labels
    BY <1>2, <1>3, Zenon DEF WrTimeoutW, locals, owners, Labels, RdBlocking, RdPassed,
       RdRegistered, RdOther, WrBlocking, WrSure, WrPrimary, WrRegistered, WrOther, Blocking
  <2>3. Alone(t) /\ pc'[t] = l /\ ready'[t] = ready[t] /\ r'[t] = r[t]
    <3> HIDE DEF l
    <3> QED
      BY <1>1, <1>2, <2>1, <2>2, WentOn, Zenon DEF ReadsMove, ReadersAre, WritersAre
  <2>5. ProperBits(t, apc'[t]) /\ ProperCounts(t, apc'[t])
    BY <1>1, <1>2, <1>3, <2>1, <2>2, <2>3 DEF Known, ReadersAre, WritersAre, OK, ThreadOK,
       ProperBits, ProperCounts, Awake, Resume, Reader, Writer, IsP, IsPrimary, In, Constants,
       prefer_writer, Overflow, Labels, RdBlocking, RdPassed, RdRegistered, RdOther, WrBlocking,
       WrSure, WrPrimary, WrRegistered, WrOther, Blocking
  <2> QED
    BY <2>3, <2>5, AloneMoves, StepOfOne, Zenon
<1>4. CASE ~MustTakeOver(writers)
  <2>1. ReadersAre(readers.wp, readers.wl, readers.rw, readers.n)
          /\ WritersAre(writers.handover, writers.n - 1) /\ ~(writers.handover /\ writers.n = 1)
    <3>1. writers.n - 1 \in Nat
      BY <1>1, <1>2 DEF Known, OK, ThreadOK, Awake, Labels, RdBlocking, RdPassed, RdRegistered,
         RdOther, WrBlocking, WrSure, WrPrimary, WrRegistered, WrOther, Blocking
    <3>2. writers' = [writers EXCEPT !.n = writers.n - 1] /\ readers' = readers
            /\ writers \in WBits
      BY <1>1, <1>4, Zenon DEF WrTimeoutW, Unregistered, Known, WBits
    <3>3. writers' \in WBits /\ writers'.handover = writers.handover /\ writers'.n = writers.n - 1
      BY <3>1, <3>2, Zenon DEF WBits
    <3>4. writers.handover /\ writers.n = 1 => writers = [handover |-> TRUE, n |-> 1]
      BY <3>2 DEF WBits
    <3> QED
      BY <1>1, <1>4, <3>2, <3>3, <3>4, SameReaders, Zenon DEF WritersAre, MustTakeOver
  <2>2. Return(t) /\ UNCHANGED <<reads, writing>>
    BY <1>2, <1>4, Zenon DEF WrTimeoutW, owners
  <2>3. Alone(t) /\ pc'[t] = "idle" /\ ~ready'[t] /\ ~r'[t].wp
    BY <1>1, <1>2, <2>1, <2>2, Returned, Zenon DEF ReadsMove, ReadersAre, WritersAre
  <2>4. reads'[t] = reads[t]
    BY <2>2, Zenon
  <2>5. ProperBits(t, apc'[t]) /\ ProperCounts(t, apc'[t])
    BY <1>1, <1>2, <1>4, <2>1, <2>2, <2>3, <2>4 DEF Known, ReadersAre, WritersAre, OK, ThreadOK,
       ProperBits, ProperCounts, Awake, Resume, Reader, Writer, IsP, IsPrimary, In, Constants,
       prefer_writer, Overflow, Labels, RdBlocking, RdPassed, RdRegistered, RdOther, WrBlocking,
       WrSure, WrPrimary, WrRegistered, WrOther, Blocking
  <2> QED
    BY <2>3, <2>5, AloneMoves, StepOfOne, Zenon
<1> QED
  BY <1>3, <1>4, Zenon

\* A writer releases the lock.
LEMMA WuReleasePreserves ==
  ASSUME Constants, IInv, NEW t \in Threads, WuRelease(t)
  PROVE  IInv'
<1>1. Known(t) /\ TypeOK /\ apc'[t] = Awake(pc'[t])
  BY KnownHolds, Here, Zenon DEF IInv
<1>2. flags' = flags /\ cur_writer' = cur_writer /\ pc[t] = "wu_release"
        /\ UNCHANGED <<reads, writing>>
  BY Zenon DEF WuRelease, attr, owners
<1>3. CASE readers.n # 0
  <2> DEFINE l == "wu_phase"
  <2>1. /\ ReadersAre(IF readers.n = 0 THEN readers.wp ELSE ~readers.wp, FALSE, readers.rw,
                      readers.n)
        /\ WritersAre(writers.handover, writers.n)
    <3> DEFINE v == IF readers.n = 0 THEN readers.wp ELSE ~readers.wp
    <3>1. writers' = writers /\ readers \in Bits /\ FALSE \in BOOLEAN /\ v \in BOOLEAN
          /\ readers' = [readers EXCEPT !.wl = FALSE, !.wp = v]
      BY <1>1, Zenon DEF WuRelease, Known
    <3> HIDE DEF v
    <3>2. readers' \in Bits
      BY <3>1, Zenon DEF Bits
    <3>3. readers'.n = readers.n /\ readers'.wp = v /\ readers'.wl = FALSE
            /\ readers'.rw = readers.rw
      BY <3>1, Zenon DEF Bits
    <3> QED
      BY <1>1, <3>1, <3>2, <3>3, SameWriters, Zenon DEF v, ReadersAre
  <2>2. Goto(t, l) /\ UNCHANGED <<r, ready, reads, writing>> /\ l \in Labels
    BY <1>2, <1>3, Zenon DEF WuRelease, locals, owners, Labels, RdBlocking, RdPassed,
       RdRegistered, RdOther, WrBlocking, WrSure, WrPrimary, WrRegistered, WrOther, Blocking
  <2>3. Alone(t) /\ pc'[t] = l /\ ready'[t] = ready[t] /\ r'[t] = r[t]
    <3> HIDE DEF l
    <3> QED
      BY <1>1, <1>2, <2>1, <2>2, WentOn, Zenon DEF ReadsMove, ReadersAre, WritersAre
  <2>5. ProperBits(t, apc'[t]) /\ ProperCounts(t, apc'[t])
    BY <1>1, <1>2, <1>3, <2>1, <2>2, <2>3 DEF Known, ReadersAre, WritersAre, OK, ThreadOK,
       ProperBits, ProperCounts, Awake, Resume, Reader, Writer, IsP, IsPrimary, In, Constants,
       prefer_writer, Overflow, Labels, RdBlocking, RdPassed, RdRegistered, RdOther, WrBlocking,
       WrSure, WrPrimary, WrRegistered, WrOther, Blocking
  <2> QED
    BY <2>3, <2>5, AloneMoves, StepOfOne, Zenon
<1>4. CASE readers.n = 0 /\ Used(wf[t])
  <2> DEFINE l == "wu_wakeW"
  <2>1. /\ ReadersAre(IF readers.n = 0 THEN readers.wp ELSE ~readers.wp, FALSE, readers.rw,
                      readers.n)
        /\ WritersAre(writers.handover, writers.n)
    <3> DEFINE v == IF readers.n = 0 THEN readers.wp ELSE ~readers.wp
    <3>1. writers' = writers /\ readers \in Bits /\ FALSE \in BOOLEAN /\ v \in BOOLEAN
          /\ readers' = [readers EXCEPT !.wl = FALSE, !.wp = v]
      BY <1>1, Zenon DEF WuRelease, Known
    <3> HIDE DEF v
    <3>2. readers' \in Bits
      BY <3>1, Zenon DEF Bits
    <3>3. readers'.n = readers.n /\ readers'.wp = v /\ readers'.wl = FALSE
            /\ readers'.rw = readers.rw
      BY <3>1, Zenon DEF Bits
    <3> QED
      BY <1>1, <3>1, <3>2, <3>3, SameWriters, Zenon DEF v, ReadersAre
  <2>2. Goto(t, l) /\ UNCHANGED <<r, ready, reads, writing>> /\ l \in Labels
    BY <1>2, <1>4, Zenon DEF WuRelease, locals, owners, WuDone, Labels, RdBlocking, RdPassed,
       RdRegistered, RdOther, WrBlocking, WrSure, WrPrimary, WrRegistered, WrOther, Blocking
  <2>3. Alone(t) /\ pc'[t] = l /\ ready'[t] = ready[t] /\ r'[t] = r[t]
    <3> HIDE DEF l
    <3> QED
      BY <1>1, <1>2, <2>1, <2>2, WentOn, Zenon DEF ReadsMove, ReadersAre, WritersAre
  <2>5. ProperBits(t, apc'[t]) /\ ProperCounts(t, apc'[t])
    BY <1>1, <1>2, <1>4, <2>1, <2>2, <2>3 DEF Known, ReadersAre, WritersAre, OK, ThreadOK,
       ProperBits, ProperCounts, Awake, Resume, Reader, Writer, IsP, IsPrimary, In, Constants,
       prefer_writer, Overflow, Labels, RdBlocking, RdPassed, RdRegistered, RdOther, WrBlocking,
       WrSure, WrPrimary, WrRegistered, WrOther, Blocking
  <2> QED
    BY <2>3, <2>5, AloneMoves, StepOfOne, Zenon
<1>5. CASE readers.n = 0 /\ ~Used(wf[t])
  <2>1. /\ ReadersAre(IF readers.n = 0 THEN readers.wp ELSE ~readers.wp, FALSE, readers.rw,
                      readers.n)
        /\ WritersAre(writers.handover, writers.n)
    <3> DEFINE v == IF readers.n = 0 THEN readers.wp ELSE ~readers.wp
    <3>1. writers' = writers /\ readers \in Bits /\ FALSE \in BOOLEAN /\ v \in BOOLEAN
          /\ readers' = [readers EXCEPT !.wl = FALSE, !.wp = v]
      BY <1>1, Zenon DEF WuRelease, Known
    <3> HIDE DEF v
    <3>2. readers' \in Bits
      BY <3>1, Zenon DEF Bits
    <3>3. readers'.n = readers.n /\ readers'.wp = v /\ readers'.wl = FALSE
            /\ readers'.rw = readers.rw
      BY <3>1, Zenon DEF Bits
    <3> QED
      BY <1>1, <3>1, <3>2, <3>3, SameWriters, Zenon DEF v, ReadersAre
  <2>2. Return(t) /\ UNCHANGED <<reads, writing>>
    BY <1>2, <1>5, Zenon DEF WuRelease, owners, WuDone
  <2>3. Alone(t) /\ pc'[t] = "idle" /\ ~ready'[t] /\ ~r'[t].wp
    BY <1>1, <1>2, <2>1, <2>2, Returned, Zenon DEF ReadsMove, ReadersAre, WritersAre
  <2>4. reads'[t] = reads[t]
    BY <2>2, Zenon
  <2>5. ProperBits(t, apc'[t]) /\ ProperCounts(t, apc'[t])
    BY <1>1, <1>2, <1>5, <2>1, <2>2, <2>3, <2>4 DEF Known, ReadersAre, WritersAre, OK, ThreadOK,
       ProperBits, ProperCounts, Awake, Resume, Reader, Writer, IsP, IsPrimary, In, Constants,
       prefer_writer, Overflow, Labels, RdBlocking, RdPassed, RdRegistered, RdOther, WrBlocking,
       WrSure, WrPrimary, WrRegistered, WrOther, Blocking
  <2> QED
    BY <2>3, <2>5, AloneMoves, StepOfOne, Zenon
<1> QED
  BY <1>3, <1>4, <1>5, Zenon

\* pthread_rwlock_tryrdlock succeeds.
LEMMA TryRdLockPreserves ==
  ASSUME Constants, IInv, NEW t \in Threads, TryRdLock(t)
  PROVE  IInv'
<1>1. Known(t) /\ TypeOK /\ apc'[t] = Awake(pc'[t])
  BY KnownHolds, Here, Zenon DEF IInv
<1>2. /\ flags' = flags /\ cur_writer' = cur_writer /\ pc[t] = "idle" /\ cur_writer # t
      /\ ~Overflow(readers.n + 1) /\ (~readers.wl \/ ~readers.wp)
  BY Zenon DEF TryRdLock, attr
<1>3. ReadersAre(FALSE, readers.wl, readers.rw, readers.n + 1)
        /\ WritersAre(writers.handover, writers.n)
  <2>1. readers.n + 1 \in Nat /\ readers \in Bits
    BY <1>1 DEF Known
  <2>2. readers' = [readers EXCEPT !.n = readers.n + 1, !.wp = FALSE] /\ writers' = writers
    BY Zenon DEF TryRdLock
  <2>3. readers' \in Bits
    BY <2>1, <2>2, Zenon DEF Bits
  <2>4. readers'.wp = FALSE /\ readers'.wl = readers.wl /\ readers'.rw = readers.rw
          /\ readers'.n = readers.n + 1
    BY <2>1, <2>2, Zenon DEF Bits
  <2> QED
    BY <1>1, <2>2, <2>3, <2>4, SameWriters, Zenon DEF ReadersAre
<1>4. CASE readers.wp
  <2>1. Goto(t, "rd_phase") /\ UNCHANGED <<r, ready, reads, writing>> /\ "rd_phase" \in Labels
    BY <1>4, Zenon DEF TryRdLock, locals, owners, Labels, RdRegistered, RdPassed
  <2>2. Alone(t) /\ pc'[t] = "rd_phase" /\ ready'[t] = ready[t] /\ r'[t] = r[t]
    BY <1>1, <1>2, <1>3, <2>1, WentOn, Zenon DEF ReadsMove, ReadersAre, WritersAre
  <2>3. ProperBits(t, apc'[t]) /\ ProperCounts(t, apc'[t])
    BY <1>1, <1>2, <1>3, <1>4, <2>1, <2>2 DEF Known, ReadersAre, WritersAre, OK, ThreadOK,
       ProperBits, ProperCounts, Awake, Reader, Writer, IsP, IsPrimary, In, Constants,
       prefer_writer, Overflow, Labels, RdBlocking, RdPassed, RdRegistered, RdOther, WrBlocking,
       WrSure, WrPrimary, WrRegistered, WrOther, Blocking
  <2> QED
    BY <2>2, <2>3, AloneMoves, StepOfOne, Zenon
<1>5. CASE ~readers.wp
  <2>1. Return(t) /\ reads' = [reads EXCEPT ![t] = @ + 1] /\ writing' = writing
    BY <1>5, Zenon DEF TryRdLock, Acquired, HasRead
  <2>2. Alone(t) /\ pc'[t] = "idle" /\ ~ready'[t] /\ ~r'[t].wp
    BY <1>1, <1>2, <1>3, <2>1, Returned, Zenon DEF ReadsMove, ReadersAre, WritersAre
  <2>3. reads'[t] = reads[t] + 1
    BY <1>1, <2>1 DEF TypeOK
  <2>4. ProperBits(t, apc'[t]) /\ ProperCounts(t, apc'[t])
    BY <1>1, <1>2, <1>3, <1>5, <2>1, <2>2, <2>3 DEF Known, ReadersAre, WritersAre, OK, ThreadOK,
       ProperBits, ProperCounts, Awake, Reader, Writer, IsP, IsPrimary, In, Constants,
       prefer_writer, Overflow, Labels, RdBlocking, RdPassed, RdRegistered, RdOther, WrBlocking,
       WrSure, WrPrimary, WrRegistered, WrOther, Blocking
  <2> QED
    BY <2>2, <2>4, AloneMoves, StepOfOne, Zenon
<1> QED
  BY <1>4, <1>5, Zenon

\* The fetch-and-or of WRLOCKED.
LEMMA WrSetPreserves ==
  ASSUME Constants, IInv, NEW t \in Threads, WrSet(t)
  PROVE  IInv'
<1>1. Known(t) /\ TypeOK /\ apc'[t] = Awake(pc'[t])
  BY KnownHolds, Here, Zenon DEF IInv
<1>2. ReadersAre(readers.wp, TRUE, readers.rw, readers.n)
        /\ WritersAre(writers.handover, writers.n)
  <2>1. readers' = [readers EXCEPT !.wl = TRUE] /\ writers' = writers /\ readers \in Bits
          /\ TRUE \in BOOLEAN
    BY <1>1, Zenon DEF WrSet, Known
  <2>2. readers' \in Bits
    BY <2>1, Zenon DEF Bits
  <2>3. readers'.wp = readers.wp /\ readers'.wl = TRUE /\ readers'.rw = readers.rw
          /\ readers'.n = readers.n
    BY <2>1, Zenon DEF Bits
  <2> QED
    BY <1>1, <2>1, <2>2, <2>3, SameWriters, Zenon DEF ReadersAre
<1>3. readers' \in Bits /\ writers' \in [handover : BOOLEAN, n : Nat]
  BY <1>2, Zenon DEF ReadersAre, WritersAre, WBits
<1>4. Alone(t)
  BY <1>1, <1>3 DEF Known, TypeOK, Alone, WrSet, Goto, owners, attr, Labels, RdBlocking,
     RdPassed, RdRegistered, RdOther, WrBlocking, WrSure, WrPrimary, WrRegistered, WrOther,
     Blocking
<1>5. /\ pc[t] = "wr_set" /\ ready'[t] = ready[t] /\ reads' = reads /\ writing' = writing
      /\ IF readers.wl THEN pc'[t] = IF prefer_writer THEN "wr_register" ELSE "wr_block"
         ELSE pc'[t] = "wr_enable" /\ r'[t].wp = readers.wp
  BY <1>1, Zenon DEF WrSet, Goto, owners, TypeOK
<1>6. ASSUME ~readers.wl PROVE ProperBits(t, apc'[t]) /\ ProperCounts(t, apc'[t])
  BY <1>1, <1>2, <1>5, <1>6 DEF Known, ReadersAre, WritersAre, OK, ThreadOK, ProperBits,
     ProperCounts, Awake, Reader, Writer, IsP, IsPrimary, In, Constants, prefer_writer, Labels,
     RdBlocking, RdPassed, RdRegistered, RdOther, WrBlocking, WrSure, WrPrimary, WrRegistered,
     WrOther, Blocking
<1>7. ASSUME readers.wl PROVE ProperBits(t, apc'[t]) /\ ProperCounts(t, apc'[t])
  <2>1. readers'.wl = readers.wl
    BY <1>1, <1>2, <1>7, Zenon DEF Known, ReadersAre
  <2>2. ProperCounts(t, apc'[t])
    BY <1>1, <1>2, <1>5, <1>7 DEF Known, ReadersAre, WritersAre, OK, ThreadOK, ProperBits,
       ProperCounts, Awake, Reader, Writer, IsP, IsPrimary, In, Constants, prefer_writer,
       Labels, RdBlocking, RdPassed, RdRegistered, RdOther, WrBlocking, WrSure, WrPrimary,
       WrRegistered, WrOther, Blocking
  <2>3. ThreadOK(apc'[t], ready'[t], r'[t].wp, reads'[t], t \in writing', readers')
    BY <1>1, <1>2, <1>5, <1>7 DEF Known, ReadersAre, WritersAre, OK, ThreadOK, ProperBits,
       ProperCounts, Awake, Reader, Writer, IsP, IsPrimary, In, Constants, prefer_writer,
       Labels, RdBlocking, RdPassed, RdRegistered, RdOther, WrBlocking, WrSure, WrPrimary,
       WrRegistered, WrOther, Blocking
  <2>4. ~IsP(t) /\ ~IsPrimary(apc'[t], t \in writing')
    BY <1>1, <1>5, <1>7 DEF Known, ReadersAre, WritersAre, OK, ThreadOK, ProperBits,
       ProperCounts, Awake, Reader, Writer, IsP, IsPrimary, In, Constants, prefer_writer,
       Labels, RdBlocking, RdPassed, RdRegistered, RdOther, WrBlocking, WrSure, WrPrimary,
       WrRegistered, WrOther, Blocking
  <2> QED
    BY <1>1, <1>2, <1>7, <2>1, <2>2, <2>3, <2>4 DEF ProperBits, Known, ReadersAre, WritersAre
<1> QED
  BY <1>4, <1>6, <1>7, AloneMoves, StepOfOne, Zenon

\* A primary writer whose wait has timed out gives WRLOCKED back.
LEMMA WrReleasePreserves ==
  ASSUME Constants, IInv, NEW t \in Threads, WrRelease(t)
  PROVE  IInv'
<1>1. Known(t) /\ TypeOK /\ apc'[t] = Awake(pc'[t])
  BY KnownHolds, Here, Zenon DEF IInv
<1>2. flags' = flags /\ cur_writer' = cur_writer /\ pc[t] = "wr_release"
        /\ UNCHANGED <<reads, writing>>
  BY Zenon DEF WrRelease, attr, owners
<1>3. CASE readers.wp
  <2>1. readers' = readers /\ writers' = writers
    BY <1>3, Zenon DEF WrRelease
  <2>2. ReadersAre(readers.wp, readers.wl, readers.rw, readers.n)
          /\ WritersAre(writers.handover, writers.n)
    BY <1>1, <2>1, SameReaders, SameWriters, Zenon
  <2>3. Goto(t, "wr_restore2") /\ UNCHANGED <<r, ready>> /\ "wr_restore2" \in Labels
    BY <1>3, Zenon DEF WrRelease, locals, Labels, WrPrimary, WrSure
  <2>4. Alone(t) /\ pc'[t] = "wr_restore2" /\ ready'[t] = ready[t] /\ r'[t] = r[t]
    BY <1>1, <1>2, <2>2, <2>3, WentOn, Zenon DEF ReadsMove, ReadersAre, WritersAre
  <2>5. ProperBits(t, apc'[t]) /\ ProperCounts(t, apc'[t])
    BY <1>1, <1>2, <1>3, <2>2, <2>4 DEF Known, ReadersAre, WritersAre, OK, ThreadOK, ProperBits,
       ProperCounts, Awake, Reader, Writer, IsP, IsPrimary, In, Constants, prefer_writer,
       Labels, RdBlocking, RdPassed, RdRegistered, RdOther, WrBlocking, WrSure, WrPrimary,
       WrRegistered, WrOther, Blocking
  <2> QED
    BY <2>4, <2>5, AloneMoves, StepOfOne, Zenon
<1>4. CASE ~readers.wp
  <2>1. ReadersAre(readers.wp, FALSE, FALSE, readers.n) /\ WritersAre(writers.handover, writers.n)
    <3>1. readers' = [readers EXCEPT !.wl = FALSE, !.rw = FALSE] /\ writers' = writers
            /\ readers \in Bits
      BY <1>1, <1>4, Zenon DEF WrRelease, Known
    <3>2. readers' \in Bits
      BY <3>1, Zenon DEF Bits
    <3>3. readers'.wp = readers.wp /\ readers'.wl = FALSE /\ readers'.rw = FALSE
            /\ readers'.n = readers.n
      BY <3>1, Zenon DEF Bits
    <3> QED
      BY <1>1, <3>1, <3>2, <3>3, SameWriters, Zenon DEF ReadersAre
  <2>2. Alone(t) /\ pc'[t] \in {"idle", "wr_wakeW", "wr_wakeR"} /\ (pc'[t] = "idle" => ~ready'[t])
                 /\ (pc'[t] # "idle" => ready'[t] = ready[t])
    <3>1. CASE Used(wf[t]) \/ WakesReaders(readers)
      <4> DEFINE l == IF Used(wf[t]) THEN "wr_wakeW" ELSE "wr_wakeR"
      <4>1. r' = [r EXCEPT ![t] = readers] /\ Goto(t, l) /\ ready' = ready /\ l \in Labels
              /\ l \in {"wr_wakeW", "wr_wakeR"}
        BY <1>4, <3>1, Zenon DEF WrRelease, Labels, WrOther
      <4> HIDE DEF l
      <4>2. r' \in [Threads -> Bits] /\ \A u \in Threads \ {t} : r'[u] = r[u]
        BY <1>1, <4>1, Zenon DEF TypeOK
      <4>3. Alone(t) /\ pc'[t] = l
        BY <1>1, <1>2, <2>1, <4>1, <4>2, Goes, Zenon DEF Alone, ReadersAre, WritersAre, WBits,
           TypeOK
      <4> QED
        BY <4>1, <4>3, Zenon
    <3>2. CASE ~Used(wf[t]) /\ ~WakesReaders(readers)
      <4>1. Return(t)
        BY <1>4, <3>2, Zenon DEF WrRelease
      <4> QED
        BY <1>1, <1>2, <2>1, <4>1, Returned, Zenon DEF ReadsMove, ReadersAre, WritersAre
    <3> QED
      BY <3>1, <3>2, Zenon
  <2>3. ProperBits(t, apc'[t]) /\ ProperCounts(t, apc'[t])
    BY <1>1, <1>2, <1>4, <2>1, <2>2 DEF Known, ReadersAre, WritersAre, OK, ThreadOK, ProperBits,
       ProperCounts, Awake, Reader, Writer, IsP, IsPrimary, In, Constants, prefer_writer,
       Labels, RdBlocking, RdPassed, RdRegistered, RdOther, WrBlocking, WrSure, WrPrimary,
       WrRegistered, WrOther, Blocking
  <2> QED
    BY <2>2, <2>3, AloneMoves, StepOfOne, Zenon
<1> QED
  BY <1>3, <1>4, Zenon

\* A reader leaves; the last one starts the write phase.
LEMMA RuLeavePreserves ==
  ASSUME Constants, IInv, NEW t \in Threads, RuLeave(t)
  PROVE  IInv'
<1>1. Known(t) /\ TypeOK /\ apc'[t] = Awake(pc'[t])
  BY KnownHolds, Here, Zenon DEF IInv
<1>2. /\ flags' = flags /\ cur_writer' = cur_writer /\ pc[t] = "ru_leave"
           /\ UNCHANGED <<reads, writing>>
      /\ writers' = writers /\ readers' = AfterReader(readers)
  BY Zenon DEF RuLeave, attr, owners
<1>3. readers.n - 1 \in Nat /\ readers \in Bits /\ 0 \in Nat
  BY <1>1, <1>2 DEF Known, Awake, Labels, RdBlocking, RdPassed, RdRegistered, RdOther,
     WrBlocking, WrSure, WrPrimary, WrRegistered, WrOther, Blocking
<1>4. /\ readers' \in Bits /\ WritersAre(writers.handover, writers.n) /\ readers'.wl = readers.wl
      /\ IF readers.n = 1 THEN readers'.n = 0 /\ readers'.wp = (readers.wp \/ readers.wl)
           /\ readers'.rw = FALSE
         ELSE readers'.n = readers.n - 1 /\ readers'.wp = readers.wp /\ readers'.rw = readers.rw
  <2>1. CASE readers.n = 1
    <3> DEFINE v == readers.wp \/ readers.wl
    <3>1. readers' = [readers EXCEPT !.n = 0, !.wp = v, !.rw = FALSE] /\ v \in BOOLEAN
      BY <1>1, <1>2, <2>1, Zenon DEF AfterReader, Known
    <3> HIDE DEF v
    <3>2. readers' \in Bits
      BY <1>3, <3>1, Zenon DEF Bits
    <3>3. readers'.wl = readers.wl /\ readers'.n = 0 /\ readers'.wp = v /\ readers'.rw = FALSE
      BY <1>3, <3>1, Zenon DEF Bits
    <3> QED
      BY <1>1, <1>2, <2>1, <3>2, <3>3, SameWriters, Zenon DEF v
  <2>2. CASE readers.n # 1
    <3>1. readers' = [readers EXCEPT !.n = readers.n - 1]
      BY <1>2, <2>2, Zenon DEF AfterReader
    <3> QED
      <4>1. readers' \in Bits /\ readers'.wl = readers.wl /\ readers'.n = readers.n - 1
              /\ readers'.wp = readers.wp /\ readers'.rw = readers.rw
        BY <1>3, <3>1, Zenon DEF Bits
      <4> QED
        BY <1>1, <1>2, <2>2, <4>1, SameWriters, Zenon
  <2> QED
    BY <2>1, <2>2, Zenon
<1>5. Alone(t) /\ pc'[t] \in {"idle", "ru_phase", "ru_wakeR"} /\ (~ready'[t]
        \/ ready'[t] = ready[t])
  <2> DEFINE woken == readers.rw # readers'.rw
  <2>1. CASE ~readers'.wp /\ ~woken
    <3>1. Return(t)
      BY <2>1, Zenon DEF RuLeave
    <3> QED
      BY <1>1, <1>2, <1>4, <3>1, Returned, Zenon DEF ReadsMove, WritersAre
  <2>2. CASE ~(~readers'.wp /\ ~woken)
    <3> DEFINE l == IF readers'.wp THEN "ru_phase" ELSE "ru_wakeR"
    <3>1. Goto(t, l) /\ r' = [r EXCEPT ![t].rw = woken] /\ ready' = ready /\ woken \in BOOLEAN
      BY <2>2, Zenon DEF RuLeave
    <3>2. l \in Labels /\ l \in {"ru_phase", "ru_wakeR"}
      BY Zenon DEF Labels, RdOther
    <3> HIDE DEF l, woken
    <3>3. r[t] \in Bits /\ r \in [Threads -> Bits]
            /\ r' = [r EXCEPT ![t] = [r[t] EXCEPT !.rw = woken]]
      BY <1>1, <3>1, Zenon DEF TypeOK
    <3>4. [r[t] EXCEPT !.rw = woken] \in Bits
      BY <3>1, <3>3, Zenon DEF Bits
    <3>5. r' \in [Threads -> Bits] /\ \A u \in Threads \ {t} : r'[u] = r[u]
      BY <3>3, <3>4, Zenon
    <3> QED
      BY <1>1, <1>2, <1>4, <3>1, <3>2, <3>5, Goes, Zenon DEF Alone, WritersAre, WBits, TypeOK
  <2> QED
    BY <2>1, <2>2, Zenon
<1>6. ProperCounts(t, apc'[t])
  <2>1. /\ In(apc'[t], RdRegistered) = 0 /\ In(apc'[t], RdPassed) = 0
             /\ In(apc'[t], WrRegistered) = 0
        /\ In(apc[t], RdRegistered) = 1 /\ In(apc[t], RdPassed) = 1
             /\ In(apc[t], WrRegistered) = 0
    BY <1>1, <1>2, <1>5 DEF Known, Awake, In, Labels, RdBlocking, RdPassed, RdRegistered,
       RdOther, WrBlocking, WrSure, WrPrimary, WrRegistered, WrOther, Blocking
  <2>2. reads'[t] - reads[t] = 0 /\ readers'.n = readers.n - 1
    BY <1>1, <1>2, <1>3, <1>4 DEF Known
  <2> QED
    BY <1>1, <1>3, <1>4, <2>1, <2>2 DEF Known, WritersAre, ProperCounts
<1>7. apc[t] = "ru_leave" /\ apc'[t] = pc'[t] /\ t \notin writing' /\ ~ready'[t] /\ ~readers.wp
  BY <1>1, <1>2, <1>5 DEF Known, OK, ThreadOK, Reader, Awake, Blocking, RdBlocking, WrBlocking
<1>8. ThreadOK(apc'[t], ready'[t], r'[t].wp, reads'[t], t \in writing', readers')
  BY <1>1, <1>2, <1>3, <1>4, <1>5, <1>7 DEF Known, ThreadOK, Reader, Writer, WrSure,
     RdRegistered, RdPassed
<1>9. ~IsP(t) /\ ~IsPrimary(apc'[t], t \in writing')
  BY <1>2, <1>5, <1>7 DEF IsP, IsPrimary, WrPrimary, WrSure, WrBlocking
<1>10. /\ apc[t] \in RdRegistered
       /\ readers'.wp /\ ~readers.wp => readers.n = 1
       /\ ~(readers.wp /\ ~readers'.wp)
       /\ readers'.rw => ~readers'.wp /\ readers'.wl /\ readers'.n > 0
       /\ writers'.handover => readers'.wl
  BY <1>1, <1>3, <1>4, <1>7 DEF Known, WritersAre, RdRegistered, RdPassed
<1>11. ProperBits(t, apc'[t])
  BY <1>2, <1>4, <1>8, <1>9, <1>10, Zenon DEF ProperBits
<1> QED
  BY <1>5, <1>6, <1>11, AloneMoves, StepOfOne, Zenon


\* A wake-up moves the waker; the woken threads were blocked where they resume.
LEMMA WakeMoves ==
  ASSUME Constants, IInv, NEW t \in Threads, NEW labels \in SUBSET Blocking, NEW n,
         NEW l \in Labels, l \notin Blocking,
         Wake(t, labels, n, l), ReadsMove(t), writing' = writing
  PROVE  /\ Moves(t, l) /\ UNCHANGED <<readers, writers>>
         /\ IF l = "idle" THEN ~ready'[t] /\ ~r'[t].wp ELSE ready'[t] = ready[t] /\ r'[t] = r[t]
<1>1. TypeOK /\ Primaries
  BY Zenon DEF IInv
<1>2. UNCHANGED <<readers, writers, cur_writer, flags>>
  BY Zenon DEF Wake, lock, attr
<1>3. PICK woken \in futex_wake(At(labels), n) :
        pc' = [u \in Threads |-> IF u = t THEN l ELSE IF u \in woken THEN Resume(pc[u]) ELSE pc[u]]
  BY Zenon DEF Wake
<1>4. \A u \in woken : pc[u] \in Blocking
  BY <1>3, Zenon DEF futex_wake, At
<1>5. \A b \in Blocking : Resume(b) \in Labels /\ Resume(b) \notin Blocking
  BY DEF Resume, Labels, RdBlocking, RdPassed, RdRegistered, RdOther, WrBlocking, WrSure,
     WrPrimary, WrRegistered, WrOther, Blocking
<1>6. pc' \in [Threads -> Labels]
  BY <1>1, <1>3, <1>4, <1>5, Zenon DEF TypeOK
<1>7. \A u \in Threads : apc'[u] = IF u = t THEN l ELSE apc[u]
  BY <1>3, <1>4, <1>5, Zenon DEF apc, Awake
<1>8. apc' = [apc EXCEPT ![t] = l]
  BY <1>7, Zenon DEF apc
<1>9. /\ r' \in [Threads -> Bits] /\ ready' \in [Threads -> BOOLEAN]
      /\ \A u \in Threads \ {t} : r'[u] = r[u] /\ ready'[u] = ready[u]
      /\ IF l = "idle" THEN ~ready'[t] /\ ~r'[t].wp ELSE ready'[t] = ready[t] /\ r'[t] = r[t]
  <2>1. CASE l = "idle"
    BY <1>1, <2>1, Resets, Zenon DEF Wake
  <2>2. CASE l # "idle"
    BY <1>1, <2>2, Zenon DEF Wake, locals, TypeOK
  <2> QED
    BY <2>1, <2>2, Zenon
<1>10. reads' \in [Threads -> Nat]
  BY <1>1 DEF ReadsMove, TypeOK
<1> QED
  BY <1>1, <1>2, <1>6, <1>8, <1>9, <1>10, Zenon DEF Moves, TypeOK, ReadsMove, Primaries

\* The reader that has started a read phase wakes the others and has the lock.
LEMMA RdWakePPreserves ==
  ASSUME Constants, IInv, NEW t \in Threads, RdWakeP(t)
  PROVE  IInv'
<1>1. Known(t) /\ TypeOK
  BY KnownHolds, Zenon DEF IInv
<1>2. pc[t] = "rd_wakeP" /\ Wake(t, OnPhase, All, "idle")
        /\ reads' = [reads EXCEPT ![t] = @ + 1] /\ writing' = writing
  BY Zenon DEF RdWakeP, HasRead
<1>3. "idle" \in Labels /\ "idle" \notin Blocking /\ OnPhase \in SUBSET Blocking
  BY Zenon DEF OnPhase, Blocking, Labels
<1>4. Moves(t, "idle") /\ UNCHANGED <<readers, writers>> /\ ~ready'[t] /\ ~r'[t].wp
  BY <1>2, <1>3, WakeMoves, Zenon DEF ReadsMove
<1>5. reads'[t] = reads[t] + 1
  BY <1>1, <1>2 DEF TypeOK
<1>6. apc[t] = "rd_wakeP" /\ t \notin writing /\ ~readers.wp
  BY <1>1, <1>2 DEF Known, OK, ThreadOK, Reader, Awake, Blocking
<1>7. ~IsP(t) /\ ~IsPrimary("idle", t \in writing')
  BY <1>2, <1>6 DEF IsP, IsPrimary, WrPrimary, WrSure, WrBlocking
<1>8. ProperCounts(t, "idle")
  BY <1>1, <1>4, <1>5, <1>6 DEF Known, ProperCounts, In, RdRegistered, RdPassed, RdBlocking,
     WrRegistered
<1>9. ThreadOK("idle", ready'[t], r'[t].wp, reads'[t], t \in writing', readers')
  BY <1>1, <1>2, <1>4, <1>6 DEF Known, OK, ThreadOK, Reader, Writer, WrSure, RdBlocking,
     WrBlocking
<1>10. ProperBits(t, "idle")
  BY <1>1, <1>4, <1>7, <1>9, Zenon DEF ProperBits, Known
<1> QED
  BY <1>4, <1>8, <1>10, StepOfOne, Zenon

\* A wake-up that ends a call, or comes before the next one.
Wakes == {"wr_wakeW", "wr_wakeR", "ru_wakeP", "ru_wakeR", "wu_wakeP", "wu_wakeW"}

\* It preserves the invariant.
LEMMA WakePreserves ==
  ASSUME Constants, IInv, NEW t \in Threads, NEW labels \in SUBSET Blocking, NEW n, NEW l,
         pc[t] \in Wakes, Wake(t, labels, n, l), UNCHANGED <<reads, writing>>,
         \/ l = "idle"
         \/ pc[t] = "wr_wakeW" /\ l = "wr_wakeR"
         \/ pc[t] = "ru_wakeP" /\ l = "ru_wakeR"
         \/ pc[t] = "wu_wakeP" /\ l = "wu_wakeW"
  PROVE  IInv'
<1>1. Known(t) /\ TypeOK
  BY KnownHolds, Zenon DEF IInv
<1>2. l \in Labels /\ l \notin Blocking
  BY DEF Labels, RdBlocking, RdPassed, RdRegistered, RdOther, WrBlocking, WrSure, WrPrimary,
     WrRegistered, WrOther, Blocking
<1>3. /\ Moves(t, l) /\ UNCHANGED <<readers, writers>>
      /\ IF l = "idle" THEN ~ready'[t] /\ ~r'[t].wp ELSE ready'[t] = ready[t] /\ r'[t] = r[t]
  BY <1>2, WakeMoves, Zenon DEF ReadsMove
<1>4. apc[t] = pc[t] /\ t \notin writing
  BY <1>1 DEF Known, OK, ThreadOK, Awake, Wakes, Labels, RdBlocking, RdPassed, RdRegistered,
     RdOther, WrBlocking, WrSure, WrPrimary, WrRegistered, WrOther, Blocking
<1>5. ~IsP(t) /\ ~IsPrimary(l, t \in writing')
  BY <1>4 DEF IsP, IsPrimary, Wakes, Labels, RdBlocking, RdPassed, RdRegistered, RdOther,
     WrBlocking, WrSure, WrPrimary, WrRegistered, WrOther, Blocking
<1>6. /\ In(l, RdRegistered) = 0 /\ In(l, RdPassed) = 0 /\ In(l, WrRegistered) = 0
      /\ In(apc[t], RdRegistered) = 0 /\ In(apc[t], RdPassed) = 0 /\ In(apc[t], WrRegistered) = 0
  BY <1>4 DEF In, Wakes, Labels, RdBlocking, RdPassed, RdRegistered, RdOther, WrBlocking,
     WrSure, WrPrimary, WrRegistered, WrOther, Blocking
<1>7. ProperCounts(t, l)
  BY <1>1, <1>3, <1>6 DEF Known, ProperCounts
<1>8. ThreadOK(l, ready'[t], r'[t].wp, reads'[t], t \in writing', readers')
  BY <1>1, <1>3, <1>4 DEF Known, OK, ThreadOK, Reader, Writer, Wakes, Labels, RdBlocking,
     RdPassed, RdRegistered, RdOther, WrBlocking, WrSure, WrPrimary, WrRegistered, WrOther,
     Blocking
<1>9. ProperBits(t, l)
  BY <1>1, <1>3, <1>5, <1>8, Zenon DEF ProperBits, Known
<1> QED
  BY <1>3, <1>7, <1>9, StepOfOne, Zenon

\* The steps that wake.
LEMMA WakeSteps ==
  ASSUME Constants, IInv, NEW t \in Threads,
         WrWakeW(t) \/ WrWakeR(t) \/ RuWakeP(t) \/ RuWakeR(t) \/ WuWakeP(t) \/ WuWakeW(t)
  PROVE  IInv'
<1>0. OnPhase \in SUBSET Blocking /\ {"blockedW"} \in SUBSET Blocking
        /\ {"blockedR"} \in SUBSET Blocking
  BY Zenon DEF OnPhase, Blocking
<1>1. CASE WrWakeW(t)
  <2> DEFINE l == IF WakesReaders(r[t]) THEN "wr_wakeR" ELSE "idle"
  <2>1. pc[t] = "wr_wakeW" /\ pc[t] \in Wakes /\ UNCHANGED <<reads, writing>>
          /\ Wake(t, {"blockedW"}, 1, l)
    BY <1>1, Zenon DEF WrWakeW, owners, Wakes
  <2>2. l = "idle" \/ l = "wr_wakeR"
    BY Zenon
  <2> HIDE DEF l
  <2> QED
    BY <1>0, <2>1, <2>2, WakePreserves, Zenon
<1>2. CASE WrWakeR(t)
  <2>1. pc[t] = "wr_wakeR" /\ pc[t] \in Wakes /\ UNCHANGED <<reads, writing>>
          /\ Wake(t, {"blockedR"}, All, "idle")
    BY <1>2, Zenon DEF WrWakeR, owners, Wakes
  <2> QED
    BY <1>0, <2>1, WakePreserves, Zenon
<1>3. CASE RuWakeP(t)
  <2> DEFINE l == IF r[t].rw THEN "ru_wakeR" ELSE "idle"
  <2>1. pc[t] = "ru_wakeP" /\ pc[t] \in Wakes /\ UNCHANGED <<reads, writing>>
          /\ Wake(t, OnPhase, All, l)
    BY <1>3, Zenon DEF RuWakeP, owners, Wakes
  <2>2. l = "idle" \/ l = "ru_wakeR"
    BY Zenon
  <2> HIDE DEF l
  <2> QED
    BY <1>0, <2>1, <2>2, WakePreserves, Zenon
<1>4. CASE RuWakeR(t)
  <2>1. pc[t] = "ru_wakeR" /\ pc[t] \in Wakes /\ UNCHANGED <<reads, writing>>
          /\ Wake(t, {"blockedR"}, All, "idle")
    BY <1>4, Zenon DEF RuWakeR, owners, Wakes
  <2> QED
    BY <1>0, <2>1, WakePreserves, Zenon
<1>5. CASE WuWakeP(t)
  <2> DEFINE l == IF Used(wf[t]) THEN "wu_wakeW" ELSE "idle"
  <2>1. pc[t] = "wu_wakeP" /\ pc[t] \in Wakes /\ UNCHANGED <<reads, writing>>
          /\ Wake(t, OnPhase, All, l)
    BY <1>5, Zenon DEF WuWakeP, owners, Wakes
  <2>2. l = "idle" \/ l = "wu_wakeW"
    BY Zenon
  <2> HIDE DEF l
  <2> QED
    BY <1>0, <2>1, <2>2, WakePreserves, Zenon
<1>6. CASE WuWakeW(t)
  <2>1. pc[t] = "wu_wakeW" /\ pc[t] \in Wakes /\ UNCHANGED <<reads, writing>>
          /\ Wake(t, {"blockedW"}, 1, "idle")
    BY <1>6, Zenon DEF WuWakeW, owners, Wakes
  <2> QED
    BY <1>0, <2>1, WakePreserves, Zenon
<1> QED
  BY <1>1, <1>2, <1>3, <1>4, <1>5, <1>6, Zenon

\* A thread looks again.
LEMMA SpuriousWakeupPreserves ==
  ASSUME Constants, IInv, NEW t \in Threads, SpuriousWakeup(t)
  PROVE  IInv'
<1>1. Known(t) /\ TypeOK /\ apc'[t] = Awake(pc'[t])
  BY KnownHolds, Here, Zenon DEF IInv
<1>2. pc[t] \in Blocking /\ Goto(t, Resume(pc[t])) /\ UNCHANGED <<attr, lock, locals, owners>>
  BY Zenon DEF SpuriousWakeup, OnPhase, Blocking
<1>3. \A b \in Blocking : Resume(b) \in Labels /\ Resume(b) \notin Blocking
  BY DEF Resume, Labels, RdBlocking, RdPassed, RdRegistered, RdOther, WrBlocking, WrSure,
     WrPrimary, WrRegistered, WrOther, Blocking
<1>4. Alone(t) /\ pc'[t] = Resume(pc[t])
  BY <1>1, <1>2, <1>3, Goes, Zenon DEF Alone, TypeOK, attr, lock, locals, owners
<1>5. apc'[t] = apc[t]
  BY <1>1, <1>2, <1>3, <1>4, Zenon DEF Known, Awake
<1>6. UNCHANGED <<readers, writers, ready, r, reads, writing>>
  BY <1>2, Zenon DEF lock, locals, owners
<1>7. ProperBits(t, apc'[t])
  BY <1>1, <1>5, <1>6, Zenon DEF Known, OK, ProperBits, IsP
<1>8. ProperCounts(t, apc'[t])
  BY <1>1, <1>5, <1>6 DEF Known, ProperCounts, In
<1> QED
  BY <1>4, <1>7, <1>8, AloneMoves, StepOfOne, Zenon

\* The remaining steps, one by one.
LEMMA RdPreferPreserves ==
  ASSUME Constants, IInv, NEW t \in Threads, RdPrefer(t)
  PROVE  IInv'
<1>1. Known(t) /\ TypeOK /\ apc'[t] = Awake(pc'[t])
  BY KnownHolds, Here, Zenon DEF IInv
<1>2. readers' \in Bits /\ writers' \in [handover : BOOLEAN, n : Nat]
  BY <1>1, Zenon DEF Known, RdPrefer, Bits
<1>3. Alone(t)
  BY <1>1, <1>2, UnlockedBits DEF Known, TypeOK, Alone, RdPrefer, Goto, MustLetWriterGoFirst,
     lock, owners, locals, attr, IsP, IsPrimary, Awake, Labels, RdBlocking, RdPassed,
     RdRegistered, RdOther, WrBlocking, WrSure, WrPrimary, WrRegistered, WrOther, Blocking
<1>4. ProperBits(t, apc'[t]) /\ ProperCounts(t, apc'[t])
  BY <1>1, <1>2, UnlockedBits DEF Known, TypeOK, RdPrefer, Goto, MustLetWriterGoFirst, lock,
     owners, locals, attr, OK, ThreadOK, ProperBits, ProperCounts, Awake, Resume, Reader,
     Writer, IsP, IsPrimary, In, Constants, prefer_writer, Bits, Labels, RdBlocking, RdPassed,
     RdRegistered, RdOther, WrBlocking, WrSure, WrPrimary, WrRegistered, WrOther, Blocking
<1> QED
  BY <1>3, <1>4, AloneMoves, StepOfOne, Zenon

\* The same for RdLoadRW.
LEMMA RdLoadRWPreserves ==
  ASSUME Constants, IInv, NEW t \in Threads, RdLoadRW(t)
  PROVE  IInv'
<1>1. Known(t) /\ TypeOK /\ apc'[t] = Awake(pc'[t])
  BY KnownHolds, Here, Zenon DEF IInv
<1>2. Alone(t)
  BY <1>1, UnlockedBits DEF Known, TypeOK, Alone, RdLoadRW, Goto, MustLetWriterGoFirst, lock,
     owners, locals, attr, Labels, RdBlocking, RdPassed, RdRegistered, RdOther, WrBlocking,
     WrSure, WrPrimary, WrRegistered, WrOther, Blocking
<1>3. ProperBits(t, apc'[t]) /\ ProperCounts(t, apc'[t])
  BY <1>1, UnlockedBits DEF Known, TypeOK, RdLoadRW, Goto, MustLetWriterGoFirst, lock, owners,
     locals, attr, OK, ThreadOK, ProperBits, ProperCounts, Awake, Resume, Reader, Writer, IsP,
     IsPrimary, In, Constants, prefer_writer, Labels, RdBlocking, RdPassed, RdRegistered,
     RdOther, WrBlocking, WrSure, WrPrimary, WrRegistered, WrOther, Blocking
<1> QED
  BY <1>2, <1>3, AloneMoves, StepOfOne, Zenon

\* The same for RdGiveUp.
LEMMA RdGiveUpPreserves ==
  ASSUME Constants, IInv, NEW t \in Threads, RdGiveUp(t)
  PROVE  IInv'
<1>1. Known(t) /\ TypeOK /\ apc'[t] = Awake(pc'[t])
  BY KnownHolds, Here, Zenon DEF IInv
<1>2. Alone(t)
  BY <1>1, UnlockedBits DEF Known, TypeOK, Alone, RdGiveUp, Goto, Return, Reset, lock, owners,
     locals, attr, Labels, RdBlocking, RdPassed, RdRegistered, RdOther, WrBlocking, WrSure,
     WrPrimary, WrRegistered, WrOther, Blocking
<1>3. ProperBits(t, apc'[t]) /\ ProperCounts(t, apc'[t])
  BY <1>1, UnlockedBits DEF Known, TypeOK, RdGiveUp, Goto, Return, Reset, lock, owners, locals,
     attr, OK, ThreadOK, ProperBits, ProperCounts, Awake, Resume, Reader, Writer, IsP,
     IsPrimary, In, Constants, prefer_writer, Labels, RdBlocking, RdPassed, RdRegistered,
     RdOther, WrBlocking, WrSure, WrPrimary, WrRegistered, WrOther, Blocking
<1> QED
  BY <1>2, <1>3, AloneMoves, StepOfOne, Zenon

\* The same for RdStart.
LEMMA RdStartPreserves ==
  ASSUME Constants, IInv, NEW t \in Threads, RdStart(t)
  PROVE  IInv'
<1>1. Known(t) /\ TypeOK /\ apc'[t] = Awake(pc'[t])
  BY KnownHolds, Here, Zenon DEF IInv
<1>2. readers' \in Bits /\ writers' \in [handover : BOOLEAN, n : Nat]
  BY <1>1, Zenon DEF Known, RdStart, Bits
<1>3. Alone(t)
  BY <1>1, <1>2, UnlockedBits DEF Known, TypeOK, Alone, RdStart, Goto, lock, owners, locals,
     attr, IsP, IsPrimary, Awake, Labels, RdBlocking, RdPassed, RdRegistered, RdOther,
     WrBlocking, WrSure, WrPrimary, WrRegistered, WrOther, Blocking
<1>4. ProperBits(t, apc'[t]) /\ ProperCounts(t, apc'[t])
  BY <1>1, <1>2, UnlockedBits DEF Known, TypeOK, RdStart, Goto, lock, owners, locals, attr, OK,
     ThreadOK, ProperBits, ProperCounts, Awake, Resume, Reader, Writer, IsP, IsPrimary, In,
     Constants, prefer_writer, Bits, Labels, RdBlocking, RdPassed, RdRegistered, RdOther,
     WrBlocking, WrSure, WrPrimary, WrRegistered, WrOther, Blocking
<1> QED
  BY <1>3, <1>4, AloneMoves, StepOfOne, Zenon

\* The same for RdPhase.
LEMMA RdPhasePreserves ==
  ASSUME Constants, IInv, NEW t \in Threads, RdPhase(t)
  PROVE  IInv'
<1>1. Known(t) /\ TypeOK /\ apc'[t] = Awake(pc'[t])
  BY KnownHolds, Here, Zenon DEF IInv
<1>2. Alone(t)
  <2>1. /\ flags' = flags /\ readers' \in Bits /\ writers' \in WBits /\ ReadsMove(t)
        /\ UNCHANGED <<writing, cur_writer>>
    BY <1>1, Zenon DEF RdPhase, TypeOK, WBits, ReadsMove, attr, lock, owners, Acquired, HasRead
  <2>2. Return(t) \/ \E l \in Labels : Goto(t, l) /\ UNCHANGED <<r, ready>>
    BY Zenon DEF RdPhase, locals, Acquired, HasRead, Labels, RdBlocking, RdPassed, RdRegistered,
       RdOther, WrBlocking, WrSure, WrPrimary, WrRegistered, WrOther, Blocking
  <2> QED
    BY <1>1, <2>1, <2>2, Returned, WentOn, Zenon
<1>3. ProperBits(t, apc'[t]) /\ ProperCounts(t, apc'[t])
  BY <1>1, UnlockedBits DEF Known, TypeOK, RdPhase, Goto, Acquired, HasRead, Return, Reset,
     lock, owners, locals, attr, OK, ThreadOK, ProperBits, ProperCounts, Awake, Resume, Reader,
     Writer, IsP, IsPrimary, In, Constants, prefer_writer, Labels, RdBlocking, RdPassed,
     RdRegistered, RdOther, WrBlocking, WrSure, WrPrimary, WrRegistered, WrOther, Blocking
<1> QED
  BY <1>2, <1>3, AloneMoves, StepOfOne, Zenon

\* The same for RdWpf.
LEMMA RdWpfPreserves ==
  ASSUME Constants, IInv, NEW t \in Threads, RdWpf(t)
  PROVE  IInv'
<1>1. Known(t) /\ TypeOK /\ apc'[t] = Awake(pc'[t])
  BY KnownHolds, Here, Zenon DEF IInv
<1>2. Alone(t)
  <2>1. /\ flags' = flags /\ readers' \in Bits /\ writers' \in WBits /\ ReadsMove(t)
        /\ UNCHANGED <<writing, cur_writer>>
    BY <1>1, Zenon DEF RdWpf, TypeOK, WBits, ReadsMove, attr, lock, owners, Acquired, HasRead
  <2>2. Return(t) \/ \E l \in Labels : Goto(t, l) /\ UNCHANGED <<r, ready>>
    BY Zenon DEF RdWpf, locals, Acquired, HasRead, Labels, RdBlocking, RdPassed, RdRegistered,
       RdOther, WrBlocking, WrSure, WrPrimary, WrRegistered, WrOther, Blocking
  <2> QED
    BY <1>1, <2>1, <2>2, Returned, WentOn, Zenon
<1>3. ProperBits(t, apc'[t]) /\ ProperCounts(t, apc'[t])
  BY <1>1, UnlockedBits DEF Known, TypeOK, RdWpf, Goto, Acquired, HasRead, Return, Reset, lock,
     owners, locals, attr, OK, ThreadOK, ProperBits, ProperCounts, Awake, Resume, Reader,
     Writer, IsP, IsPrimary, In, Constants, prefer_writer, Labels, RdBlocking, RdPassed,
     RdRegistered, RdOther, WrBlocking, WrSure, WrPrimary, WrRegistered, WrOther, Blocking
<1> QED
  BY <1>2, <1>3, AloneMoves, StepOfOne, Zenon

\* The same for RdCheck.
LEMMA RdCheckPreserves ==
  ASSUME Constants, IInv, NEW t \in Threads, RdCheck(t)
  PROVE  IInv'
<1>1. Known(t) /\ TypeOK /\ apc'[t] = Awake(pc'[t])
  BY KnownHolds, Here, Zenon DEF IInv
<1>2. Alone(t)
  BY <1>1, UnlockedBits DEF Known, TypeOK, Alone, RdCheck, Goto, lock, owners, locals, attr,
     Labels, RdBlocking, RdPassed, RdRegistered, RdOther, WrBlocking, WrSure, WrPrimary,
     WrRegistered, WrOther, Blocking
<1>3. ProperBits(t, apc'[t]) /\ ProperCounts(t, apc'[t])
  BY <1>1, UnlockedBits DEF Known, TypeOK, RdCheck, Goto, lock, owners, locals, attr, OK,
     ThreadOK, ProperBits, ProperCounts, Awake, Resume, Reader, Writer, IsP, IsPrimary, In,
     Constants, prefer_writer, Labels, RdBlocking, RdPassed, RdRegistered, RdOther, WrBlocking,
     WrSure, WrPrimary, WrRegistered, WrOther, Blocking
<1> QED
  BY <1>2, <1>3, AloneMoves, StepOfOne, Zenon

\* The same for RdSpin.
LEMMA RdSpinPreserves ==
  ASSUME Constants, IInv, NEW t \in Threads, RdSpin(t)
  PROVE  IInv'
<1>1. Known(t) /\ TypeOK /\ apc'[t] = Awake(pc'[t])
  BY KnownHolds, Here, Zenon DEF IInv
<1>2. Alone(t)
  BY <1>1, UnlockedBits DEF Known, TypeOK, Alone, RdSpin, Goto, Acquired, HasRead, Return,
     Reset, lock, owners, locals, attr, Labels, RdBlocking, RdPassed, RdRegistered, RdOther,
     WrBlocking, WrSure, WrPrimary, WrRegistered, WrOther, Blocking
<1>3. ProperBits(t, apc'[t]) /\ ProperCounts(t, apc'[t])
  BY <1>1, UnlockedBits DEF Known, TypeOK, RdSpin, Goto, Acquired, HasRead, Return, Reset, lock,
     owners, locals, attr, OK, ThreadOK, ProperBits, ProperCounts, Awake, Resume, Reader,
     Writer, IsP, IsPrimary, In, Constants, prefer_writer, Labels, RdBlocking, RdPassed,
     RdRegistered, RdOther, WrBlocking, WrSure, WrPrimary, WrRegistered, WrOther, Blocking
<1> QED
  BY <1>2, <1>3, AloneMoves, StepOfOne, Zenon

\* The same for WrRegister.
LEMMA WrRegisterPreserves ==
  ASSUME Constants, IInv, NEW t \in Threads, WrRegister(t)
  PROVE  IInv'
<1>1. Known(t) /\ TypeOK /\ apc'[t] = Awake(pc'[t])
  BY KnownHolds, Here, Zenon DEF IInv
<1>2. Alone(t)
  BY <1>1, UnlockedBits DEF Known, TypeOK, Alone, WrRegister, Goto, lock, owners, locals, attr,
     Labels, RdBlocking, RdPassed, RdRegistered, RdOther, WrBlocking, WrSure, WrPrimary,
     WrRegistered, WrOther, Blocking
<1>3. ProperBits(t, apc'[t]) /\ ProperCounts(t, apc'[t])
  BY <1>1, UnlockedBits DEF Known, TypeOK, WrRegister, Goto, lock, owners, locals, attr, OK,
     ThreadOK, ProperBits, ProperCounts, Awake, Resume, Reader, Writer, IsP, IsPrimary, In,
     Constants, prefer_writer, Labels, RdBlocking, RdPassed, RdRegistered, RdOther, WrBlocking,
     WrSure, WrPrimary, WrRegistered, WrOther, Blocking
<1> QED
  BY <1>2, <1>3, AloneMoves, StepOfOne, Zenon

\* The same for WrTry.
LEMMA WrTryPreserves ==
  ASSUME Constants, IInv, NEW t \in Threads, WrTry(t)
  PROVE  IInv'
<1>1. Known(t) /\ TypeOK /\ apc'[t] = Awake(pc'[t])
  BY KnownHolds, Here, Zenon DEF IInv
<1>2. readers' \in Bits /\ writers' \in [handover : BOOLEAN, n : Nat]
  BY <1>1, Zenon DEF Known, WrTry, Bits
<1>3. Alone(t)
  BY <1>1, <1>2, UnlockedBits DEF Known, TypeOK, Alone, WrTry, Goto, lock, owners, locals, attr,
     IsP, IsPrimary, Awake, Labels, RdBlocking, RdPassed, RdRegistered, RdOther, WrBlocking,
     WrSure, WrPrimary, WrRegistered, WrOther, Blocking
<1>4. ProperBits(t, apc'[t]) /\ ProperCounts(t, apc'[t])
  BY <1>1, <1>2, UnlockedBits DEF Known, TypeOK, WrTry, Goto, lock, owners, locals, attr, OK,
     ThreadOK, ProperBits, ProperCounts, Awake, Resume, Reader, Writer, IsP, IsPrimary, In,
     Constants, prefer_writer, Bits, Labels, RdBlocking, RdPassed, RdRegistered, RdOther,
     WrBlocking, WrSure, WrPrimary, WrRegistered, WrOther, Blocking
<1> QED
  BY <1>3, <1>4, AloneMoves, StepOfOne, Zenon

\* The same for WrUnregister.
LEMMA WrUnregisterPreserves ==
  ASSUME Constants, IInv, NEW t \in Threads, WrUnregister(t)
  PROVE  IInv'
<1>1. Known(t) /\ TypeOK /\ apc'[t] = Awake(pc'[t])
  BY KnownHolds, Here, Zenon DEF IInv
<1>2. readers' \in Bits /\ writers' \in [handover : BOOLEAN, n : Nat]
  BY <1>1 DEF Known, WrUnregister, Unregistered, OK, ThreadOK, Awake, Labels, RdBlocking,
     RdPassed, RdRegistered, RdOther, WrBlocking, WrSure, WrPrimary, WrRegistered, WrOther,
     Blocking
<1>3. Alone(t)
  BY <1>1, <1>2, UnlockedBits DEF Known, TypeOK, Alone, WrUnregister, Goto, Unregistered, lock,
     owners, locals, attr, IsP, IsPrimary, Awake, Labels, RdBlocking, RdPassed, RdRegistered,
     RdOther, WrBlocking, WrSure, WrPrimary, WrRegistered, WrOther, Blocking
<1>4. ProperBits(t, apc'[t]) /\ ProperCounts(t, apc'[t])
  BY <1>1, <1>2, UnlockedBits DEF Known, TypeOK, WrUnregister, Goto, Unregistered, lock, owners,
     locals, attr, OK, ThreadOK, ProperBits, ProperCounts, Awake, Resume, Reader, Writer, IsP,
     IsPrimary, In, Constants, prefer_writer, Bits, Labels, RdBlocking, RdPassed, RdRegistered,
     RdOther, WrBlocking, WrSure, WrPrimary, WrRegistered, WrOther, Blocking
<1> QED
  BY <1>3, <1>4, AloneMoves, StepOfOne, Zenon

\* The same for WrInherit.
LEMMA WrInheritPreserves ==
  ASSUME Constants, IInv, NEW t \in Threads, WrInherit(t)
  PROVE  IInv'
<1>1. Known(t) /\ TypeOK /\ apc'[t] = Awake(pc'[t])
  BY KnownHolds, Here, Zenon DEF IInv
<1>2. Alone(t)
  BY <1>1, UnlockedBits DEF Known, TypeOK, Alone, WrInherit, Goto, lock, owners, locals, attr,
     Labels, RdBlocking, RdPassed, RdRegistered, RdOther, WrBlocking, WrSure, WrPrimary,
     WrRegistered, WrOther, Blocking
<1>3. ProperBits(t, apc'[t]) /\ ProperCounts(t, apc'[t])
  BY <1>1, UnlockedBits DEF Known, TypeOK, WrInherit, Goto, lock, owners, locals, attr, OK,
     ThreadOK, ProperBits, ProperCounts, Awake, Resume, Reader, Writer, IsP, IsPrimary, In,
     Constants, prefer_writer, Labels, RdBlocking, RdPassed, RdRegistered, RdOther, WrBlocking,
     WrSure, WrPrimary, WrRegistered, WrOther, Blocking
<1> QED
  BY <1>2, <1>3, AloneMoves, StepOfOne, Zenon

\* The same for WrTimeout.
LEMMA WrTimeoutPreserves ==
  ASSUME Constants, IInv, NEW t \in Threads, WrTimeout(t)
  PROVE  IInv'
<1>1. Known(t) /\ TypeOK /\ apc'[t] = Awake(pc'[t])
  BY KnownHolds, Here, Zenon DEF IInv
<1>2. Alone(t)
  <2>1. /\ flags' = flags /\ readers' \in Bits /\ writers' \in WBits /\ ReadsMove(t)
        /\ UNCHANGED <<writing, cur_writer>>
    BY <1>1, Zenon DEF WrTimeout, TypeOK, WBits, ReadsMove, attr, lock, owners
  <2>2. Return(t) \/ \E l \in Labels : Goto(t, l) /\ UNCHANGED <<r, ready>>
    BY Zenon DEF WrTimeout, locals, Labels, RdBlocking, RdPassed, RdRegistered, RdOther,
       WrBlocking, WrSure, WrPrimary, WrRegistered, WrOther, Blocking
  <2> QED
    BY <1>1, <2>1, <2>2, Returned, WentOn, Zenon
<1>3. ProperBits(t, apc'[t]) /\ ProperCounts(t, apc'[t])
  BY <1>1, UnlockedBits DEF Known, TypeOK, WrTimeout, Goto, Return, Reset, lock, owners, locals,
     attr, OK, ThreadOK, ProperBits, ProperCounts, Awake, Resume, Reader, Writer, IsP,
     IsPrimary, In, Constants, prefer_writer, Labels, RdBlocking, RdPassed, RdRegistered,
     RdOther, WrBlocking, WrSure, WrPrimary, WrRegistered, WrOther, Blocking
<1> QED
  BY <1>2, <1>3, AloneMoves, StepOfOne, Zenon

\* The same for WrEnable.
LEMMA WrEnablePreserves ==
  ASSUME Constants, IInv, NEW t \in Threads, WrEnable(t)
  PROVE  IInv'
<1>1. Known(t) /\ TypeOK /\ apc'[t] = Awake(pc'[t])
  BY KnownHolds, Here, Zenon DEF IInv
<1>2. Alone(t)
  BY <1>1, UnlockedBits DEF Known, TypeOK, Alone, WrEnable, Goto, lock, owners, locals, attr,
     Labels, RdBlocking, RdPassed, RdRegistered, RdOther, WrBlocking, WrSure, WrPrimary,
     WrRegistered, WrOther, Blocking
<1>3. ProperBits(t, apc'[t]) /\ ProperCounts(t, apc'[t])
  BY <1>1, UnlockedBits DEF Known, TypeOK, WrEnable, Goto, lock, owners, locals, attr, OK,
     ThreadOK, ProperBits, ProperCounts, Awake, Resume, Reader, Writer, IsP, IsPrimary, In,
     Constants, prefer_writer, Labels, RdBlocking, RdPassed, RdRegistered, RdOther, WrBlocking,
     WrSure, WrPrimary, WrRegistered, WrOther, Blocking
<1> QED
  BY <1>2, <1>3, AloneMoves, StepOfOne, Zenon

\* The same for WrStart.
LEMMA WrStartPreserves ==
  ASSUME Constants, IInv, NEW t \in Threads, WrStart(t)
  PROVE  IInv'
<1>1. Known(t) /\ TypeOK /\ apc'[t] = Awake(pc'[t])
  BY KnownHolds, Here, Zenon DEF IInv
<1>2. readers' \in Bits /\ writers' \in [handover : BOOLEAN, n : Nat]
  BY <1>1, Zenon DEF Known, WrStart, Bits
<1>3. Alone(t)
  BY <1>1, <1>2, UnlockedBits DEF Known, TypeOK, Alone, WrStart, Goto, lock, owners, locals,
     attr, IsP, IsPrimary, Awake, Labels, RdBlocking, RdPassed, RdRegistered, RdOther,
     WrBlocking, WrSure, WrPrimary, WrRegistered, WrOther, Blocking
<1>4. ProperBits(t, apc'[t]) /\ ProperCounts(t, apc'[t])
  BY <1>1, <1>2, UnlockedBits DEF Known, TypeOK, WrStart, Goto, lock, owners, locals, attr, OK,
     ThreadOK, ProperBits, ProperCounts, Awake, Resume, Reader, Writer, IsP, IsPrimary, In,
     Constants, prefer_writer, Bits, Labels, RdBlocking, RdPassed, RdRegistered, RdOther,
     WrBlocking, WrSure, WrPrimary, WrRegistered, WrOther, Blocking
<1> QED
  BY <1>3, <1>4, AloneMoves, StepOfOne, Zenon

\* The same for WrCheck.
LEMMA WrCheckPreserves ==
  ASSUME Constants, IInv, NEW t \in Threads, WrCheck(t)
  PROVE  IInv'
<1>1. Known(t) /\ TypeOK /\ apc'[t] = Awake(pc'[t])
  BY KnownHolds, Here, Zenon DEF IInv
<1>2. Alone(t)
  BY <1>1, UnlockedBits DEF Known, TypeOK, Alone, WrCheck, Goto, lock, owners, locals, attr,
     Labels, RdBlocking, RdPassed, RdRegistered, RdOther, WrBlocking, WrSure, WrPrimary,
     WrRegistered, WrOther, Blocking
<1>3. ProperBits(t, apc'[t]) /\ ProperCounts(t, apc'[t])
  BY <1>1, UnlockedBits DEF Known, TypeOK, WrCheck, Goto, lock, owners, locals, attr, OK,
     ThreadOK, ProperBits, ProperCounts, Awake, Resume, Reader, Writer, IsP, IsPrimary, In,
     Constants, prefer_writer, Labels, RdBlocking, RdPassed, RdRegistered, RdOther, WrBlocking,
     WrSure, WrPrimary, WrRegistered, WrOther, Blocking
<1> QED
  BY <1>2, <1>3, AloneMoves, StepOfOne, Zenon

\* The same for WrHandOver.
LEMMA WrHandOverPreserves ==
  ASSUME Constants, IInv, NEW t \in Threads, WrHandOver(t)
  PROVE  IInv'
<1>1. Known(t) /\ TypeOK /\ apc'[t] = Awake(pc'[t])
  BY KnownHolds, Here, Zenon DEF IInv
<1>2. Alone(t)
  <2>1. /\ flags' = flags /\ readers' \in Bits /\ writers' \in WBits /\ ReadsMove(t)
        /\ UNCHANGED <<writing, cur_writer>>
    BY <1>1, Zenon DEF WrHandOver, TypeOK, WBits, ReadsMove, attr, lock, owners, NoWriters
  <2>2. Return(t) \/ \E l \in Labels : Goto(t, l) /\ UNCHANGED <<r, ready>>
    BY Zenon DEF WrHandOver, locals, NoWriters, Labels, RdBlocking, RdPassed, RdRegistered,
       RdOther, WrBlocking, WrSure, WrPrimary, WrRegistered, WrOther, Blocking
  <2> QED
    BY <1>1, <2>1, <2>2, Returned, WentOn, Zenon
<1>3. ProperBits(t, apc'[t]) /\ ProperCounts(t, apc'[t])
  BY <1>1, UnlockedBits DEF Known, TypeOK, WrHandOver, Goto, Return, Reset, NoWriters, lock,
     owners, locals, attr, OK, ThreadOK, ProperBits, ProperCounts, Awake, Resume, Reader,
     Writer, IsP, IsPrimary, In, Constants, prefer_writer, Labels, RdBlocking, RdPassed,
     RdRegistered, RdOther, WrBlocking, WrSure, WrPrimary, WrRegistered, WrOther, Blocking
<1> QED
  BY <1>2, <1>3, AloneMoves, StepOfOne, Zenon

\* The same for WrDone.
LEMMA WrDonePreserves ==
  ASSUME Constants, IInv, NEW t \in Threads, WrDone(t)
  PROVE  IInv'
<1>1. Known(t) /\ TypeOK /\ apc'[t] = Awake(pc'[t])
  BY KnownHolds, Here, Zenon DEF IInv
<1>2. readers' \in Bits /\ writers' \in [handover : BOOLEAN, n : Nat]
  BY <1>1, Zenon DEF Known, WrDone, Bits
<1>3. Alone(t)
  BY <1>1, <1>2, UnlockedBits DEF Known, TypeOK, Alone, WrDone, Goto, Return, Reset, lock,
     owners, locals, attr, IsP, IsPrimary, Awake, Labels, RdBlocking, RdPassed, RdRegistered,
     RdOther, WrBlocking, WrSure, WrPrimary, WrRegistered, WrOther, Blocking
<1>4. ProperBits(t, apc'[t]) /\ ProperCounts(t, apc'[t])
  BY <1>1, <1>2, UnlockedBits DEF Known, TypeOK, WrDone, Goto, Return, Reset, lock, owners,
     locals, attr, OK, ThreadOK, ProperBits, ProperCounts, Awake, Resume, Reader, Writer, IsP,
     IsPrimary, In, Constants, prefer_writer, Bits, Labels, RdBlocking, RdPassed, RdRegistered,
     RdOther, WrBlocking, WrSure, WrPrimary, WrRegistered, WrOther, Blocking
<1> QED
  BY <1>3, <1>4, AloneMoves, StepOfOne, Zenon

\* The same for RdUnlock.
LEMMA RdUnlockPreserves ==
  ASSUME Constants, IInv, NEW t \in Threads, RdUnlock(t)
  PROVE  IInv'
<1>1. Known(t) /\ TypeOK /\ apc'[t] = Awake(pc'[t])
  BY KnownHolds, Here, Zenon DEF IInv
<1>2. Alone(t)
  BY <1>1, UnlockedBits DEF Known, TypeOK, Alone, RdUnlock, Goto, lock, owners, locals, attr,
     Labels, RdBlocking, RdPassed, RdRegistered, RdOther, WrBlocking, WrSure, WrPrimary,
     WrRegistered, WrOther, Blocking
<1>3. ProperBits(t, apc'[t]) /\ ProperCounts(t, apc'[t])
  BY <1>1, UnlockedBits DEF Known, TypeOK, RdUnlock, Goto, lock, owners, locals, attr, OK,
     ThreadOK, ProperBits, ProperCounts, Awake, Resume, Reader, Writer, IsP, IsPrimary, In,
     Constants, prefer_writer, Labels, RdBlocking, RdPassed, RdRegistered, RdOther, WrBlocking,
     WrSure, WrPrimary, WrRegistered, WrOther, Blocking
<1> QED
  BY <1>2, <1>3, AloneMoves, StepOfOne, Zenon

\* The same for RuPhase.
LEMMA RuPhasePreserves ==
  ASSUME Constants, IInv, NEW t \in Threads, RuPhase(t)
  PROVE  IInv'
<1>1. Known(t) /\ TypeOK /\ apc'[t] = Awake(pc'[t])
  BY KnownHolds, Here, Zenon DEF IInv
<1>2. Alone(t)
  <2>1. /\ flags' = flags /\ readers' \in Bits /\ writers' \in WBits /\ ReadsMove(t)
        /\ UNCHANGED <<writing, cur_writer>>
    BY <1>1, Zenon DEF RuPhase, TypeOK, WBits, ReadsMove, attr, lock, owners
  <2>2. Return(t) \/ \E l \in Labels : Goto(t, l) /\ UNCHANGED <<r, ready>>
    BY Zenon DEF RuPhase, locals, Labels, RdBlocking, RdPassed, RdRegistered, RdOther,
       WrBlocking, WrSure, WrPrimary, WrRegistered, WrOther, Blocking
  <2> QED
    BY <1>1, <2>1, <2>2, Returned, WentOn, Zenon
<1>3. ProperBits(t, apc'[t]) /\ ProperCounts(t, apc'[t])
  BY <1>1, UnlockedBits DEF Known, TypeOK, RuPhase, Goto, Return, Reset, lock, owners, locals,
     attr, OK, ThreadOK, ProperBits, ProperCounts, Awake, Resume, Reader, Writer, IsP,
     IsPrimary, In, Constants, prefer_writer, Labels, RdBlocking, RdPassed, RdRegistered,
     RdOther, WrBlocking, WrSure, WrPrimary, WrRegistered, WrOther, Blocking
<1> QED
  BY <1>2, <1>3, AloneMoves, StepOfOne, Zenon

\* The same for WrUnlock.
LEMMA WrUnlockPreserves ==
  ASSUME Constants, IInv, NEW t \in Threads, WrUnlock(t)
  PROVE  IInv'
<1>1. Known(t) /\ TypeOK /\ apc'[t] = Awake(pc'[t])
  BY KnownHolds, Here, Zenon DEF IInv
<1>2. Alone(t)
  BY <1>1, UnlockedBits DEF Known, TypeOK, Alone, WrUnlock, Goto, lock, owners, locals, attr,
     Labels, RdBlocking, RdPassed, RdRegistered, RdOther, WrBlocking, WrSure, WrPrimary,
     WrRegistered, WrOther, Blocking
<1>3. ProperBits(t, apc'[t]) /\ ProperCounts(t, apc'[t])
  BY <1>1, UnlockedBits DEF Known, TypeOK, WrUnlock, Goto, lock, owners, locals, attr, OK,
     ThreadOK, ProperBits, ProperCounts, Awake, Resume, Reader, Writer, IsP, IsPrimary, In,
     Constants, prefer_writer, Labels, RdBlocking, RdPassed, RdRegistered, RdOther, WrBlocking,
     WrSure, WrPrimary, WrRegistered, WrOther, Blocking
<1> QED
  BY <1>2, <1>3, AloneMoves, StepOfOne, Zenon

\* The same for WuHandOver.
LEMMA WuHandOverPreserves ==
  ASSUME Constants, IInv, NEW t \in Threads, WuHandOver(t)
  PROVE  IInv'
<1>1. Known(t) /\ TypeOK /\ apc'[t] = Awake(pc'[t])
  BY KnownHolds, Here, Zenon DEF IInv
<1>2. Alone(t)
  <2>1. /\ flags' = flags /\ readers' \in Bits /\ writers' \in WBits /\ ReadsMove(t)
        /\ UNCHANGED <<writing, cur_writer>>
    BY <1>1, Zenon DEF WuHandOver, TypeOK, WBits, ReadsMove, attr, lock, owners, WuDone,
       NoWriters
  <2>2. Return(t) \/ \E l \in Labels : Goto(t, l) /\ UNCHANGED <<r, ready>>
    BY Zenon DEF WuHandOver, locals, WuDone, NoWriters, Labels, RdBlocking, RdPassed,
       RdRegistered, RdOther, WrBlocking, WrSure, WrPrimary, WrRegistered, WrOther, Blocking
  <2> QED
    BY <1>1, <2>1, <2>2, Returned, WentOn, Zenon
<1>3. ProperBits(t, apc'[t]) /\ ProperCounts(t, apc'[t])
  BY <1>1, UnlockedBits DEF Known, TypeOK, WuHandOver, Goto, Return, Reset, WuDone, NoWriters,
     lock, owners, locals, attr, OK, ThreadOK, ProperBits, ProperCounts, Awake, Resume, Reader,
     Writer, IsP, IsPrimary, In, Constants, prefer_writer, Labels, RdBlocking, RdPassed,
     RdRegistered, RdOther, WrBlocking, WrSure, WrPrimary, WrRegistered, WrOther, Blocking
<1> QED
  BY <1>2, <1>3, AloneMoves, StepOfOne, Zenon

\* The same for WuPhase.
LEMMA WuPhasePreserves ==
  ASSUME Constants, IInv, NEW t \in Threads, WuPhase(t)
  PROVE  IInv'
<1>1. Known(t) /\ TypeOK /\ apc'[t] = Awake(pc'[t])
  BY KnownHolds, Here, Zenon DEF IInv
<1>2. Alone(t)
  <2>1. /\ flags' = flags /\ readers' \in Bits /\ writers' \in WBits /\ ReadsMove(t)
        /\ UNCHANGED <<writing, cur_writer>>
    BY <1>1, Zenon DEF WuPhase, TypeOK, WBits, ReadsMove, attr, lock, owners, WuDone
  <2>2. Return(t) \/ \E l \in Labels : Goto(t, l) /\ UNCHANGED <<r, ready>>
    BY Zenon DEF WuPhase, locals, WuDone, Labels, RdBlocking, RdPassed, RdRegistered, RdOther,
       WrBlocking, WrSure, WrPrimary, WrRegistered, WrOther, Blocking
  <2> QED
    BY <1>1, <2>1, <2>2, Returned, WentOn, Zenon
<1>3. ProperBits(t, apc'[t]) /\ ProperCounts(t, apc'[t])
  BY <1>1, UnlockedBits DEF Known, TypeOK, WuPhase, Goto, Return, Reset, WuDone, lock, owners,
     locals, attr, OK, ThreadOK, ProperBits, ProperCounts, Awake, Resume, Reader, Writer, IsP,
     IsPrimary, In, Constants, prefer_writer, Labels, RdBlocking, RdPassed, RdRegistered,
     RdOther, WrBlocking, WrSure, WrPrimary, WrRegistered, WrOther, Blocking
<1> QED
  BY <1>2, <1>3, AloneMoves, StepOfOne, Zenon

\* The same for TryWrLock.
LEMMA TryWrLockPreserves ==
  ASSUME Constants, IInv, NEW t \in Threads, TryWrLock(t)
  PROVE  IInv'
<1>1. Known(t) /\ TypeOK /\ apc'[t] = Awake(pc'[t])
  BY KnownHolds, Here, Zenon DEF IInv
<1>2. readers' \in Bits /\ writers' \in [handover : BOOLEAN, n : Nat]
  BY <1>1, Zenon DEF Known, TryWrLock, Bits
<1>3. Alone(t)
  BY <1>1, <1>2, UnlockedBits DEF Known, TypeOK, Alone, TryWrLock, Goto, CanTryWrite, lock,
     owners, locals, attr, IsP, IsPrimary, Awake, Labels, RdBlocking, RdPassed, RdRegistered,
     RdOther, WrBlocking, WrSure, WrPrimary, WrRegistered, WrOther, Blocking
<1>4. ProperBits(t, apc'[t]) /\ ProperCounts(t, apc'[t])
  BY <1>1, <1>2, UnlockedBits DEF Known, TypeOK, TryWrLock, Goto, CanTryWrite, lock, owners,
     locals, attr, OK, ThreadOK, ProperBits, ProperCounts, Awake, Resume, Reader, Writer, IsP,
     IsPrimary, In, Constants, prefer_writer, Bits, Labels, RdBlocking, RdPassed, RdRegistered,
     RdOther, WrBlocking, WrSure, WrPrimary, WrRegistered, WrOther, Blocking
<1> QED
  BY <1>3, <1>4, AloneMoves, StepOfOne, Zenon

\* The same for TwEnable.
LEMMA TwEnablePreserves ==
  ASSUME Constants, IInv, NEW t \in Threads, TwEnable(t)
  PROVE  IInv'
<1>1. Known(t) /\ TypeOK /\ apc'[t] = Awake(pc'[t])
  BY KnownHolds, Here, Zenon DEF IInv
<1>2. Alone(t)
  BY <1>1, UnlockedBits DEF Known, TypeOK, Alone, TwEnable, Goto, lock, owners, locals, attr,
     Labels, RdBlocking, RdPassed, RdRegistered, RdOther, WrBlocking, WrSure, WrPrimary,
     WrRegistered, WrOther, Blocking
<1>3. ProperBits(t, apc'[t]) /\ ProperCounts(t, apc'[t])
  BY <1>1, UnlockedBits DEF Known, TypeOK, TwEnable, Goto, lock, owners, locals, attr, OK,
     ThreadOK, ProperBits, ProperCounts, Awake, Resume, Reader, Writer, IsP, IsPrimary, In,
     Constants, prefer_writer, Labels, RdBlocking, RdPassed, RdRegistered, RdOther, WrBlocking,
     WrSure, WrPrimary, WrRegistered, WrOther, Blocking
<1> QED
  BY <1>2, <1>3, AloneMoves, StepOfOne, Zenon

\* A step that changes nothing.
LEMMA StutterPreserves ==
  ASSUME IInv, UNCHANGED vars
  PROVE  IInv'
<1>1. /\ UNCHANGED <<readers, writers, pc, r, ready, reads, writing, cur_writer, flags>>
           /\ apc' = apc
  BY Zenon DEF vars, attr, lock, locals, owners, apc
<1>2. TypeOK' /\ Primaries'
  BY <1>1, Zenon DEF IInv, TypeOK, Primaries, IsP
<1>3. \A t \in Threads : OK(t)'
  BY <1>1, Zenon DEF IInv, OK, ThreadOK, prefer_writer
<1>4. Where(RdRegistered)' = Where(RdRegistered) /\ Where(RdPassed)' = Where(RdPassed)
      /\ Where(WrRegistered)' = Where(WrRegistered) /\ Held(reads') = Held(reads)
           /\ prefer_writer' = prefer_writer
  BY <1>1, Zenon DEF Where, prefer_writer
<1>5. Counts'
  BY <1>1, <1>4 DEF IInv, Counts
<1> QED
  BY <1>2, <1>3, <1>5, Zenon DEF IInv

\* A lock that PTHREAD_RWLOCK_INITIALIZER has set up.
LEMMA InitIInv ==
  ASSUME Constants, Init
  PROVE  IInv
<1>1. TypeOK
  <2>1. readers \in Bits /\ r \in [Threads -> Bits] /\ writers \in [handover : BOOLEAN, n : Nat]
    BY UnlockedBits, WriterBits, Zenon DEF Init, WBits
  <2>2. "idle" \in Labels /\ 0 \in Nat
    BY DEF Labels
  <2> QED
    BY <2>1, <2>2, Zenon DEF Init, TypeOK
<1>2. apc = [u \in Threads |-> "idle"]
  BY DEF Init, apc, Awake, Blocking
<1>3. \A t \in Threads : /\ apc[t] = "idle" /\ ~ready[t] /\ reads[t] = 0 /\ t \notin writing
  BY <1>2, Zenon DEF Init
<1>4. \A t \in Threads : OK(t)
  BY <1>3 DEF OK, ThreadOK, Reader, Writer, Labels, RdBlocking, RdPassed, RdRegistered, RdOther,
     WrBlocking, WrSure, WrPrimary, WrRegistered, WrOther, Blocking
<1>5. /\ ~readers.wp /\ ~readers.wl /\ ~readers.rw /\ readers.n = 0 /\ ~writers.handover
           /\ writers.n = 0
      /\ cur_writer = NoThread /\ writing = {}
  BY DEF Init, Unlocked, NoWriters
<1>6. \A t \in Threads : ~IsP(t)
  BY <1>3 DEF IsP, IsPrimary, Labels, RdBlocking, RdPassed, RdRegistered, RdOther, WrBlocking,
     WrSure, WrPrimary, WrRegistered, WrOther, Blocking
<1>7. Primaries
  BY <1>5, <1>6, Zenon DEF Primaries, Constants
<1>8. Where(RdRegistered) = {} /\ Where(RdPassed) = {} /\ Where(WrRegistered) = {}
  BY <1>3 DEF Where, Labels, RdBlocking, RdPassed, RdRegistered, RdOther, WrBlocking, WrSure,
     WrPrimary, WrRegistered, WrOther, Blocking
<1>9. Cardinality(Held(reads)) = 0 /\ Cardinality({}) = 0
  <2>1. reads \in [Threads -> Nat] /\ \A t \in Threads : reads[t] = 0
    BY <1>1, <1>3, Zenon DEF TypeOK
  <2>2. {} \in SUBSET Threads
    BY Zenon
  <2> QED
    BY <2>1, <2>2, Zenon DEF Constants, Countable, ReadsCountable
<1>10. Counts
  BY <1>5, <1>8, <1>9 DEF Counts, Constants
<1> QED
  BY <1>1, <1>4, <1>7, <1>10, Zenon DEF IInv

\* Every step preserves the inductive invariant.
LEMMA NextIInv ==
  ASSUME Constants, IInv, Next
  PROVE  IInv'
<1>1. PICK t \in Threads : Call(t) \/ Unlock(t) \/ GiveUp(t) \/ Step(t) \/ SpuriousWakeup(t)
  BY Zenon DEF Next
<1>2. CASE Call(t)
  BY <1>2, QuietSteps, TryRdLockPreserves, TryWrLockPreserves, Zenon DEF Call
<1>3. CASE Unlock(t)
  BY <1>3, RdUnlockPreserves, WrUnlockPreserves, Zenon DEF Unlock
<1>4. CASE GiveUp(t)
  BY <1>4, QuietSteps, RdGiveUpPreserves, WrTimeoutPreserves, Zenon DEF GiveUp
<1>5. CASE Step(t)
  BY <1>5, QuietSteps, WakeSteps, RdPreferPreserves, RdLoadRWPreserves, RdRegisterPreserves,
     RdOverflowPreserves, RdStartPreserves, RdPhasePreserves, RdWakePPreserves, RdWpfPreserves,
     RdCheckPreserves, RdUnregisterPreserves, RdSpinPreserves, WrSetPreserves,
     WrRegisterPreserves, WrTryPreserves, WrUnregisterPreserves, WrTokenPreserves,
     WrInheritPreserves, WrTimeoutWPreserves, WrEnablePreserves, WrStartPreserves,
     WrCheckPreserves, WrHandOverPreserves, WrReleasePreserves, WrDonePreserves,
     RuLeavePreserves, RuPhasePreserves, WuHandOverPreserves, WuReleasePreserves,
     WuPhasePreserves, TwEnablePreserves, Zenon DEF Step
<1> QED
  BY <1>1, <1>2, <1>3, <1>4, <1>5, SpuriousWakeupPreserves, Zenon

\* The invariant implies Exclusion: a writer means a write phase, and a reader that
\* holds the lock a read phase.
LEMMA Excludes ==
  ASSUME Constants, IInv
  PROVE  Exclusion
<1>1. TypeOK /\ Primaries /\ \A t \in Threads : OK(t)
  BY Zenon DEF IInv
<1>2. ASSUME NEW t \in writing PROVE writing = {t} /\ \A u \in Threads : reads[u] = 0
  <2>1. \A u \in writing : u = t
    BY <1>1, <1>2, Zenon DEF TypeOK, Primaries, IsP, IsPrimary
  <2>2. t \in Threads /\ readers.wp
    BY <1>1, <1>2, Zenon DEF TypeOK, OK, ThreadOK, Writer
  <2>3. \A u \in Threads : ~(reads[u] > 0) /\ reads[u] \in Nat
    BY <1>1, <2>2, Zenon DEF TypeOK, OK, ThreadOK, Reader
  <2>4. \A u \in Threads : reads[u] = 0
    BY <2>3
  <2> QED
    BY <1>2, <2>1, <2>4, Zenon
<1> QED
  BY <1>2, Zenon DEF Exclusion

\* The invariant implies the table of states.
LEMMA TablesMatch ==
  ASSUME Constants, IInv
  PROVE  StateTable
<1>1. TypeOK /\ Primaries /\ Counts
  BY Zenon DEF IInv
<1>2. \A t \in Threads : apc[t] = Awake(pc[t]) /\ pc[t] \in Labels
  BY <1>1, Zenon DEF apc, TypeOK
<1>3. \A l \in Labels :
        /\ Awake(l) \in WrRegistered <=> l \in WrRegistered
        /\ Awake(l) \in RdRegistered <=> l \in RdRegistered
        /\ Awake(l) \in WrPrimary <=> l \in WrPrimary
  BY DEF Awake, Resume, Labels, RdBlocking, RdPassed, RdRegistered, RdOther, WrBlocking, WrSure,
     WrPrimary, WrRegistered, WrOther, Blocking
<1>4. Registered = Where(RdRegistered) /\ RegisteredWriters = Where(WrRegistered)
  BY <1>2, <1>3 DEF Registered, RegisteredWriters, Where, At, RdRegistered, RdPassed,
     RdBlocking, WrRegistered
<1>5. Primary = {t \in Threads : IsP(t)}
  BY <1>1, <1>2, <1>3 DEF Primary, At, IsP, IsPrimary, TypeOK, WrPrimary, WrSure, WrBlocking
<1>6. /\ Cardinality({}) = 0 /\ \A t \in Threads : Cardinality({t}) = 1
  <2>1. {} \in SUBSET Threads /\ \A t \in Threads : {} \cup {t} = {t} /\ t \in Threads \ {}
    BY Zenon
  <2>2. Cardinality({}) = 0
          /\ \A x \in Threads \ {} : Cardinality({} \cup {x}) = Cardinality({}) + 1
    BY <2>1, Zenon DEF Constants, Countable
  <2>3. \A t \in Threads : Cardinality({t}) = Cardinality({}) + 1
    BY <2>1, <2>2
  <2> QED
    BY <2>2, <2>3
<1>7. Cardinality(Primary) = IF Primary = {} THEN 0 ELSE 1
  <2>1. CASE Primary = {}
    BY <1>6, <2>1, Zenon
  <2>2. CASE Primary # {}
    <3>1. PICK t \in Threads : IsP(t)
      BY <1>5, <2>2, Zenon
    <3>2. Primary = {t}
      BY <1>1, <1>5, <3>1, Zenon DEF Primaries
    <3> QED
      BY <1>6, <2>2, <3>2, Zenon
  <2> QED
    BY <2>1, <2>2, Zenon
<1>8. /\ Primary # {} => readers.wl /\ ~writers.handover
      /\ writers.handover => readers.wl
      /\ readers.wl => writers.handover \/ Primary # {}
  BY <1>1, <1>5, Zenon DEF Primaries
<1>9. OnePrimaryWriter
  <2>1. Cardinality(Primary) + (IF writers.handover THEN 1 ELSE 0) = IF readers.wl THEN 1 ELSE 0
    BY <1>7, <1>8
  <2> QED
    BY <1>1, <1>4, <2>1, Zenon DEF OnePrimaryWriter, Counts
<1>10. ReadLocks < READER_OVERFLOW /\ ReadLocks = Cardinality(Held(reads))
  <2>1. Cardinality(Held(reads)) \in Nat /\ Cardinality(Where(RdPassed)) \in Nat
    <3>1. Where(RdPassed) \in SUBSET Threads /\ reads \in [Threads -> Nat]
      BY <1>1, Zenon DEF Where, TypeOK
    <3> QED
      BY <3>1, Zenon DEF Constants, Countable, ReadsCountable
  <2>2. Cardinality(Held(reads)) + Cardinality(Where(RdPassed)) < READER_OVERFLOW
          /\ READER_OVERFLOW \in Nat
    BY <1>1, Zenon DEF Counts, Constants
  <2>3. ReadLocks = Cardinality(Held(reads))
    BY Zenon DEF ReadLocks, Held
  <2> QED
    BY <2>1, <2>2, <2>3
<1> QED
  BY <1>1, <1>4, <1>9, <1>10, Zenon DEF StateTable, Counts

-----------------------------------------------------------------------------
\* The library's facts about finite sets come in by an instance at this place,
\* since they would burden every step above if the module extended theirs.
F == INSTANCE FiniteSetTheorems

\* The operators of the instance are those of FiniteSets.
LEMMA SameSets == \A S : Cardinality(S) = F!Cardinality(S)
  /\ (IsFiniteSet(S) <=> F!IsFiniteSet(S))
<1>1. \A S : IsFiniteSet(S) <=> F!IsFiniteSet(S)
  BY Zenon DEF IsFiniteSet, F!IsFiniteSet
<1>2. \A S : Cardinality(S) = F!Cardinality(S)
  BY Zenon DEF Cardinality, F!Cardinality, IsFiniteSet, F!IsFiniteSet
<1> QED
  BY <1>1, <1>2, Zenon

\* A finite set of threads can be counted.
LEMMA CountableHolds == Countable(Threads)
<1> SUFFICES ASSUME NEW S \in SUBSET Threads
             PROVE  /\ Cardinality(S) \in Nat
                    /\ Cardinality(S) = 0 <=> S = {}
                    /\ \A x \in Threads \ S : Cardinality(S \cup {x}) = Cardinality(S) + 1
                    /\ \A x \in S : Cardinality(S \ {x}) = Cardinality(S) - 1
                    /\ \A R \in SUBSET S : Cardinality(R) <= Cardinality(S)
  BY Zenon DEF Countable
<1>1. IsFiniteSet(S)
  BY RWLockAssumption, SameSets, F!FS_Subset, Zenon
<1>2. Cardinality(S) \in Nat
  BY <1>1, SameSets, F!FS_CardinalityType, Zenon
<1>3. \A x \in Threads \ S : Cardinality(S \cup {x}) = Cardinality(S) + 1
  BY <1>1, SameSets, F!FS_AddElement, Zenon
<1>4. \A x \in S : Cardinality(S \ {x}) = Cardinality(S) - 1
  BY <1>1, SameSets, F!FS_RemoveElement, Zenon
<1>5. \A R \in SUBSET S : Cardinality(R) <= Cardinality(S)
  BY <1>1, SameSets, F!FS_Subset, Zenon
<1>6. Cardinality(S) = 0 <=> S = {}
  BY <1>1, SameSets, F!FS_EmptySet, Zenon
<1> QED
  BY <1>2, <1>3, <1>4, <1>5, <1>6, Zenon

\* There are finitely many read locks.
LEMMA HeldFinite ==
  ASSUME NEW f \in [Threads -> Nat]
  PROVE  F!IsFiniteSet(Held(f))
<1> DEFINE g == [t \in Threads |-> {t} \X (1 .. f[t])]
           G == {{t} \X (1 .. f[t]) : t \in Threads}
<1>1. g \in F!Surjection(Threads, G)
  BY Zenon DEF F!Surjection
<1>2. \A T \in G : F!IsFiniteSet(T)
  <2> SUFFICES ASSUME NEW t \in Threads PROVE F!IsFiniteSet({t} \X (1 .. f[t]))
    BY Zenon
  <2>1. 1 \in Int /\ f[t] \in Int
    OBVIOUS
  <2>2. F!IsFiniteSet(1 .. f[t])
    BY <2>1, F!FS_Interval, Zenon
  <2> QED
    BY <2>2, F!FS_Singleton, F!FS_Product, Zenon
<1>3. F!IsFiniteSet(Threads)
  BY RWLockAssumption, SameSets, Zenon
<1> HIDE DEF g, G
<1>4. F!IsFiniteSet(G)
  BY <1>1, <1>3, F!FS_Surjection, Zenon
<1>5. F!IsFiniteSet(UNION G)
  BY <1>2, <1>4, F!FS_UNION, Zenon
<1> QED
  BY <1>5, Zenon DEF Held, G

\* They can be counted.
LEMMA ReadsCountableHolds == ReadsCountable
<1> SUFFICES ASSUME NEW f \in [Threads -> Nat]
             PROVE  /\ Cardinality(Held(f)) \in Nat
                    /\ Cardinality(Held(f)) = 0 <=> \A t \in Threads : f[t] = 0
                    /\ \A g \in [Threads -> Nat], t \in Threads :
                         OneMore(f, g, t) => Cardinality(Held(g)) = Cardinality(Held(f)) + 1
  BY Zenon DEF ReadsCountable
<1>1. F!IsFiniteSet(Held(f))
  BY HeldFinite, Zenon
<1>2. Cardinality(Held(f)) \in Nat
  BY <1>1, SameSets, F!FS_CardinalityType, Zenon
<1>3. Held(f) = {} <=> \A t \in Threads : f[t] = 0
  <2>1. ASSUME NEW t \in Threads, f[t] # 0 PROVE Held(f) # {}
    <3>1. 1 \in 1 .. f[t]
      BY <2>1
    <3>2. <<t, 1>> \in {t} \X (1 .. f[t])
      BY <3>1
    <3> QED
      BY <3>2, Zenon DEF Held
  <2>2. ASSUME \A t \in Threads : f[t] = 0 PROVE Held(f) = {}
    <3>1. \A t \in Threads : 1 .. f[t] = {}
      BY <2>2
    <3>2. \A t \in Threads : {t} \X (1 .. f[t]) = {}
      BY <3>1
    <3> QED
      BY <3>2, Zenon DEF Held
  <2> QED
    BY <2>1, <2>2, Zenon
<1>4. Cardinality(Held(f)) = 0 <=> Held(f) = {}
  BY <1>1, SameSets, F!FS_EmptySet, Zenon
<1>5. ASSUME NEW g \in [Threads -> Nat], NEW t \in Threads, OneMore(f, g, t)
      PROVE  Cardinality(Held(g)) = Cardinality(Held(f)) + 1
  <2> DEFINE x == <<t, f[t] + 1>>
  <2>1. \A u \in Threads : f[u] \in Nat /\ g[u] \in Nat
    OBVIOUS
  <2>2. 1 .. g[t] = (1 .. f[t]) \cup {f[t] + 1} /\ f[t] + 1 \notin 1 .. f[t]
    BY <1>5, <2>1 DEF OneMore
  <2>3. \A y : y \in {t} \X (1 .. g[t]) <=> y \in {t} \X (1 .. f[t]) \/ y = x
    BY <2>2
  <2>4. \A u \in Threads \ {t} : g[u] = f[u]
    BY <1>5, Zenon DEF OneMore
  <2>5. \A u \in Threads : x \notin {u} \X (1 .. f[u])
    BY <2>2
  <2> HIDE DEF x
  <2>6. Held(g) = Held(f) \cup {x}
    <3>1. \A y : y \in Held(g) <=> \E u \in Threads : y \in {u} \X (1 .. g[u])
      BY Zenon DEF Held
    <3>2. \A y : y \in Held(f) <=> \E u \in Threads : y \in {u} \X (1 .. f[u])
      BY Zenon DEF Held
    <3>3. \A u \in Threads \ {t} : {u} \X (1 .. g[u]) = {u} \X (1 .. f[u])
      BY <2>4, Zenon
    <3>4. \A y : y \in Held(g) <=> y \in Held(f) \/ y = x
      BY <2>3, <3>1, <3>2, <3>3, Zenon
    <3> QED
      BY <3>4, Zenon
  <2>7. x \notin Held(f)
    BY <2>5, Zenon DEF Held
  <2>8. F!Cardinality(Held(f) \cup {x}) = F!Cardinality(Held(f)) + 1
    BY <1>1, <2>7, F!FS_AddElement, Zenon
  <2> QED
    BY <2>6, <2>8, SameSets, Zenon
<1> QED
  BY <1>2, <1>3, <1>4, <1>5, Zenon

\* The constants are as the lemmas assume.
LEMMA ConstantsHold == Constants
  BY RWLockAssumption, CountableHolds, ReadsCountableHolds, Zenon DEF Constants

\* The inductive invariant holds.
LEMMA Invariance == Spec => []IInv
<1>1. Init => IInv
  BY ConstantsHold, InitIInv, Zenon
<1>2. IInv /\ [Next]_vars => IInv'
  BY ConstantsHold, NextIInv, StutterPreserves, Zenon
<1> QED
  BY <1>1, <1>2, PTL DEF Spec

\* A writer excludes every reader and every other writer, whichever way each got
\* the lock: at once, by explicit hand-over of a phase, by writer-writer hand-over,
\* by a time-out that comes too late or by a try.
THEOREM ExclusionCorrect == Spec => []Exclusion
<1>1. IInv => Exclusion
  BY ConstantsHold, Excludes, Zenon
<1> QED
  BY <1>1, Invariance, PTL

\* __readers and __writers are always in one of the states of the table in
\* pthread_rwlock_common.c: WRLOCKED has one owner or one token, RWAITING is set
\* only while a writer waits for readers, both counts are exact, and the read locks
\* held stay below the overflow mark.
THEOREM StateTableCorrect == Spec => []StateTable
<1>1. IInv => StateTable
  BY ConstantsHold, TablesMatch, Zenon
<1> QED
  BY <1>1, Invariance, PTL

=============================================================================
