-------------------------- MODULE ThreadExitProofs --------------------------
(***************************************************************************)
(* Proofs about ThreadExit.  First the walk of __nptl_deallocate_tsd over  *)
(* the values of an exiting thread, and with it the theorems about         *)
(* ThreadSpecific; then Cancellation, with its inductive invariant, for    *)
(* any number of threads that call pthread_cancel.                         *)
(***************************************************************************)
EXTENDS ThreadExit, ThreadSpecificProofs

USE DEF Goto, Set, Return, NoLocals, NoData, NULL, tables, arrays, walk, Working, None, Walked
USE SMTT(30), ZenonT(30)

\* The size of the first level is a number.
LEMMA FirstLevel ==
  ASSUME Sizes
  PROVE  PTHREAD_KEY_1STLEVEL_SIZE \in Nat
<1> DEFINE n == PTHREAD_KEYS_MAX + PTHREAD_KEY_2NDLEVEL_SIZE - 1
<1>1. n \in Nat
  BY DEF Sizes
<1> HIDE DEF n
<1>2. n \div PTHREAD_KEY_2NDLEVEL_SIZE \in Nat
  BY <1>1, BlockFacts DEF Block
<1> QED
  BY <1>2 DEF n, PTHREAD_KEY_1STLEVEL_SIZE

\* The walk visits one key, or skips an array that does not exist: by the size
\* of the first level, which leaves out no key that has a value when both
\* sizes are the same.
LEMMA VisitPreserves ==
  ASSUME Sizes, IInv, NEW t \in Threads, Visit(t)
  PROVE  IInv'
<1> DEFINE K == idx[t]
<1>1. /\ K \in Nat /\ K \in Keys /\ pc[t] = "visit"
      /\ UNCHANGED <<tables, blocks, specific_used, exiting, round>>
  BY DEF Sizes, IInv, Control, Visit, Keys
<1>5. WalkOf(t) /\ exiting[t]
  BY <1>1, ItsWalk DEF WalkOf
<1>2. CASE Block(K) \notin blocks[t]
  <2>1. /\ idx' = [idx EXCEPT ![t] = @ + PTHREAD_KEY_1STLEVEL_SIZE]
        /\ UNCHANGED <<specific, last, pc, local>>
    BY <1>2 DEF Visit, Advance
  <2>7. Tables' /\ Slots' /\ Data'
    BY <1>1, <2>1, TablesStep, DataStep
  <2>2. PTHREAD_KEY_1STLEVEL_SIZE \in Nat
    BY FirstLevel
  <2>3. Control' /\ Locals' /\ Arrays' /\ Calls'
    <3>1. Control'
      BY <1>1, <2>1, <2>2 DEF IInv, Control
    <3>2. Calls'
      BY <1>1, <2>1, SameCall DEF IInv, Calls
    <3> QED
      BY <1>1, <2>1, <3>1, <3>2, ArraysStep DEF IInv, Locals
  <2>4. \A k \in Walked : k < K + PTHREAD_KEY_1STLEVEL_SIZE => k < K \/ specific[t][k].data = NULL
    <3>1. SUFFICES ASSUME NEW k \in Walked, k < K + PTHREAD_KEY_1STLEVEL_SIZE, ~(k < K)
                   PROVE  specific[t][k].data = NULL
      OBVIOUS
    <3>2. k \in Nat /\ k \in Keys
      BY DEF Sizes, Keys
    <3>3. CASE OneSize
      <4>1. Aligned(K)
        BY <1>2, <1>5, <3>3 DEF WalkOf
      <4>2. k \in K .. K + PTHREAD_KEY_2NDLEVEL_SIZE - 1
        BY <1>1, <3>1, <3>2, <3>3 DEF Sizes, OneSize
      <4>3. Block(k) = Block(K)
        BY <1>1, <4>1, <4>2, BlockFacts
      <4> QED
        BY <1>2, <3>2, <4>3, ItsData DEF DataOf
    <3>4. CASE k \in FirstBlock
      <4>1. Block(k) = 0 /\ 0 \in blocks[t]
        BY <1>5, <3>2, <3>4, BlockFacts DEF WalkOf
      <4>2. K \notin FirstBlock
        BY <1>1, <1>2, <4>1, BlockFacts
      <4> QED
        BY <1>1, <3>1, <3>2, <3>4, <4>2 DEF Sizes, FirstBlock
    <3> QED
      BY <3>3, <3>4
  <2>5. OneSize => Aligned(K + PTHREAD_KEY_1STLEVEL_SIZE)
    <3>1. SUFFICES ASSUME OneSize
                   PROVE  Aligned(K + PTHREAD_KEY_2NDLEVEL_SIZE)
      BY DEF OneSize
    <3>2. Aligned(K)
      BY <1>2, <1>5, <3>1 DEF WalkOf
    <3> QED
      BY <1>1, <3>2, BlockFacts
  <2>6. Walks'
    <3>1. /\ idx'[t] = K + PTHREAD_KEY_1STLEVEL_SIZE
          /\ \A u \in Threads \ {t} : Same(u)
      BY <1>1, <2>1 DEF IInv, Control, Same
    <3> HIDE DEF K
    <3>2. WalkOf(t)'
      BY <1>1, <1>5, <2>1, <2>4, <2>5, <3>1 DEF WalkOf, K
    <3> QED
      BY <3>1, <3>2, WalksStep
  <2> QED
    BY <2>3, <2>6, <2>7 DEF IInv
<1>3. CASE Block(K) \in blocks[t] /\ specific[t][K].data = NULL
  <2>1. idx' = [idx EXCEPT ![t] = @ + 1] /\ UNCHANGED <<specific, last, pc, local>>
    BY <1>3 DEF Visit, Advance
  <2>6. Tables' /\ Slots' /\ Data'
    BY <1>1, <2>1, TablesStep, DataStep
  <2>2. Control' /\ Locals' /\ Arrays' /\ Calls'
    <3>1. Control'
      BY <1>1, <2>1 DEF IInv, Control
    <3>2. Calls'
      BY <1>1, <2>1, SameCall DEF IInv, Calls
    <3> QED
      BY <1>1, <2>1, <3>1, <3>2, ArraysStep DEF IInv, Locals
  <2>3. Block(K + 1) = Block(K) \/ Aligned(K + 1)
    BY <1>1, BlockFacts
  <2>4. \A k \in Keys : k < K + 1 => k < K \/ k = K
    BY <1>1 DEF Sizes, Keys
  <2>5. Walks'
    <3>1. idx'[t] = K + 1 /\ \A u \in Threads \ {t} : Same(u)
      BY <1>1, <2>1 DEF IInv, Control, Same
    <3>2. WalkOf(t)'
      BY <1>1, <1>3, <1>5, <2>1, <2>3, <2>4, <3>1 DEF WalkOf
    <3> QED
      BY <3>1, <3>2, WalksStep
  <2> QED
    BY <2>2, <2>5, <2>6 DEF IInv
<1>4. CASE Block(K) \in blocks[t] /\ specific[t][K].data # NULL
  <2>1. specific' = [specific EXCEPT ![t][K] = NoData] /\ last' = [last EXCEPT ![t][K] = NULL]
    BY <1>4 DEF Visit
  <2>2. Arrays'
    BY <1>1, <2>1 DEF IInv, Arrays
  <2>3. \A u \in Threads, k \in Keys :
          specific'[u][k].data = IF u = t /\ k = K THEN NULL ELSE specific[u][k].data
    BY <1>1, <2>1 DEF IInv, Arrays
  <2>4. \A k \in Keys : (k < K + 1 => k < K \/ k = K) /\ (k <= K => k < K \/ k = K)
    BY <1>1 DEF Sizes, Keys
  <2>7. Data'
    <3>1. \A u \in Threads, k \in Keys :
            /\ specific'[u][k] = IF u = t /\ k = K THEN NoData ELSE specific[u][k]
            /\ last'[u][k] = IF u = t /\ k = K THEN NULL ELSE last[u][k]
      BY <1>1, <2>1 DEF IInv, Arrays
    <3>2. \A u \in Threads : pc'[u] \in {"none", "just_free"} \/ pc[u] \notin {"none", "just_free"}
      BY <1>1, <1>4 DEF IInv, Control, Visit
    <3>3. SUFFICES ASSUME NEW u \in Threads, NEW k \in Keys
                   PROVE  DataOf(u, k)'
      BY DEF Data
    <3>4. CASE u = t /\ k = K
      BY <3>1, <3>4, NullData
    <3>5. CASE ~(u = t /\ k = K)
      <4>1. specific'[u][k] = specific[u][k] /\ last'[u][k] = last[u][k]
        BY <3>1, <3>5
      <4> QED
        BY <1>1, <3>2, <4>1, ItsData, SameData
    <3> QED
      BY <3>4, <3>5
  <2>8. Tables' /\ Slots'
    BY <1>1, TablesStep
  <2>5. CASE Current(t, K)
    <3> DEFINE l == [key |-> K, seq |-> keys[K].seq, data |-> specific[t][K].data]
    <3>1. /\ local' = [local EXCEPT ![t] = l] /\ idx' = idx
          /\ pc' = [pc EXCEPT ![t] = "destr"]
      BY <1>4, <2>5 DEF Visit
    <3>2. l \in [key : Nat, seq : Nat, data : Nat]
      BY <1>1 DEF IInv, Tables, Arrays
    <3>3. /\ l.key = K /\ l.seq = keys[K].seq /\ l.data = l.seq
          /\ ~KEY_UNUSED(l.seq) /\ live[K] = l.seq /\ l.seq \in Nat
      BY <1>1, <1>4, <2>5, <3>2, ItsData DEF DataOf, Current
    <3> HIDE DEF l
    <3>4. Control' /\ Locals'
      BY <1>1, <3>1, <3>2 DEF IInv, Control, Locals
    <3>5. Calls'
      <4>1. pc'[t] = "destr" /\ \A u \in Threads \ {t} : pc'[u] = pc[u] /\ local'[u] = local[u]
        BY <3>1 DEF IInv, Control, Locals
      <4>2. local'[t] = l
        BY <3>1 DEF IInv, Locals
      <4>3. CallOf(t)'
        BY <1>1, <3>3, <4>1, <4>2 DEF CallOf, Call
      <4>4. \A u \in Threads \ {t} : CallOf(u)'
        BY <1>1, <4>1, ItsCall, SameCall
      <4> QED
        BY <1>1, <4>1, <4>3, <4>4 DEF IInv, Calls
    <3>6. Walks'
      <4>1. local'[t].key = K /\ pc'[t] = "destr"
        BY <3>1, <3>3 DEF IInv, Control, Locals
      <4>2. \A u \in Threads \ {t} : Same(u)
        BY <1>1, <2>1, <3>1 DEF IInv, Control, Locals, Arrays, Same
      <4>3. WalkOf(t)'
        BY <1>1, <1>4, <1>5, <2>3, <2>4, <3>1, <4>1 DEF WalkOf
      <4> QED
        BY <4>2, <4>3, WalksStep
    <3> QED
      BY <2>2, <2>7, <2>8, <3>4, <3>5, <3>6 DEF IInv
  <2>6. CASE ~Current(t, K)
    <3>1. idx' = [idx EXCEPT ![t] = @ + 1] /\ UNCHANGED <<pc, local>>
      BY <1>4, <2>6 DEF Visit, Advance
    <3>2. Control' /\ Locals' /\ Calls'
      <4>1. Calls'
        BY <1>1, <3>1, SameCall DEF IInv, Calls
      <4> QED
        BY <1>1, <3>1, <4>1 DEF IInv, Control, Locals
    <3>3. Block(K + 1) = Block(K) \/ Aligned(K + 1)
      BY <1>1, BlockFacts
    <3>4. Walks'
      <4>1. idx'[t] = K + 1 /\ \A u \in Threads \ {t} : Same(u)
        BY <1>1, <2>1, <3>1 DEF IInv, Control, Arrays, Same
      <4>2. WalkOf(t)'
        BY <1>1, <1>4, <1>5, <2>3, <2>4, <3>1, <3>3, <4>1 DEF WalkOf
      <4> QED
        BY <4>1, <4>2, WalksStep
    <3> QED
      BY <2>2, <2>7, <2>8, <3>2, <3>4 DEF IInv
  <2> QED
    BY <2>5, <2>6
<1> QED
  BY <1>2, <1>3, <1>4

\* The end of a pass.
LEMMA EndPassPreserves ==
  ASSUME Sizes, IInv, NEW t \in Threads, EndPass(t)
  PROVE  IInv'
<1>1. /\ pc[t] = "visit" /\ idx[t] >= PTHREAD_KEYS_MAX /\ idx[t] \in Nat
      /\ UNCHANGED <<tables, blocks, last, local, exiting>>
  BY DEF IInv, Control, EndPass
<1>9. WalkOf(t) /\ exiting[t]
  BY <1>1, ItsWalk DEF WalkOf
<1>2. \A k \in Keys : k < idx[t] /\ ~(k < 0)
  BY <1>1 DEF Sizes, Keys
<1>6. PICK l \in {"visit", "just_free"} : Goes(t, l)
  BY DEF EndPass, BeginPass, Goes
<1>7. Control'
  BY <1>1 DEF IInv, Control, EndPass, BeginPass
<1>8. Locals' /\ Calls' /\ Tables' /\ Slots'
  BY <1>1, <1>6, CallsStep, TablesStep DEF IInv, Locals
<1>3. CASE ~specific_used[t]
  <2>1. pc' = [pc EXCEPT ![t] = "just_free"] /\ UNCHANGED <<specific, specific_used, idx, round>>
    BY <1>3 DEF EndPass
  <2>2. Arrays' /\ Data'
    BY <1>1, <2>1, ArraysStep, DataStep DEF IInv, Control
  <2>3. Walks'
    <3>1. pc'[t] = "just_free" /\ \A u \in Threads \ {t} : Same(u)
      BY <1>1, <2>1 DEF IInv, Control, Same
    <3>2. WalkOf(t)'
      BY <1>1, <1>2, <1>3, <1>9, <2>1, <3>1 DEF WalkOf
    <3> QED
      BY <3>1, <3>2, WalksStep
  <2> QED
    BY <1>7, <1>8, <2>2, <2>3 DEF IInv
<1>4. CASE specific_used[t] /\ round[t] + 1 < PTHREAD_DESTRUCTOR_ITERATIONS
  <2>1. round' = [round EXCEPT ![t] = @ + 1] /\ round'[t] = round[t] + 1
    BY <1>4 DEF IInv, Control, EndPass
  <2>2. /\ specific' = specific /\ specific_used' = [specific_used EXCEPT ![t] = FALSE]
        /\ idx' = [idx EXCEPT ![t] = 0] /\ pc' = [pc EXCEPT ![t] = "visit"]
    BY <1>4, <2>1 DEF EndPass, BeginPass
  <2>3. Block(0) = 0
    BY BlockFacts DEF Sizes, FirstBlock
  <2>4. Arrays' /\ Data'
    <3>1. Arrays'
      BY <1>1, <2>2 DEF IInv, Arrays
    <3> QED
      BY <1>1, <2>2, <3>1, DataStep DEF IInv, Control
  <2>5. Walks'
    <3>1. /\ pc'[t] = "visit" /\ idx'[t] = 0
          /\ \A u \in Threads \ {t} : Same(u)
      BY <1>1, <2>1, <2>2 DEF IInv, Control, Arrays, Same
    <3>2. WalkOf(t)'
      BY <1>1, <1>2, <1>9, <2>2, <2>3, <3>1 DEF WalkOf
    <3> QED
      BY <3>1, <3>2, WalksStep
  <2> QED
    BY <1>7, <1>8, <2>4, <2>5 DEF IInv
<1>5. CASE specific_used[t] /\ ~(round[t] + 1 < PTHREAD_DESTRUCTOR_ITERATIONS)
  <2>1. round' = [round EXCEPT ![t] = @ + 1] /\ round'[t] = round[t] + 1
    BY <1>5 DEF IInv, Control, EndPass
  <2>2. /\ pc' = [pc EXCEPT ![t] = "just_free"] /\ UNCHANGED <<specific_used, idx>>
        /\ Cleared(t, FirstBlock)
    BY <1>5, <2>1 DEF EndPass
  <2>3. \A u \in Threads, k \in Keys :
          specific'[u][k] = IF u = t /\ k \in FirstBlock THEN NoData ELSE specific[u][k]
    BY <2>2 DEF IInv, Arrays, Cleared
  <2>4. Arrays'
    BY <1>1, <2>2 DEF IInv, Arrays, Cleared
  <2>5. Data'
    <3>1. SUFFICES ASSUME NEW u \in Threads, NEW k \in Keys
                   PROVE  DataOf(u, k)'
      BY DEF Data
    <3>2. pc'[u] \in {"none", "just_free"} \/ pc[u] \notin {"none", "just_free"}
      BY <2>2 DEF IInv, Control
    <3>3. CASE u = t /\ k \in FirstBlock
      <4>1. specific'[u][k].data = NULL /\ pc'[u] = "just_free"
        BY <2>2, <2>3, <3>3 DEF IInv, Control
      <4> QED
        BY <4>1, NullData
    <3>4. CASE ~(u = t /\ k \in FirstBlock)
      <4>1. specific'[u][k] = specific[u][k]
        BY <2>3, <3>4
      <4> QED
        BY <1>1, <3>2, <4>1, ItsData, SameData
    <3> QED
      BY <3>3, <3>4
  <2>6. \A k \in Keys : specific[t][k].data = NULL => specific'[t][k].data = NULL
    BY <2>3
  <2>7. \A k \in FirstBlock : k \in Keys => specific'[t][k].data = NULL
    BY <2>3
  <2>8. Walks'
    <3>1. pc'[t] = "just_free" /\ \A u \in Threads \ {t} : Same(u)
      BY <1>1, <2>1, <2>2 DEF IInv, Control, Arrays, Cleared, Same
    <3>2. ~(round'[t] < PTHREAD_DESTRUCTOR_ITERATIONS)
      BY <1>5, <2>1
    <3>3. WalkOf(t)'
      BY <1>1, <1>5, <1>9, <2>2, <2>6, <2>7, <3>1, <3>2, Zenon DEF WalkOf
    <3> QED
      BY <3>1, <3>3, WalksStep
  <2> QED
    BY <1>7, <1>8, <2>4, <2>5, <2>8 DEF IInv
<1> QED
  BY <1>3, <1>4, <1>5

\* The arrays are freed, and the descriptor is ready for the next thread.
LEMMA JustFreePreserves ==
  ASSUME Sizes, IInv, NEW t \in Threads, JustFree(t)
  PROVE  IInv'
<1>1. \A u \in Threads, k \in Keys :
        specific'[u][k] = IF u = t /\ k \notin FirstBlock THEN NoData ELSE specific[u][k]
  BY DEF IInv, Arrays, JustFree, Cleared
<1>2. \A k \in Keys : specific'[t][k].data = NULL
  BY <1>1, ItsWalk DEF WalkOf, JustFree
<1>3. UNCHANGED <<tables, last, local>> /\ pc'[t] = "none" /\ ~exiting'[t]
  BY DEF IInv, Control, JustFree
<1>4. blocks'[t] = {0} /\ idx'[t] = 0
  BY DEF IInv, Control, Arrays, JustFree
<1>5. \A u \in Threads :
        u # t => /\ pc'[u] = pc[u] /\ exiting'[u] = exiting[u] /\ blocks'[u] = blocks[u]
                 /\ idx'[u] = idx[u] /\ round'[u] = round[u] /\ specific_used'[u] = specific_used[u]
  BY DEF IInv, Control, Arrays, JustFree
<1>6. Data'
  <2>1. ASSUME NEW k \in Keys
        PROVE  DataOf(t, k)'
    BY <1>2, <1>3, NullData
  <2>2. ASSUME NEW u \in Threads, u # t, NEW k \in Keys
        PROVE  DataOf(u, k)'
    <3>1. specific'[u][k] = specific[u][k] /\ pc'[u] = pc[u] /\ blocks'[u] = blocks[u]
      BY <1>1, <1>5, <2>2
    <3> QED
      BY <1>3, <3>1, ItsData, SameData
  <2> QED
    BY <2>1, <2>2 DEF Data
<1>7. Block(0) = 0
  BY BlockFacts DEF Sizes, FirstBlock
<1>8. Walks'
  <2>1. \A u \in Threads \ {t} : specific'[u] = specific[u]
    BY DEF IInv, Arrays, JustFree, Cleared
  <2>2. \A u \in Threads \ {t} : Same(u)
    BY <1>3, <1>5, <2>1 DEF Same
  <2>3. WalkOf(t)'
    BY <1>2, <1>3, <1>4, <1>7 DEF WalkOf
  <2> QED
    BY <2>2, <2>3, WalksStep
<1>9. Goes(t, "none") /\ Locals'
  BY DEF IInv, Locals, JustFree, Goes
<1>10. Calls'
  BY <1>3, <1>9, CallsStep
<1>11. Control'
  BY DEF IInv, Control, JustFree
<1>12. Arrays'
  BY DEF IInv, Arrays, JustFree, Cleared
<1>13. Tables' /\ Slots'
  BY <1>3, TablesStep
<1> QED
  BY <1>6, <1>8, <1>9, <1>10, <1>11, <1>12, <1>13 DEF IInv


\* The invariant of ThreadSpecific holds at the start,
LEMMA InitIInv == Init => IInv
<1> SUFFICES ASSUME Sizes, Init
             PROVE  IInv
  BY SizesAssumption
<1>1. Control /\ Locals /\ Arrays /\ Tables
  BY DEF Init, Control, Locals, Arrays, Tables
<1>2. \A k \in Keys : keys[k].seq = 0 /\ keys[k].destr = NULL /\ live[k] = 0
  BY DEF Init
<1>3. \A t \in Threads : /\ pc[t] = "none" /\ ~exiting[t] /\ idx[t] = 0 /\ blocks[t] = {0}
                         /\ \A k \in Keys : specific[t][k].data = NULL /\ last[t][k] = NULL
  BY Zenon DEF Init
<1>4. Slots /\ Calls
  BY <1>2, <1>3 DEF Sizes, Slots, Calls, CallOf, Call
<1>5. Data
  BY <1>3 DEF Data, DataOf
<1>6. Walks
  <2>1. Block(0) = 0
    BY BlockFacts DEF Sizes, FirstBlock
  <2> QED
    BY <1>3, <2>1, Zenon DEF Walks, WalkOf
<1> QED
  BY <1>1, <1>4, <1>5, <1>6 DEF IInv

\* and every step keeps it.
LEMMA NextIInv == IInv /\ NoWrap /\ [Next]_vars => IInv'
<1> SUFFICES ASSUME Sizes, IInv, NoWrap, [Next]_vars
             PROVE  IInv'
  BY SizesAssumption
<1>1. CASE UNCHANGED vars
  <2>1. UNCHANGED <<tables, arrays, pc, local, walk, started>>
    BY <1>1 DEF vars
  <2>2. Control' /\ Locals' /\ Calls' /\ Tables' /\ Slots'
    BY <2>1, StayStep
  <2>3. Arrays' /\ Data'
    BY <2>1, ArraysStep, DataStep
  <2>4. Walks'
    BY <2>1, SameWalk DEF IInv, Walks, Same
  <2> QED
    BY <2>2, <2>3, <2>4 DEF IInv
<1>2. ASSUME NEW t \in Threads, NEW k \in Keys,
             DeleteLoad(t, k) \/ SetSpecific(t, k) \/ GetSpecific(t, k)
      PROVE  IInv'
  BY <1>2, DeleteLoadPreserves, SetSpecificPreserves, GetSpecificPreserves
<1>3. ASSUME NEW t \in Threads,
             \/ CreateBegin(t) \/ CreateLoad(t) \/ CreateCAS(t) \/ CreateDestr(t) \/ DeleteCAS(t)
             \/ Start(t) \/ Exit(t) \/ Visit(t) \/ Destr(t) \/ DestrReturns(t) \/ EndPass(t)
             \/ JustFree(t)
      PROVE  IInv'
  BY <1>3, CreateBeginPreserves, CreateLoadPreserves, CreateCASPreserves,
     CreateDestrPreserves,
     DeleteCASPreserves, StartPreserves, ExitPreserves, VisitPreserves, DestrPreserves,
     EndPassPreserves, JustFreePreserves
<1> QED
  BY <1>1, <1>2, <1>3 DEF Next

\* The invariant holds as long as no sequence number wraps.
THEOREM Invariant == Spec /\ []NoWrap => []IInv
  BY InitIInv, NextIInv, PTL DEF Spec

\* Where a uintptr_t is not longer than an unsigned int no sequence number ever wraps.
THEOREM NeverWraps ==
  ASSUME UINTPTR <= UINT
  PROVE  Spec => []NoWrap
<1>1. IInv => NoWrap
  BY SizesAssumption DEF Sizes, IInv, Tables, Calls, NoWrap
<1> QED
  BY <1>1, InitIInv, NextIInv, PTL DEF Spec

\* pthread_getspecific returns what this thread stored last under this key,
\* however keys are created and deleted at the same time and descriptors
\* reused, as long as no sequence number wraps in the unsigned int of
\* pthread_key_delete.
THEOREM GetsOwnHolds == Spec /\ []NoWrap => []GetsOwn
<1>1. IInv => GetsOwn
  <2> SUFFICES ASSUME IInv
               PROVE  GetsOwn
    OBVIOUS
  <2> SUFFICES ASSUME NEW k \in Keys, live[k] # 0
               PROVE  /\ keys[k].seq = live[k]
                      /\ \A t \in Threads : pc[t] = "user" => Result(t, k) = last[t][k]
    BY DEF GetsOwn
  <2>1. keys[k].seq = live[k]
    BY DEF IInv, Slots
  <2>2. ASSUME NEW t \in Threads, pc[t] = "user"
        PROVE  Result(t, k) = last[t][k]
    <3>1. last[t][k] = IF specific[t][k].data # NULL /\ specific[t][k].seq = keys[k].seq
                         THEN keys[k].seq ELSE NULL
      BY <2>2, ItsData DEF DataOf
    <3>2. specific[t][k].data # NULL => specific[t][k].data = specific[t][k].seq
      BY ItsData DEF DataOf
    <3> QED
      BY <3>1, <3>2 DEF Result, Current
  <2> QED
    BY <2>1, <2>2
<1> QED
  BY <1>1, Invariant, PTL

\* __nptl_deallocate_tsd drops no value before PTHREAD_DESTRUCTOR_ITERATIONS
\* passes and gives it to no destructor of another key, for the sizes that
\* glibc has: as many arrays as there are keys in an array.
THEOREM DestructorsRunHolds ==
  ASSUME OneSize
  PROVE  Spec /\ []NoWrap => []DestructorsRun
<1>1. IInv => DestructorsRun
  <2> SUFFICES ASSUME IInv, NEW t \in Threads
               PROVE  /\ pc[t] = "just_free" /\ round[t] < PTHREAD_DESTRUCTOR_ITERATIONS =>
                           \A k \in Keys : specific[t][k].data = NULL
                      /\ pc[t] = "destr" /\ ~Reallocated(t) =>
                           keys[local[t].key].destr \in {NULL, local[t].data}
    BY Zenon DEF DestructorsRun
  <2>1. pc[t] = "just_free" /\ round[t] < PTHREAD_DESTRUCTOR_ITERATIONS =>
          \A k \in Keys : specific[t][k].data = NULL
    BY ItsWalk DEF WalkOf
  <2>2. ASSUME pc[t] = "destr", ~Reallocated(t)
        PROVE  keys[local[t].key].destr \in {NULL, local[t].data}
    <3> DEFINE K == local[t].key
               S == local[t].seq
    <3>1. /\ K \in Keys /\ S \in Nat /\ local[t].data = S /\ S <= keys[K].seq /\ ~KEY_UNUSED(S)
          /\ keys[K].seq = S => live[K] = S
      BY <2>2, ItsCall DEF IInv, Locals, CallOf, Call
    <3>2. keys[K].seq \in Nat /\ keys[K].destr \in Nat
      BY <3>1 DEF IInv, Tables
    <3>3. keys[K].seq = S \/ keys[K].seq = S + 1
      BY <2>2, <3>1, <3>2 DEF Reallocated
    <3>4. S # 0 /\ KEY_UNUSED(S + 1)
      BY <3>1, Parity
    <3> HIDE DEF K, S
    <3> QED
      BY <3>1, <3>2, <3>3, <3>4 DEF IInv, Slots, K
  <2> QED
    BY <2>1, <2>2
<1> QED
  BY <1>1, Invariant, PTL

InBridge(p) ==
  p \in {"arch_start", "arch_syscall", "blocked", "arch_end_done", "arch_end_eintr"}

\* The bridge is entered, and left for good, with cancellation enabled in a
\* thread that is not unwinding.
BridgeOpen == InBridge(tpc) => C!cancel_enabled(ch) /\ result = "none"

\* A signal is sent only after the request has been recorded.
Requested == (sig \/ \E c \in Cancelers : cpc[c] = "kill") => "CANCELED" \in ch

\* A thread that has a result is unwinding, or is about to start to.
Unwinding ==
  /\ result # "none" => C!cancel_exiting(ch) \/ C!Acting
  /\ C!cancel_exiting(ch) \/ tpc = "do_cancel" => result # "none"

\* A signal handler never runs on top of a system call that is still blocked.
NotBlocked == nested => tpc # "blocked"

CancelIInv == C!TypeOK /\ BridgeOpen /\ NotBlocked /\ Requested /\ Unwinding /\ C!RequestNotLost

\* The step of ActsOnlyWhenAllowed.
Allowed ==
  (~C!Acting /\ C!Acting' /\ ~(result = "none" /\ result' = "exit")) =>
    /\ "CANCELED" \in ch' /\ C!cancel_enabled(ch')
    /\ tpc = "arch_end_done" => C!cancel_async_enabled(ch)
    /\ result # "none" => "CANCELED" \notin ch

USE DEF C!cancel_enabled, C!cancel_async_enabled, C!cancel_exiting,
        C!cancel_enabled_and_canceled, C!cancel_enabled_and_canceled_and_async

\* The invariant of Cancellation holds at the start.
LEMMA CancelInitIInv == C!Init => CancelIInv
BY ZenonT(60) DEF C!Init, CancelIInv, C!TypeOK, BridgeOpen, NotBlocked, InBridge,
   Requested, Unwinding,
       C!RequestNotLost, C!Acting, C!Committed, C!Bits, C!Labels

\* Every step of the target or of a signal preserves the invariant and is allowed.
LEMMA TargetStep ==
  ASSUME CancelIInv, C!Step \/ C!sigcancel_handler \/ C!HandlerEntered \/ C!HandlerReturned
  PROVE  CancelIInv' /\ Allowed
<1> USE DEF CancelIInv, C!TypeOK, BridgeOpen, NotBlocked, InBridge, Requested, Unwinding, C!RequestNotLost,
            C!Acting, C!Committed, Allowed, C!Bits, C!Labels, C!Others
<1>1. CASE C!pthread_setcancelstate
  BY <1>1 DEF C!pthread_setcancelstate, C!SetBit, C!Running, C!Update, C!Decide
<1>2. CASE C!pthread_setcanceltype
  BY <1>2 DEF C!pthread_setcanceltype, C!SetBit, C!Running, C!Update, C!Decide
<1>3. CASE C!RegisterDefer
  BY <1>3 DEF C!RegisterDefer, C!Running
<1>4. CASE C!UnregisterRestore
  <2>1. CASE region = "async" /\ ~C!cancel_async_enabled(ch) /\ C!cancel_enabled_and_canceled(ch)
    <3>1. /\ ch' = ch \cup {"CANCELTYPE"} /\ tpc' = "do_cancel" /\ result' = "canceled"
          /\ region' = "none" /\ UNCHANGED <<nested, sig, cpc, cold, lost>>
      BY <1>4, <2>1 DEF C!UnregisterRestore, C!Update, C!Decide
    <3>2. tpc = "run" /\ ~nested
      BY <1>4 DEF C!UnregisterRestore, C!Running
    <3> QED
      BY <2>1, <3>1, <3>2
  <2>2. CASE region = "async" /\ ~C!cancel_async_enabled(ch) /\ ~C!cancel_enabled_and_canceled(ch)
    <3>1. /\ ch' = ch \cup {"CANCELTYPE"} /\ UNCHANGED <<tpc, result>>
          /\ region' = "none" /\ UNCHANGED <<nested, sig, cpc, cold, lost>>
      BY <1>4, <2>2 DEF C!UnregisterRestore, C!Update
    <3>2. tpc = "run" /\ ~nested
      BY <1>4 DEF C!UnregisterRestore, C!Running
    <3> QED
      BY <2>2, <3>1, <3>2
  <2>3. CASE ~(region = "async" /\ ~C!cancel_async_enabled(ch))
    BY ZenonT(60), <1>4, <2>3 DEF C!UnregisterRestore, C!Running
  <2> QED
    BY <2>1, <2>2, <2>3
<1>5. CASE C!pthread_testcancel
  BY <1>5 DEF C!pthread_testcancel, C!Running, C!Decide
<1>6. CASE C!pthread_exit
  BY <1>6 DEF C!pthread_exit, C!Running, C!Decide
<1>7. CASE C!CancelSelf
  BY <1>7 DEF C!CancelSelf, C!Running, C!Update, C!Decide
<1>8. CASE C!SyscallDoCancel
  BY <1>8 DEF C!SyscallDoCancel, C!Decide
<1>9. CASE C!DoCancel
  BY <1>9 DEF C!DoCancel, C!Exiting
<1>10. CASE C!Exit
  BY <1>10 DEF C!Exit, C!Running
<1>11. CASE C!Syscall
  BY <1>11 DEF C!Syscall, C!Running, C!Goto, C!Bridged
<1>12. CASE C!ArchStart
  BY <1>12 DEF C!ArchStart, C!Goto
<1>13. CASE C!Issue
  BY <1>13 DEF C!Issue, C!Goto
<1>14. CASE C!Complete
  <2>1. CASE tpc = "blocked" /\ C!Goto("arch_end_done")
    BY <2>1 DEF C!Goto
  <2>2. CASE tpc = "direct" /\ ~nested /\ C!Goto("run")
    BY <2>2 DEF C!Goto
  <2> QED
    BY <1>14, <2>1, <2>2 DEF C!Complete
<1>15. CASE C!SyscallReturn
  BY <1>15 DEF C!SyscallReturn, C!Goto
<1>16. CASE C!sigcancel_handler
  <2>1. PICK p \in IF nested THEN {tpc} ELSE C!Interrupted(tpc) :
          IF \/ C!cancel_enabled_and_canceled_and_async(ch)
             \/ (~nested /\ C!cancellation_pc_check(p))
            THEN tpc' = "syscall_do_cancel" /\ nested' = FALSE /\ UNCHANGED lost
            ELSE /\ tpc' = p
                 /\ lost' = (lost \/ (nested /\ p = "arch_syscall"))
                 /\ UNCHANGED nested
    BY <1>16 DEF C!sigcancel_handler
  <2>2. sig /\ tpc # "exited" /\ sig' = FALSE /\ UNCHANGED <<ch, region, result, cpc, cold>>
    BY <1>16 DEF C!sigcancel_handler
  <2>3. /\ p \in C!Labels /\ p # "exited"
        /\ InBridge(p) => InBridge(tpc)
        /\ ~nested => p # "blocked"
        /\ p # tpc => tpc \in {"blocked", "direct"} /\ p \notin {"do_cancel", "syscall_do_cancel"}
    <3>1. CASE nested
      BY <2>1, <2>2, <3>1
    <3>2. CASE ~nested
      BY <2>1, <2>2, <3>2 DEF C!Interrupted
    <3> QED
      BY <3>1, <3>2
  <2>4. CASE C!cancel_enabled_and_canceled_and_async(ch)
    BY ZenonT(60), <2>1, <2>2, <2>4
  <2>5. CASE ~C!cancel_enabled_and_canceled_and_async(ch) /\ ~nested /\ C!cancellation_pc_check(p)
    BY ZenonT(60), <2>1, <2>2, <2>3, <2>5 DEF C!cancellation_pc_check
  <2>6. CASE ~C!cancel_enabled_and_canceled_and_async(ch) /\ ~(~nested /\ C!cancellation_pc_check(p))
    <3>1. tpc' = p /\ UNCHANGED nested /\ lost' = (lost \/ (nested /\ p = "arch_syscall"))
      BY <2>1, <2>6
    <3>2. lost' \in BOOLEAN /\ (nested /\ p = "arch_syscall" => lost')
      BY <3>1
    <3>3. p # "blocked" /\ (p = "arch_syscall" => lost')
      BY <2>1, <2>3, <2>6, <3>2 DEF C!cancellation_pc_check
    <3> QED
      BY ZenonT(60), <2>2, <2>3, <2>6, <3>1, <3>2, <3>3
  <2> QED
    BY <2>4, <2>5, <2>6
<1>17. CASE C!HandlerEntered
  BY <1>17 DEF C!HandlerEntered, C!Interrupted
<1>18. CASE C!HandlerReturned
  BY ZenonT(60), <1>18 DEF C!HandlerReturned
<1> QED
  BY <1>1, <1>2, <1>3, <1>4, <1>5, <1>6, <1>7, <1>8, <1>9, <1>10,
     <1>11, <1>12, <1>13, <1>14, <1>15, <1>16, <1>17, <1>18 DEF C!Step

\* So does every step of a thread in pthread_cancel; it makes the target do nothing.
LEMMA CancelerStep ==
  ASSUME CancelIInv, NEW c \in Cancelers, C!CancelLoad(c) \/ C!CancelCAS(c) \/ C!CancelKill(c)
  PROVE  CancelIInv' /\ Allowed
<1> USE DEF CancelIInv, C!TypeOK, BridgeOpen, NotBlocked, InBridge, Requested, Unwinding, C!RequestNotLost,
            C!Acting, C!Committed, Allowed, C!Bits, C!Labels, C!target
<1>1. CASE C!CancelLoad(c)
  BY <1>1 DEF C!CancelLoad
<1>2. CASE C!CancelCAS(c)
  <2>1. CASE "CANCELED" \in cold[c]
    <3>1. /\ UNCHANGED <<ch, tpc, region, result, nested, sig, lost>> /\ cpc[c] = "cas"
          /\ cpc' = [cpc EXCEPT ![c] = "idle"] /\ cold' = [cold EXCEPT ![c] = {}]
      BY <1>2, <2>1 DEF C!CancelCAS, C!CancelReturn
    <3>2. C!TypeOK'
      BY <3>1
    <3>3. \A d \in Cancelers : cpc'[d] = "kill" <=> cpc[d] = "kill"
      BY <3>1
    <3> QED
      BY <3>1, <3>2, <3>3
  <2>2. CASE "CANCELED" \notin cold[c] /\ C!CASFails(c)
    <3>1. /\ UNCHANGED <<ch, cpc, tpc, region, result, nested, sig, lost>>
          /\ cold' = [cold EXCEPT ![c] = ch]
      BY <1>2, <2>2 DEF C!CancelCAS
    <3>2. C!TypeOK'
      BY <3>1
    <3> QED
      BY <3>1, <3>2
  <2>3. CASE "CANCELED" \notin cold[c] /\ ~C!CASFails(c) /\ C!cancel_enabled(cold[c])
    <3>1. /\ ch' = ch \cup {"CANCELED"} /\ UNCHANGED <<tpc, region, result, nested, sig, lost>>
          /\ cpc' = [cpc EXCEPT ![c] = "kill"] /\ cold' = [cold EXCEPT ![c] = {}]
      BY <1>2, <2>3 DEF C!CancelCAS, C!CancelReturn
    <3>2. C!TypeOK'
      BY <3>1
    <3>3. cpc'[c] = "kill" /\ (\A d \in Cancelers \ {c} : cpc'[d] = cpc[d])
      BY <3>1
    <3>4. ch = cold[c]
      BY <2>3 DEF C!CASFails
    <3>5. BridgeOpen' /\ NotBlocked' /\ Requested' /\ Unwinding' /\ Allowed
      BY <3>1
    <3>6. C!RequestNotLost'
      BY <3>3
    <3> QED
      BY <3>2, <3>5, <3>6
  <2>4. CASE "CANCELED" \notin cold[c] /\ ~C!CASFails(c) /\ ~C!cancel_enabled(cold[c])
    <3>1. /\ ch' = ch \cup {"CANCELED"} /\ UNCHANGED <<tpc, region, result, nested, sig, lost>>
          /\ cpc' = [cpc EXCEPT ![c] = "idle"] /\ cold' = [cold EXCEPT ![c] = {}]
      BY <1>2, <2>4 DEF C!CancelCAS, C!CancelReturn
    <3>2. C!TypeOK'
      BY <3>1
    <3>3. cpc'[c] = "idle" /\ (\A d \in Cancelers \ {c} : cpc'[d] = cpc[d])
      BY <3>1
    <3>4. ch = cold[c]
      BY <2>4 DEF C!CASFails
    <3>5. BridgeOpen' /\ NotBlocked' /\ Requested' /\ Unwinding' /\ Allowed
      BY <3>1
    <3>6. C!RequestNotLost'
      BY <2>4, <3>1, <3>4
    <3> QED
      BY <3>2, <3>5, <3>6
  <2> QED
    BY <2>1, <2>2, <2>3, <2>4
<1>3. CASE C!CancelKill(c)
  BY ZenonT(60), <1>3 DEF C!CancelKill, C!CancelReturn
<1> QED
  BY <1>1, <1>2, <1>3

\* Every step of Cancellation keeps the invariant and is allowed.
LEMMA NextStep == CancelIInv /\ [C!Next]_(C!vars) => CancelIInv' /\ (Allowed \/ UNCHANGED C!vars)
<1> SUFFICES ASSUME CancelIInv, [C!Next]_(C!vars)
             PROVE  CancelIInv' /\ (Allowed \/ UNCHANGED C!vars)
  OBVIOUS
<1>1. CASE C!Next
  BY <1>1, TargetStep, CancelerStep DEF C!Next
<1>2. CASE UNCHANGED C!vars
  BY <1>2 DEF C!vars, C!target, CancelIInv, C!TypeOK, BridgeOpen, NotBlocked, InBridge,
     Requested, Unwinding,
              C!RequestNotLost, C!Acting, C!Committed
<1> QED
  BY <1>1, <1>2

\* A cancellation request is never lost between the target's last look at
\* cancelhandling and the system call that blocks it, however many threads call
\* pthread_cancel (the exceptions are those of RequestNotLost).
THEOREM RequestNotLostCorrect == C!Spec => []RequestNotLost
<1>1. CancelIInv => RequestNotLost
  BY DEF CancelIInv, RequestNotLost
<1> QED
  BY <1>1, CancelInitIInv, NextStep, PTL DEF C!Spec

\* A request is acted upon only with cancellation enabled, once, and never in
\* place of returning the side effects of a system call.
THEOREM ActsOnlyWhenAllowedCorrect == C!Spec => ActsOnlyWhenAllowed
<1>1. CancelIInv /\ [C!Next]_(C!vars) => [Allowed]_(C!vars)
  BY NextStep
<1> QED
  BY <1>1, CancelInitIInv, NextStep, PTL DEF C!Spec, ActsOnlyWhenAllowed,
     C!ActsOnlyWhenAllowed, Allowed
=============================================================================
