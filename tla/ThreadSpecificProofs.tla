------------------------ MODULE ThreadSpecificProofs ------------------------
(***************************************************************************)
(* The inductive invariant of ThreadSpecific, for any number of threads,   *)
(* keys and passes, and the proof that the functions on keys and their     *)
(* values keep it; ThreadExitProofs has the walk at thread exit and the    *)
(* theorems.                                                               *)
(***************************************************************************)
EXTENDS ThreadSpecific, Integers, TLAPS

\* No key in use has the last sequence number that fits in an unsigned int.
NoWrap == \A k \in Keys : live[k] # 0 => live[k] + 1 < UINT

Working == {"create_load", "create_cas", "create_destr", "delete_cas"}

Control ==
  /\ pc \in [Threads -> Working \cup {"none", "user", "visit", "destr", "just_free"}]
  /\ exiting \in [Threads -> BOOLEAN]
  /\ idx \in [Threads -> Nat] /\ round \in [Threads -> Nat]

Locals == local \in [Threads -> [key : Nat, seq : Nat, data : Nat]]

Tables ==
  /\ keys \in [Keys -> [seq : Nat, destr : Nat]]
  /\ live \in [Keys -> Nat]

Arrays ==
  /\ specific \in [Threads -> [Keys -> [seq : Nat, data : Nat]]]
  /\ blocks \in [Threads -> SUBSET Nat]
  /\ specific_used \in [Threads -> BOOLEAN]
  /\ last \in [Threads -> [Keys -> Nat]]

\* An odd sequence number is that of a key that the program has, or that one
\* call of pthread_key_create is about to return; and whose destructor is there.
Slots ==
  \A k \in Keys :
    /\ keys[k].seq < UINTPTR
    /\ live[k] # 0 => live[k] = keys[k].seq /\ ~KEY_UNUSED(keys[k].seq)
    /\ live[k] # 0 => keys[k].destr \in {NULL, keys[k].seq}
    /\ KEY_UNUSED(keys[k].seq) => keys[k].destr = NULL \/ keys[k].destr + 1 = keys[k].seq

Call(t, k, s) ==
  /\ pc[t] = "create_load" => k <= PTHREAD_KEYS_MAX
  /\ pc[t] \in {"create_cas", "create_destr", "delete_cas", "destr"} => k \in Keys
  /\ pc[t] = "create_cas" => KEY_UNUSED(s) /\ s + 2 < UINTPTR
  /\ pc[t] = "create_destr" =>
       keys[k].seq = s + 1 /\ KEY_UNUSED(s) /\ live[k] = 0 /\ s + 2 < UINTPTR
  /\ pc[t] = "delete_cas" => s + 1 < UINTPTR
  /\ pc[t] = "destr" => local[t].data = s
  /\ pc[t] \in {"delete_cas", "destr"} =>
       ~KEY_UNUSED(s) /\ s <= keys[k].seq /\ (keys[k].seq = s => live[k] = s)

CallOf(t) == Call(t, local[t].key, local[t].seq)

Calls ==
  /\ \A t \in Threads : CallOf(t)
  /\ \A t, u \in Threads :
       pc[t] = "create_destr" /\ pc[u] = "create_destr" /\ local[t].key = local[u].key => t = u
  /\ \A k \in Keys : live[k] # 0 => live[k] + 1 < UINTPTR

\* The data a thread has under a key that still is in its slot is what it stored there.
DataOf(t, k) ==
  /\ specific[t][k].data # NULL =>
       /\ specific[t][k].data = specific[t][k].seq
       /\ specific[t][k].seq <= keys[k].seq
       /\ ~KEY_UNUSED(specific[t][k].seq)
       /\ specific[t][k].seq = keys[k].seq => live[k] = keys[k].seq
       /\ Block(k) \in blocks[t]
  /\ pc[t] \notin {"none", "just_free"} =>
       last[t][k] = IF specific[t][k].data # NULL /\ specific[t][k].seq = keys[k].seq
                      THEN keys[k].seq ELSE NULL

Data == \A t \in Threads, k \in Keys : DataOf(t, k)

\* The walk in __nptl_deallocate_tsd visits every key if both levels have one
\* size; otherwise at least those of the first block.
OneSize == PTHREAD_KEY_1STLEVEL_SIZE = PTHREAD_KEY_2NDLEVEL_SIZE
Walked == {k \in Keys : OneSize \/ k \in FirstBlock}

None(t, S) == \A k \in S : specific[t][k].data = NULL

\* The first key of a second-level array.
Aligned(n) == n % PTHREAD_KEY_2NDLEVEL_SIZE = 0

\* A thread whose specific_used is not set has no data, but for what the walk has
\* yet to visit.
WalkOf(t) ==
  /\ pc[t] \in {"visit", "destr", "just_free"} => exiting[t]
  /\ pc[t] = "none" => ~exiting[t] /\ None(t, Keys)
  /\ 0 \in blocks[t]
  /\ exiting[t] /\ pc[t] \notin {"visit", "just_free"} => idx[t] \in Keys /\ Block(idx[t]) \in blocks[t]
  /\ pc[t] = "destr" => local[t].key = idx[t]
  /\ OneSize /\ Block(idx[t]) \notin blocks[t] => Aligned(idx[t])
  /\ ~specific_used[t] /\ ~exiting[t] => None(t, Keys)
  /\ ~specific_used[t] /\ pc[t] = "visit" => None(t, {k \in Walked : k < idx[t]})
  /\ ~specific_used[t] /\ exiting[t] /\ pc[t] \notin {"visit", "just_free"} =>
       None(t, {k \in Walked : k <= idx[t]})
  /\ pc[t] = "just_free" =>
       /\ None(t, Keys \cap FirstBlock)
       /\ round[t] < PTHREAD_DESTRUCTOR_ITERATIONS => None(t, Walked)

Walks == \A t \in Threads : WalkOf(t)

IInv == Control /\ Locals /\ Tables /\ Arrays /\ Slots /\ Calls /\ Data /\ Walks

USE DEF Goto, Set, Return, NoLocals, NoData, NULL, tables, arrays, walk, Working, None, Walked

\* Division with remainder,
LEMMA DivMod ==
  ASSUME NEW n \in Int, NEW d \in Nat \ {0}
  PROVE  /\ n % d \in 0 .. d - 1
         /\ n \div d \in Int
         /\ n = d * (n \div d) + (n % d)
  OBVIOUS

\* ... in exactly one way.
LEMMA Remainder ==
  ASSUME NEW d \in Nat \ {0}, NEW q \in Int, NEW r \in 0 .. d - 1
  PROVE  (d * q + r) % d = r /\ (d * q + r) \div d = q
<1> DEFINE n == d * q + r
           k == n \div d
           s == n % d
<1>1. n \in Int /\ d * q \in Int
  OBVIOUS
<1>2. s \in 0 .. d - 1 /\ k \in Int /\ n = d * k + s
  BY <1>1, DivMod
<1>3. d * (q - k) = s - r
  BY <1>2
<1> HIDE DEF n, k, s
<1>4. q - k = 0
  <2> DEFINE e == q - k
  <2>1. e \in Int /\ d * e = s - r
    BY <1>2, <1>3
  <2>2. -d < d * e /\ d * e < d
    BY <2>1, <1>2
  <2> HIDE DEF e
  <2>3. ~(e >= 1)
    <3>1. e >= 1 => d * e >= d
      BY <2>1
    <3> QED
      BY <3>1, <2>1, <2>2
  <2>4. ~(e <= -1)
    <3>1. e <= -1 => d * e <= -d
      BY <2>1
    <3> QED
      BY <3>1, <2>1, <2>2
  <2>5. e = 0
    BY <2>1, <2>3, <2>4
  <2> QED
    BY <2>5 DEF e
<1>5. d * (q - k) = 0
  BY <1>4
<1>6. s = r
  BY <1>2, <1>3, <1>5
<1>7. k = q
  BY <1>2, <1>4
<1> QED
  BY <1>6, <1>7 DEF s, n, k

\* The second-level array that a key belongs to, and the keys where the arrays
\* begin.
LEMMA BlockFacts ==
  ASSUME Sizes, NEW n \in Nat
  PROVE  /\ Block(n) \in Nat
         /\ Block(n) = 0 <=> n \in FirstBlock
         /\ Block(n + 1) = Block(n) \/ Aligned(n + 1)
         /\ Aligned(n) =>
              /\ Aligned(n + PTHREAD_KEY_2NDLEVEL_SIZE)
              /\ \A m \in n .. n + PTHREAD_KEY_2NDLEVEL_SIZE - 1 : Block(m) = Block(n)
<1> DEFINE d == PTHREAD_KEY_2NDLEVEL_SIZE
           q == n \div d
           r == n % d
<1>1. d \in Nat \ {0}
  BY DEF Sizes
<1>2. r \in 0 .. d - 1 /\ q \in Int /\ n = d * q + r
  BY <1>1, DivMod
<1>3. q >= 0
  BY <1>1, <1>2
<1>4. q = 0 => n = r
  BY <1>1, <1>2
<1>5. q >= 1 => n >= d
  <2>1. ASSUME q >= 1 PROVE d * q >= d
    BY <1>1, <1>2, <2>1
  <2> QED
    BY <1>1, <1>2, <2>1
<1>6. Block(n) = q
  BY DEF Block
<1> HIDE DEF q, r
<1>7. Block(n + 1) = Block(n) \/ (n + 1) % d = 0
  <2>1. CASE r + 1 = d
    <3> DEFINE e == q + 1
    <3>1. e \in Int /\ n + 1 = d * e + 0
      BY <1>1, <1>2, <2>1
    <3> HIDE DEF e
    <3>2. 0 \in 0 .. d - 1
      BY <1>1
    <3>3. (d * e + 0) % d = 0
      BY <1>1, <3>1, <3>2, Remainder, Zenon
    <3> QED
      BY <3>1, <3>3
  <2>2. CASE r + 1 # d
    <3>1. n + 1 = d * q + (r + 1) /\ r + 1 \in 0 .. d - 1
      BY <1>1, <1>2, <2>2
    <3> QED
      BY <1>1, <1>2, <1>6, <3>1, Remainder DEF Block
  <2> QED
    BY <2>1, <2>2
<1>8. ASSUME r = 0
      PROVE  (n + d) % d = 0 /\ \A m \in n .. n + d - 1 : Block(m) = Block(n)
  <2>1. n + d = d * (q + 1) + 0
    BY <1>1, <1>2, <1>8
  <2>2. (n + d) % d = 0
    BY <1>1, <1>2, <2>1, Remainder
  <2>3. ASSUME NEW m \in n .. n + d - 1
        PROVE  Block(m) = q
    <3>1. m - n \in 0 .. d - 1 /\ m = d * q + (m - n)
      BY <1>1, <1>2, <1>8
    <3> DEFINE s == m - n
    <3> HIDE DEF s
    <3>2. s \in 0 .. d - 1 /\ m = d * q + s
      BY <3>1 DEF s
    <3> QED
      BY <1>1, <1>2, <3>2, Remainder DEF Block
  <2> QED
    BY <1>6, <2>2, <2>3
<1>9. Block(n) \in Nat /\ (Block(n) = 0 <=> n \in FirstBlock)
  BY <1>1, <1>2, <1>3, <1>4, <1>5, <1>6 DEF FirstBlock
<1> QED
  BY <1>7, <1>8, <1>9 DEF r, Aligned

\* Truncation to a type leaves a number alone that fits in it.
LEMMA SmallMod ==
  ASSUME NEW n \in Nat, NEW m \in Nat, n < m
  PROVE  n % m = n
<1>1. m \in Nat \ {0} /\ n = m * 0 + n /\ n \in 0 .. m - 1
  OBVIOUS
<1> QED
  BY <1>1, Remainder

\* Even and odd numbers alternate.
LEMMA Parity ==
  ASSUME NEW n \in Nat
  PROVE  /\ KEY_UNUSED(0)
         /\ KEY_UNUSED(n + 1) <=> ~KEY_UNUSED(n)
  BY DEF KEY_UNUSED


USE SMTT(30), ZenonT(30)

\* What a step leaves true because it does not touch what it is about.
LEMMA TablesStep ==
  ASSUME IInv, UNCHANGED <<keys, live>>
  PROVE  Tables' /\ Slots'
  BY DEF IInv, Tables, Slots

\* A step that leaves the arrays, or the table, alone.
LEMMA ArraysStep ==
  ASSUME IInv, UNCHANGED arrays
  PROVE  Arrays'
  BY DEF IInv, Arrays

\* Data that stays, under a key that stays; and no data.
LEMMA SameData ==
  ASSUME NEW t, NEW k, DataOf(t, k), specific'[t][k] = specific[t][k], keys'[k].seq = keys[k].seq,
         live'[k] = live[k], blocks'[t] = blocks[t], last'[t][k] = last[t][k],
         pc'[t] \in {"none", "just_free"} \/ pc[t] \notin {"none", "just_free"}
  PROVE  DataOf(t, k)'
  BY DEF DataOf

\* An empty slot is as it should be, if nothing was set last.
LEMMA NullData ==
  ASSUME NEW t, NEW k, specific'[t][k].data = NULL,
         pc'[t] \in {"none", "just_free"} \/ last'[t][k] = NULL
  PROVE  DataOf(t, k)'
  BY DEF DataOf

\* The invariant, for one slot of one thread.
LEMMA ItsData ==
  ASSUME IInv, NEW t \in Threads, NEW k \in Keys
  PROVE  DataOf(t, k)
  BY DEF IInv, Data

\* A step that leaves the arrays and the sequence numbers alone.
LEMMA DataStep ==
  ASSUME IInv, UNCHANGED <<keys, live, specific, blocks, last>>,
         \A u \in Threads : pc'[u] \in {"none", "just_free"} \/ pc[u] \notin {"none", "just_free"}
  PROVE  Data'
<1> SUFFICES ASSUME NEW t \in Threads, NEW k \in Keys
             PROVE  DataOf(t, k)'
  BY DEF Data
<1> QED
  BY ItsData, SameData

\* Thread t goes to l, and the others stay where they are.
Goes(t, l) ==
  /\ pc' = [pc EXCEPT ![t] = l]
  /\ \A u \in Threads \ {t} : local'[u] = local[u]

\* What WalkOf reads of a thread.
Same(u) ==
  /\ pc'[u] = pc[u] /\ local'[u] = local[u] /\ specific'[u] = specific[u]
  /\ blocks'[u] = blocks[u] /\ specific_used'[u] = specific_used[u]
  /\ exiting'[u] = exiting[u] /\ idx'[u] = idx[u] /\ round'[u] = round[u]

\* A thread whose walk and whose arrays stay the same.
LEMMA SameWalk ==
  ASSUME NEW u, WalkOf(u), Same(u)
  PROVE  WalkOf(u)'
  BY DEF WalkOf, Same

\* Only t takes a step in its walk.
LEMMA WalksStep ==
  ASSUME IInv, NEW t \in Threads, \A u \in Threads \ {t} : Same(u), WalkOf(t)'
  PROVE  Walks'
<1>1. ASSUME NEW u \in Threads, u # t
      PROVE  WalkOf(u)'
  BY <1>1, SameWalk DEF IInv, Walks
<1> QED
  BY <1>1 DEF Walks

\* The invariant, for the walk of one thread.
LEMMA ItsWalk ==
  ASSUME IInv, NEW t \in Threads
  PROVE  WalkOf(t)
  BY DEF IInv, Walks

\* A step of a function that does not touch the arrays.
LEMMA CallStep ==
  ASSUME IInv, NEW t \in Threads, pc[t] \in Working \cup {"user"}, NEW l \in Working \cup {"user"},
         Goes(t, l), UNCHANGED <<specific, blocks, specific_used, walk>>
  PROVE  Control' /\ Walks'
<1>1. Control'
  BY DEF IInv, Control, Goes
<1>2. \A u \in Threads : pc'[u] = IF u = t THEN l ELSE pc[u]
  BY DEF IInv, Control, Goes
<1>4. \A u \in Threads \ {t} : Same(u)
  BY <1>2 DEF Same, Goes
<1>5. WalkOf(t)'
  BY <1>2, ItsWalk DEF WalkOf
<1>3. Walks'
  BY <1>4, <1>5, WalksStep
<1> QED
  BY <1>1, <1>3

\* A thread whose call goes on, with the same in the slot of its key.
LEMMA SameCall ==
  ASSUME NEW t, CallOf(t), pc'[t] = pc[t], local'[t] = local[t],
         local[t].key \in Keys =>
           keys'[local[t].key].seq = keys[local[t].key].seq /\ live'[local[t].key] = live[local[t].key]
  PROVE  CallOf(t)'
  BY DEF CallOf, Call

\* The invariant, for the call of one thread.
LEMMA ItsCall ==
  ASSUME IInv, NEW t \in Threads
  PROVE  CallOf(t)
  BY DEF IInv, Calls

\* A step after which t has no key in hand.
LEMMA CallsStep ==
  ASSUME IInv, NEW t \in Threads, UNCHANGED <<keys, live>>, NEW l, Goes(t, l),
         \/ l \in {"none", "user", "visit", "just_free"}
         \/ l = "create_load" /\ local'[t].key <= PTHREAD_KEYS_MAX
  PROVE  Calls'
<1>1. \A u \in Threads : pc'[u] = IF u = t THEN l ELSE pc[u]
  BY DEF IInv, Control, Goes
<1>2. CallOf(t)'
  BY <1>1 DEF CallOf, Call
<1>3. ASSUME NEW u \in Threads, u # t
      PROVE  CallOf(u)'
  <2>1. pc'[u] = pc[u] /\ local'[u] = local[u]
    BY <1>1, <1>3 DEF Goes
  <2> QED
    BY <2>1, ItsCall, SameCall
<1> QED
  BY <1>1, <1>2, <1>3 DEF IInv, Calls, Goes

\* pthread_key_create begins.
LEMMA CreateBeginPreserves ==
  ASSUME Sizes, IInv, NEW t \in Threads, CreateBegin(t)
  PROVE  IInv'
<1>1. /\ pc[t] = "user" /\ pc' = [pc EXCEPT ![t] = "create_load"]
      /\ local' = [local EXCEPT ![t] = NoLocals] /\ UNCHANGED <<keys, live, arrays, walk>>
  BY DEF CreateBegin
<1>2. Goes(t, "create_load") /\ Locals' /\ local'[t].key = 0
  BY <1>1 DEF IInv, Locals, Goes
<1>3. Calls'
  BY <1>1, <1>2, CallsStep DEF Sizes
<1>4. Control' /\ Walks'
  BY <1>1, <1>2, CallStep
<1>5. Data'
  BY <1>1, DataStep DEF IInv, Control
<1> QED
  BY <1>1, <1>2, <1>3, <1>4, <1>5, TablesStep, ArraysStep DEF IInv

\* It looks at a slot: the number it reads is even, and the next two fit.
LEMMA CreateLoadPreserves ==
  ASSUME Sizes, IInv, NEW t \in Threads, CreateLoad(t)
  PROVE  IInv'
<1> DEFINE K == local[t].key
           l == local'[t]
<1>1. K \in Nat /\ K <= PTHREAD_KEYS_MAX
  BY ItsCall DEF IInv, Locals, CallOf, Call, CreateLoad
<1>2. local' = [local EXCEPT ![t] = l] /\ l \in [key : Nat, seq : Nat, data : Nat]
  <2>1. CASE K = PTHREAD_KEYS_MAX
    BY <2>1 DEF IInv, Locals, CreateLoad
  <2>2. CASE K # PTHREAD_KEYS_MAX /\ KEY_UNUSED(keys[K].seq) /\ KEY_USABLE(keys[K].seq)
    <3>1. keys[K].seq \in Nat
      BY <1>1, <2>2 DEF Sizes, IInv, Tables, Keys
    <3> QED
      BY <2>2, <3>1 DEF IInv, Locals, CreateLoad
  <2>3. CASE K # PTHREAD_KEYS_MAX /\ ~(KEY_UNUSED(keys[K].seq) /\ KEY_USABLE(keys[K].seq))
    BY <1>1, <2>3 DEF IInv, Locals, CreateLoad, NextSlot
  <2> QED
    BY <2>1, <2>2, <2>3
<1>3. Locals'
  BY <1>2 DEF IInv, Locals
<1>4. \/ pc' = [pc EXCEPT ![t] = "user"]
      \/ pc' = [pc EXCEPT ![t] = "create_load"] /\ l.key <= PTHREAD_KEYS_MAX
      \/ /\ pc' = [pc EXCEPT ![t] = "create_cas"] /\ l.key \in Keys
         /\ KEY_UNUSED(l.seq) /\ l.seq + 2 < UINTPTR
  <2>1. CASE K = PTHREAD_KEYS_MAX
    BY <2>1 DEF CreateLoad
  <2>2. CASE K # PTHREAD_KEYS_MAX /\ KEY_UNUSED(keys[K].seq) /\ KEY_USABLE(keys[K].seq)
    <3>1. K \in Keys /\ keys[K].seq \in Nat /\ keys[K].seq < UINTPTR
      BY <1>1, <2>2 DEF Sizes, IInv, Tables, Slots, Keys
    <3>2. KEY_UNUSED(keys[K].seq) /\ keys[K].seq + 2 < UINTPTR
      BY <2>2, <3>1 DEF Sizes, KEY_UNUSED, KEY_USABLE
    <3>3. l.key = K /\ l.seq = keys[K].seq /\ pc' = [pc EXCEPT ![t] = "create_cas"]
      BY <2>2 DEF IInv, Locals, CreateLoad
    <3> QED
      BY <3>1, <3>2, <3>3
  <2>3. CASE K # PTHREAD_KEYS_MAX /\ ~(KEY_UNUSED(keys[K].seq) /\ KEY_USABLE(keys[K].seq))
    BY <1>1, <2>3 DEF Sizes, IInv, Locals, CreateLoad, NextSlot
  <2> QED
    BY <2>1, <2>2, <2>3
<1>5. keys' = keys /\ live' = live
  BY DEF CreateLoad
<1>11. local'[t] = l
  OBVIOUS
<1> HIDE DEF l
<1>6. Calls'
  <2>1. CallOf(t)' /\ pc'[t] # "create_destr"
    BY <1>2, <1>4, <1>5, <1>11 DEF IInv, Control, CallOf, Call
  <2>2. ASSUME NEW u \in Threads, u # t
        PROVE  pc'[u] = pc[u] /\ local'[u] = local[u] /\ CallOf(u)'
    <3>1. pc'[u] = pc[u] /\ local'[u] = local[u]
      BY <1>2, <1>4, <2>2 DEF IInv, Control, Locals
    <3> QED
      BY <1>5, <3>1, ItsCall, SameCall
  <2> QED
    BY <1>5, <2>1, <2>2 DEF IInv, Calls
<1>7. PICK m \in Working \cup {"user"} : Goes(t, m)
  BY <1>2, <1>4 DEF IInv, Locals, Goes
<1>8. pc[t] = "create_load" /\ UNCHANGED <<arrays, walk>>
  BY DEF CreateLoad
<1>9. Control' /\ Walks'
  BY <1>7, <1>8, CallStep
<1>10. Data'
  BY <1>5, <1>7, <1>8, DataStep DEF IInv, Control, Goes
<1> QED
  BY <1>3, <1>5, <1>6, <1>8, <1>9, <1>10, TablesStep, ArraysStep DEF IInv

\* It takes the slot, which nobody else then has, or goes on to the next.
LEMMA CreateCASPreserves ==
  ASSUME Sizes, IInv, NEW t \in Threads, CreateCAS(t)
  PROVE  IInv'
<1>0. PICK K \in Keys, S \in Nat : local[t].key = K /\ local[t].seq = S
  BY ItsCall DEF IInv, Locals, CallOf, Call, CreateCAS
<1>1. KEY_UNUSED(S) /\ S + 2 < UINTPTR /\ pc[t] = "create_cas"
  BY <1>0, ItsCall DEF CallOf, Call, CreateCAS
<1>2. UNCHANGED <<live, arrays, walk>>
  BY DEF CreateCAS
<1>5. Arrays'
  BY <1>2, ArraysStep
<1>3. CASE Taken(t)
  <2>1. /\ \A k \in Keys : keys'[k].destr = keys[k].destr
        /\ \A k \in Keys : keys'[k].seq = IF k = K THEN S + 1 ELSE keys[k].seq
    <3>1. keys' = [keys EXCEPT ![K].seq = S + 1]
      BY <1>0, <1>3 DEF CreateCAS
    <3> QED
      BY <3>1 DEF IInv, Tables
  <2>2. keys[K].seq = S /\ live[K] = 0
    BY <1>0, <1>1, <1>3 DEF IInv, Slots, Taken
  <2>3. pc' = [pc EXCEPT ![t] = "create_destr"] /\ local' = local
    BY <1>3 DEF CreateCAS
  <2>4. \A k \in Keys : keys[k].seq \in Nat /\ live[k] \in Nat
    BY DEF IInv, Tables
  <2>5. ~KEY_UNUSED(S + 1)
    BY <1>1, Parity
  <2>6. Slots'
    BY <1>1, <1>2, <2>1, <2>2, <2>4, <2>5 DEF Sizes, IInv, Slots
  <2>7. Data'
    <3>1. ASSUME NEW u \in Threads
          PROVE  DataOf(u, K)'
      <4>1. PICK d : d = specific[u][K] /\ d.seq \in Nat
        BY DEF IInv, Arrays
      <4>2. DataOf(u, K) /\ specific'[u][K] = d /\ last'[u][K] = last[u][K]
        BY <1>2, <4>1, ItsData
      <4>3. d.data # NULL => d.seq <= S /\ ~KEY_UNUSED(d.seq)
        BY <2>2, <4>1, <4>2 DEF DataOf
      <4>4. d.data # NULL => d.seq # S
        BY <1>1, <4>3
      <4>5. d.data # NULL => d.seq < S
        BY <1>1, <4>1, <4>3, <4>4
      <4>6. blocks'[u] = blocks[u] /\ keys'[K].seq = S + 1
            /\ (pc'[u] \in {"none", "just_free"} <=> pc[u] \in {"none", "just_free"})
        BY <1>1, <1>2, <2>1, <2>3 DEF IInv, Control
      <4> QED
        BY <1>1, <2>2, <4>1, <4>2, <4>5, <4>6 DEF DataOf
    <3>2. ASSUME NEW u \in Threads, NEW k \in Keys, k # K
          PROVE  DataOf(u, k)'
      <4>1. /\ specific'[u][k] = specific[u][k] /\ keys'[k].seq = keys[k].seq /\ live'[k] = live[k]
            /\ blocks'[u] = blocks[u] /\ last'[u][k] = last[u][k]
            /\ pc'[u] \in {"none", "just_free"} \/ pc[u] \notin {"none", "just_free"}
        BY <1>1, <1>2, <2>1, <2>3, <3>2 DEF IInv, Control
      <4> QED
        BY <4>1, ItsData, SameData
    <3> QED
      BY <3>1, <3>2 DEF Data
  <2>8. Calls'
    <3>1. \A u \in Threads : pc[u] = "create_destr" => local[u].key # K
      <4>1. SUFFICES ASSUME NEW u \in Threads, pc[u] = "create_destr", local[u].key = K
                     PROVE  FALSE
        OBVIOUS
      <4>2. local[u].seq \in Nat /\ KEY_UNUSED(local[u].seq) /\ S = local[u].seq + 1
        BY <4>1, <2>2, ItsCall DEF IInv, Locals, CallOf, Call
      <4> QED
        BY <4>2, <1>1, Parity
    <3>2. CallOf(t)'
      <4>1. /\ pc'[t] = "create_destr" /\ local'[t].key = K /\ local'[t].seq = S
            /\ keys'[K].seq = S + 1 /\ live'[K] = 0
        BY <1>0, <1>1, <1>2, <2>1, <2>2, <2>3 DEF IInv, Control
      <4> QED
        BY <1>1, <4>1 DEF CallOf, Call
    <3>3. ASSUME NEW u \in Threads, u # t
          PROVE  CallOf(u)'
      <4>1. PICK k, s : k = local[u].key /\ s = local[u].seq /\ s \in Nat /\ Call(u, k, s)
        BY ItsCall DEF CallOf, IInv, Locals
      <4>2. pc'[u] = pc[u] /\ local'[u] = local[u] /\ live' = live
        BY <1>2, <2>3, <3>3 DEF IInv, Control
      <4>3. k \in Keys => keys[k].seq \in Nat /\ keys'[k].seq = IF k = K THEN S + 1 ELSE keys[k].seq
        BY <2>1, <2>4
      <4>4. pc[u] = "create_destr" => k # K
        BY <3>1, <4>1
      <4>5. Call(u, k, s)'
        BY <1>1, <2>2, <4>1, <4>2, <4>3, <4>4 DEF Call
      <4> QED
        BY <4>1, <4>2, <4>5 DEF CallOf
    <3> QED
      BY <1>0, <1>1, <1>2, <2>3, <3>1, <3>2, <3>3 DEF IInv, Control, Calls
  <2>9. Tables' /\ Locals'
    <3>1. keys' = [keys EXCEPT ![K].seq = S + 1] /\ S + 1 \in Nat
      BY <1>0, <1>3 DEF CreateCAS
    <3> QED
      BY <1>2, <2>3, <3>1, Zenon DEF IInv, Tables, Locals
  <2>10. Control' /\ Walks'
    BY <1>1, <1>2, <2>3, CallStep, Zenon DEF Goes
  <2> QED
    BY <1>5, <2>6, <2>7, <2>8, <2>9, <2>10 DEF IInv
<1>4. CASE ~Taken(t)
  <2>1. UNCHANGED keys /\ pc' = [pc EXCEPT ![t] = "create_load"]
    BY <1>4 DEF CreateCAS, NextSlot
  <2>2. local' = [local EXCEPT ![t] = [NoLocals EXCEPT !.key = K + 1]]
    BY <1>0, <1>4 DEF CreateCAS, NextSlot
  <2>3. K + 1 <= PTHREAD_KEYS_MAX
    BY <1>1 DEF Sizes, Keys
  <2> DEFINE l == [NoLocals EXCEPT !.key = K + 1]
  <2>8. l \in [key : Nat, seq : Nat, data : Nat] /\ l.key = K + 1
    BY <1>1 DEF Sizes, Keys
  <2> HIDE DEF l
  <2>4. Goes(t, "create_load") /\ Locals' /\ local'[t].key = K + 1
    BY <2>1, <2>2, <2>8 DEF IInv, Locals, Goes, l
  <2>5. Data'
    BY <1>1, <1>2, <2>1, DataStep DEF IInv, Control
  <2>6. Calls'
    BY <1>2, <2>1, <2>3, <2>4, CallsStep
  <2>7. Control' /\ Walks'
    BY <1>1, <1>2, <2>4, CallStep
  <2> QED
    BY <1>2, <1>5, <2>1, <2>4, <2>5, <2>6, <2>7, TablesStep DEF IInv
<1> QED
  BY <1>3, <1>4


\* It stores the destructor and returns the key.
LEMMA CreateDestrPreserves ==
  ASSUME Sizes, IInv, NEW t \in Threads, CreateDestr(t)
  PROVE  IInv'
<1>0. PICK K \in Keys, S \in Nat : local[t].key = K /\ local[t].seq = S
  BY ItsCall DEF IInv, Locals, CallOf, Call, CreateDestr
<1>1. /\ KEY_UNUSED(S) /\ S + 2 < UINTPTR
      /\ keys[K].seq = S + 1 /\ live[K] = 0 /\ pc[t] = "create_destr"
  BY <1>0, ItsCall DEF CallOf, Call, CreateDestr
<1>2. /\ pc' = [pc EXCEPT ![t] = "user"] /\ local' = [local EXCEPT ![t] = NoLocals]
      /\ UNCHANGED <<arrays, walk>>
  BY DEF CreateDestr
<1>3. PICK destr \in {NULL, S + 1} : keys' = [keys EXCEPT ![K].destr = destr]
  BY <1>0, Zenon DEF CreateDestr
<1>4. live' = [live EXCEPT ![K] = S + 1]
  BY <1>0 DEF CreateDestr
<1>5. \A k \in Keys : live'[k] = IF k = K THEN S + 1 ELSE live[k]
  BY <1>4 DEF IInv, Tables
<1>6. \A k \in Keys : /\ keys'[k].seq = keys[k].seq
                      /\ keys'[k].destr = IF k = K THEN destr ELSE keys[k].destr
  BY <1>3 DEF IInv, Tables
<1>7. \A k \in Keys : keys[k].seq \in Nat /\ live[k] \in Nat
  BY DEF IInv, Tables
<1>8. ~KEY_UNUSED(S + 1)
  BY <1>1, Parity
<1>9. Slots'
  BY <1>1, <1>3, <1>5, <1>6, <1>7, <1>8 DEF IInv, Slots
<1>10. Data'
  <2>1. ASSUME NEW u \in Threads
        PROVE  DataOf(u, K)'
    <3>1. DataOf(u, K) /\ (pc'[u] \in {"none", "just_free"} <=> pc[u] \in {"none", "just_free"})
      BY <1>1, <1>2, ItsData DEF IInv, Control
    <3>2. keys'[K].seq = keys[K].seq /\ live'[K] = keys[K].seq
      BY <1>1, <1>5, <1>6
    <3> QED
      BY <1>2, <3>1, <3>2 DEF DataOf
  <2>2. ASSUME NEW u \in Threads, NEW k \in Keys, k # K
        PROVE  DataOf(u, k)'
    <3>1. /\ keys'[k].seq = keys[k].seq /\ live'[k] = live[k]
          /\ pc'[u] \in {"none", "just_free"} \/ pc[u] \notin {"none", "just_free"}
      BY <1>1, <1>2, <1>5, <1>6, <2>2 DEF IInv, Control
    <3> QED
      BY <1>2, <3>1, ItsData, SameData
  <2> QED
    BY <2>1, <2>2 DEF Data
<1>11. Goes(t, "user") /\ Locals'
  BY <1>2 DEF IInv, Locals, Goes
<1>12. Control' /\ Walks'
  BY <1>1, <1>2, <1>11, CallStep
<1>13. Tables'
  <2>1. destr \in Nat /\ S + 1 \in Nat
    BY <1>3
  <2> QED
    BY <1>3, <1>4, <2>1, Zenon DEF IInv, Tables
<1>14. Calls'
  <2>1. pc'[t] = "user" /\ \A u \in Threads \ {t} : pc'[u] = pc[u] /\ local'[u] = local[u]
    BY <1>2, <1>11 DEF IInv, Control, Goes
  <2>2. CallOf(t)'
    BY <2>1 DEF CallOf, Call
  <2>3. ASSUME NEW u \in Threads, u # t
        PROVE  CallOf(u)'
    <3>1. PICK k, s : k = local[u].key /\ s = local[u].seq /\ s \in Nat /\ Call(u, k, s)
      BY ItsCall DEF CallOf, IInv, Locals
    <3>2. pc[u] = "create_destr" => k # K
      BY <1>0, <1>1, <2>3, <3>1 DEF IInv, Calls
    <3>3. /\ k \in Keys => keys'[k].seq = keys[k].seq
          /\ k \in Keys => live'[k] = IF k = K THEN keys[k].seq ELSE live[k]
      BY <1>1, <1>5, <1>6
    <3>4. Call(u, k, s)'
      BY <2>1, <2>3, <3>1, <3>2, <3>3 DEF Call
    <3> QED
      BY <2>1, <2>3, <3>1, <3>4 DEF CallOf
  <2>4. \A k \in Keys : live'[k] # 0 => live'[k] + 1 < UINTPTR
    BY <1>1, <1>5 DEF IInv, Calls, Sizes
  <2> QED
    BY <2>1, <2>2, <2>3, <2>4 DEF IInv, Calls
<1> QED
  BY <1>2, <1>9, <1>10, <1>11, <1>12, <1>13, <1>14, ArraysStep DEF IInv

\* ___pthread_key_delete.
LEMMA DeleteLoadPreserves ==
  ASSUME Sizes, IInv, NoWrap, NEW t \in Threads, NEW k \in Keys, DeleteLoad(t, k)
  PROVE  IInv'
<1>1. PICK s \in Nat : /\ s = keys[k].seq /\ live[k] = s /\ ~KEY_UNUSED(s)
                       /\ s + 1 < UINTPTR /\ s + 1 < UINT
  BY DEF IInv, NoWrap, Tables, Slots, Calls, DeleteLoad
<1>2. s % UINT = s /\ k \in Nat
  BY <1>1, SmallMod DEF Sizes, Keys
<1>3. PICK l \in [key : Nat, seq : Nat, data : Nat] :
        local' = [local EXCEPT ![t] = l] /\ l.key = k /\ l.seq = s
  <2> DEFINE l == [NoLocals EXCEPT !.key = k, !.seq = s]
  <2>1. l \in [key : Nat, seq : Nat, data : Nat] /\ l.key = k /\ l.seq = s
    BY <1>2, Zenon
  <2>2. local' = [local EXCEPT ![t] = l]
    BY <1>1, <1>2, Zenon DEF DeleteLoad
  <2> QED
    BY <2>1, <2>2, Zenon
<1>4. /\ pc[t] = "user" /\ pc' = [pc EXCEPT ![t] = "delete_cas"]
      /\ UNCHANGED <<keys, live, arrays, walk>>
  BY DEF DeleteLoad
<1>5. Locals' /\ Goes(t, "delete_cas")
  BY <1>3, <1>4 DEF IInv, Locals, Goes
<1>6. Calls'
  <2>1. /\ pc'[t] = "delete_cas" /\ local'[t].key = k /\ local'[t].seq = s
        /\ \A u \in Threads \ {t} : pc'[u] = pc[u] /\ local'[u] = local[u]
    BY <1>3, <1>4 DEF IInv, Control, Locals
  <2>2. CallOf(t)'
    BY <1>1, <1>4, <2>1 DEF CallOf, Call
  <2>3. \A u \in Threads \ {t} : CallOf(u)'
    BY <1>4, <2>1, ItsCall, SameCall
  <2> QED
    BY <1>4, <2>1, <2>2, <2>3 DEF IInv, Calls
<1>7. Control' /\ Walks'
  BY <1>4, <1>5, CallStep
<1>8. Data'
  BY <1>4, DataStep DEF IInv, Control
<1> QED
  BY <1>4, <1>5, <1>6, <1>7, <1>8, TablesStep, ArraysStep DEF IInv

\* pthread_key_delete takes effect: what all threads stored under the key is
\* out of date from then on.  (NoWrap: the number of the slot does not become
\* smaller.)
LEMMA DeleteCASPreserves ==
  ASSUME Sizes, IInv, NoWrap, NEW t \in Threads, DeleteCAS(t)
  PROVE  IInv'
<1>0. PICK K \in Keys, S \in Nat : local[t].key = K /\ local[t].seq = S
  BY ItsCall DEF IInv, Locals, CallOf, Call, DeleteCAS
<1>1. ~KEY_UNUSED(S) /\ S + 1 < UINTPTR /\ pc[t] = "delete_cas"
  BY <1>0, ItsCall DEF CallOf, Call, DeleteCAS
<1>2. UNCHANGED <<specific, blocks, specific_used, walk>>
  BY DEF DeleteCAS
<1>3. pc' = [pc EXCEPT ![t] = "user"] /\ local' = [local EXCEPT ![t] = NoLocals]
  BY DEF DeleteCAS
<1>4. Goes(t, "user") /\ Locals'
  BY <1>3 DEF IInv, Locals, Goes
<1>5. Control' /\ Walks'
  BY <1>1, <1>2, <1>4, CallStep
<1>6. S # 0
  BY <1>1, Parity
<1>7. CASE keys[K].seq = S
  <2>1. live[K] = S /\ S + 1 < UINT
    BY <1>0, <1>1, <1>6, <1>7, ItsCall DEF CallOf, Call, NoWrap
  <2>2. (S + 1) % UINT = S + 1 /\ S + 1 \in Nat
    BY <2>1, SmallMod DEF Sizes
  <2>3. /\ keys' = [keys EXCEPT ![K].seq = S + 1] /\ live' = [live EXCEPT ![K] = 0]
        /\ last' = [u \in Threads |-> [last[u] EXCEPT ![K] = NULL]]
    BY <1>0, <1>7, <2>2 DEF DeleteCAS
  <2>4. \A k \in Keys : /\ keys'[k].destr = keys[k].destr
                        /\ keys'[k].seq = IF k = K THEN S + 1 ELSE keys[k].seq
                        /\ live'[k] = IF k = K THEN 0 ELSE live[k]
    BY <2>3 DEF IInv, Tables
  <2>5. \A u \in Threads, k \in Keys : last'[u][k] = IF k = K THEN NULL ELSE last[u][k]
    BY <2>3 DEF IInv, Arrays
  <2>6. \A k \in Keys : keys[k].seq \in Nat /\ live[k] \in Nat
    BY DEF IInv, Tables
  <2>7. KEY_UNUSED(S + 1)
    BY <1>1, Parity
  <2>8. Tables'
    BY <2>2, <2>3, Zenon DEF IInv, Tables
  <2>9. Slots'
    BY <1>1, <1>6, <1>7, <2>1, <2>4, <2>6, <2>7 DEF IInv, Slots, Sizes
  <2>10. Data'
    <3>1. ASSUME NEW u \in Threads
          PROVE  DataOf(u, K)'
      <4>1. PICK d : d = specific[u][K] /\ d.seq \in Nat /\ specific'[u][K] = d
        BY <1>2 DEF IInv, Arrays
      <4>2. DataOf(u, K) /\ blocks'[u] = blocks[u]
        BY <1>2, ItsData
      <4>3. d.data # NULL => d.seq <= S
        BY <1>7, <4>1, <4>2 DEF DataOf
      <4> QED
        BY <1>7, <2>4, <2>5, <4>1, <4>2, <4>3 DEF DataOf
    <3>2. ASSUME NEW u \in Threads, NEW k \in Keys, k # K
          PROVE  DataOf(u, k)'
      <4>1. /\ keys'[k].seq = keys[k].seq /\ live'[k] = live[k] /\ last'[u][k] = last[u][k]
            /\ pc'[u] \in {"none", "just_free"} \/ pc[u] \notin {"none", "just_free"}
        BY <1>1, <1>3, <2>4, <2>5, <3>2 DEF IInv, Control
      <4> QED
        BY <1>2, <4>1, ItsData, SameData
    <3> QED
      BY <3>1, <3>2 DEF Data
  <2>11. Calls'
    <3>1. pc'[t] = "user" /\ \A u \in Threads \ {t} : pc'[u] = pc[u] /\ local'[u] = local[u]
      BY <1>3, <1>4 DEF IInv, Control, Goes
    <3>2. CallOf(t)'
      BY <3>1 DEF CallOf, Call
    <3>3. ASSUME NEW u \in Threads, u # t
          PROVE  CallOf(u)'
      <4>1. PICK k, s : k = local[u].key /\ s = local[u].seq /\ s \in Nat /\ Call(u, k, s)
        BY ItsCall DEF CallOf, IInv, Locals
      <4>2. pc[u] = "create_destr" => k # K
        BY <1>6, <2>1, <4>1 DEF Call
      <4>3. k \in Keys => keys[k].seq \in Nat
        BY <2>6
      <4>4. k # K => Call(u, k, s)'
        BY <2>4, <3>1, <3>3, <4>1 DEF Call
      <4>5. k = K => Call(u, k, s)'
        BY <1>7, <2>4, <3>1, <3>3, <4>1, <4>2 DEF Call
      <4> QED
        BY <3>1, <3>3, <4>1, <4>4, <4>5 DEF CallOf
    <3>4. \A k \in Keys : live'[k] # 0 => live'[k] + 1 < UINTPTR
      BY <2>4 DEF IInv, Calls
    <3> QED
      BY <3>1, <3>2, <3>3, <3>4 DEF IInv, Calls
  <2>12. Arrays'
    BY <1>2, <2>3 DEF IInv, Arrays
  <2> QED
    BY <1>4, <1>5, <2>8, <2>9, <2>10, <2>11, <2>12 DEF IInv
<1>8. CASE keys[K].seq # S
  <2>1. UNCHANGED <<keys, live, arrays>>
    BY <1>0, <1>2, <1>8 DEF DeleteCAS
  <2>2. Data'
    BY <1>1, <1>3, <2>1, DataStep DEF IInv, Control
  <2>3. Calls'
    BY <1>4, <2>1, CallsStep
  <2> QED
    BY <1>4, <1>5, <2>1, <2>2, <2>3, TablesStep, ArraysStep DEF IInv
<1> QED
  BY <1>7, <1>8

\* ___pthread_setspecific and ___pthread_getspecific leave the control alone.
LEMMA StayStep ==
  ASSUME Sizes, IInv, UNCHANGED <<tables, pc, local, walk>>
  PROVE  Control' /\ Locals' /\ Calls' /\ Tables' /\ Slots'
<1>1. Control' /\ Locals'
  BY DEF IInv, Control, Locals
<1>2. Calls'
  BY SameCall DEF IInv, Calls
<1> QED
  BY <1>1, <1>2, TablesStep

\* pthread_setspecific: the number stored with the value is that of the key.
LEMMA SetSpecificPreserves ==
  ASSUME Sizes, IInv, NoWrap, NEW t \in Threads, NEW k \in Keys, SetSpecific(t, k)
  PROVE  IInv'
<1> DEFINE s == keys[k].seq
<1>1. /\ s \in Nat /\ live[k] = s /\ ~KEY_UNUSED(s) /\ s # 0 /\ s % UINT = s
      /\ pc[t] = "user" /\ k \in Nat
  <2>1. s \in Nat /\ s < UINT /\ live[k] = s /\ live[k] # 0 /\ ~KEY_UNUSED(s) /\ pc[t] = "user"
    BY DEF Sizes, IInv, NoWrap, Tables, Slots, SetSpecific
  <2>2. s % UINT = s
    BY <2>1, SmallMod DEF Sizes
  <2> QED
    BY <2>1, <2>2 DEF Sizes, Keys
<1>2. PICK value \in {NULL, s} :
        LET d == IF value = NULL THEN NoData ELSE [seq |-> s, data |-> value]
        IN  /\ specific' = [specific EXCEPT ![t][k] = d]
            /\ specific_used' = [specific_used EXCEPT ![t] = @ \/ Marks(k, value)]
            /\ last' = [last EXCEPT ![t][k] = value]
  BY <1>1, Zenon DEF SetSpecific
<1>3. /\ blocks' = [blocks EXCEPT ![t] = @ \cup {Block(k)}] /\ Block(k) \in Nat
      /\ UNCHANGED <<tables, pc, local, walk>>
  BY <1>1, BlockFacts DEF SetSpecific
<1> DEFINE d == IF value = NULL THEN NoData ELSE [seq |-> s, data |-> value]
<1>4. d \in [seq : Nat, data : Nat] /\ d.data = value /\ (value # NULL => d.seq = value)
  BY <1>1
<1>5. \A u \in Threads, j \in Keys :
        /\ specific'[u][j] = IF u = t /\ j = k THEN d ELSE specific[u][j]
        /\ last'[u][j] = IF u = t /\ j = k THEN value ELSE last[u][j]
  BY <1>2 DEF IInv, Arrays
<1>6. \A u \in Threads : u # t => specific_used'[u] = specific_used[u] /\ blocks'[u] = blocks[u]
  BY <1>2, <1>3 DEF IInv, Arrays
<1>7. specific_used'[t] <=> specific_used[t] \/ Marks(k, value)
  BY <1>2, Zenon DEF IInv, Arrays
<1>8. blocks'[t] = blocks[t] \cup {Block(k)}
  BY <1>3 DEF IInv, Arrays
<1>9. Arrays'
  <2>1. specific' \in [Threads -> [Keys -> [seq : Nat, data : Nat]]]
    BY <1>2, <1>4 DEF IInv, Arrays
  <2>2. specific_used' \in [Threads -> BOOLEAN]
    BY <1>2, Zenon DEF IInv, Arrays, Marks
  <2>3. last' \in [Threads -> [Keys -> Nat]]
    BY <1>1, <1>2 DEF IInv, Arrays
  <2>4. blocks' \in [Threads -> SUBSET Nat]
    BY <1>3 DEF IInv, Arrays
  <2> QED
    BY <2>1, <2>2, <2>3, <2>4 DEF Arrays
<1> HIDE DEF d, s
<1>10. Data'
  <2>1. DataOf(t, k)'
    <3>1. specific'[t][k] = d /\ last'[t][k] = value /\ Block(k) \in blocks'[t]
      BY <1>5, <1>8
    <3>2. keys'[k].seq = s /\ live'[k] = s /\ pc'[t] = "user"
      BY <1>1, <1>3 DEF s
    <3> QED
      BY <1>1, <1>4, <3>1, <3>2 DEF DataOf
  <2>2. ASSUME NEW j \in Keys, j # k
        PROVE  DataOf(t, j)'
    <3>1. specific'[t][j] = specific[t][j] /\ last'[t][j] = last[t][j]
      BY <1>5, <2>2
    <3> QED
      BY <1>3, <1>8, <3>1, ItsData DEF DataOf
  <2>3. ASSUME NEW u \in Threads, u # t, NEW j \in Keys
        PROVE  DataOf(u, j)'
    <3>1. specific'[u][j] = specific[u][j] /\ last'[u][j] = last[u][j] /\ blocks'[u] = blocks[u]
      BY <1>5, <1>6, <2>3
    <3> QED
      BY <1>3, <3>1, ItsData, SameData, Zenon
  <2> QED
    BY <2>1, <2>2, <2>3 DEF Data
<1>11. Walks'
  <2>1. ~specific_used'[t] => \A j \in Keys : specific[t][j].data = NULL => specific'[t][j].data = NULL
    BY <1>4, <1>5, <1>7 DEF Marks
  <2>2. blocks[t] \subseteq blocks'[t] /\ (~specific_used'[t] => ~specific_used[t])
    BY <1>7, <1>8
  <2>3. WalkOf(t)'
    BY <1>1, <1>3, <2>1, <2>2, ItsWalk DEF WalkOf
  <2>4. \A u \in Threads \ {t} : specific'[u] = specific[u]
    BY <1>2 DEF IInv, Arrays
  <2>5. \A u \in Threads \ {t} : Same(u)
    BY <1>3, <1>6, <2>4 DEF Same
  <2> QED
    BY <2>3, <2>5, WalksStep
<1> QED
  BY <1>3, <1>9, <1>10, <1>11, StayStep DEF IInv

\* pthread_getspecific clears a value that is out of date.
LEMMA GetSpecificPreserves ==
  ASSUME Sizes, IInv, NEW t \in Threads, NEW k \in Keys, GetSpecific(t, k)
  PROVE  IInv'
<1>1. /\ specific' = [specific EXCEPT ![t][k] = NoData] /\ ~Current(t, k)
      /\ UNCHANGED <<tables, blocks, specific_used, last, pc, local, walk>>
  BY DEF GetSpecific
<1>2. \A u \in Threads, j \in Keys :
        specific'[u][j] = IF u = t /\ j = k THEN NoData ELSE specific[u][j]
  BY <1>1 DEF IInv, Arrays
<1>3. Arrays'
  BY <1>1 DEF IInv, Arrays
<1>4. Data'
  <2>1. DataOf(t, k)'
    <3>1. DataOf(t, k) /\ pc[t] = "user" /\ specific[t][k].seq # keys[k].seq
      BY <1>1, ItsData DEF GetSpecific, Current
    <3>2. last'[t][k] = NULL /\ specific'[t][k].data = NULL
      BY <1>1, <1>2, <3>1 DEF DataOf
    <3> QED
      BY <3>2, NullData
  <2>2. ASSUME NEW u \in Threads, NEW j \in Keys, ~(u = t /\ j = k)
        PROVE  DataOf(u, j)'
    <3>1. specific'[u][j] = specific[u][j]
      BY <1>2, <2>2
    <3> QED
      BY <1>1, <3>1, ItsData, SameData
  <2> QED
    BY <2>1, <2>2 DEF Data
<1>5. \A j \in Keys : specific[t][j].data = NULL => specific'[t][j].data = NULL
  BY <1>2
<1>6. Walks'
  <2>1. \A u \in Threads \ {t} : specific'[u] = specific[u]
    BY <1>1 DEF IInv, Arrays
  <2>2. \A u \in Threads \ {t} : Same(u)
    BY <1>1, <2>1 DEF Same
  <2>3. pc[t] = "user" /\ WalkOf(t)
    BY ItsWalk DEF GetSpecific
  <2>4. WalkOf(t)'
    BY <1>1, <1>5, <2>3 DEF WalkOf
  <2> QED
    BY <2>2, <2>4, WalksStep
<1> QED
  BY <1>1, <1>3, <1>4, <1>6, StayStep DEF IInv

\* __nptl_deallocate_tsd.
LEMMA StartPreserves ==
  ASSUME Sizes, IInv, NEW t \in Threads, Start(t)
  PROVE  IInv'
<1>1. /\ pc[t] = "none" /\ pc' = [pc EXCEPT ![t] = "user"]
      /\ UNCHANGED <<tables, specific, blocks, specific_used, local, walk>>
  BY DEF Start
<1>2. Goes(t, "user") /\ Locals' /\ Control'
  BY <1>1 DEF IInv, Locals, Control, Goes
<1>3. \A u \in Threads, k \in Keys : last'[u][k] = IF u = t THEN NULL ELSE last[u][k]
  BY DEF IInv, Arrays, Start
<1>4. \A k \in Keys : specific[t][k].data = NULL
  BY <1>1, ItsWalk DEF WalkOf
<1>5. \A u \in Threads : pc'[u] = IF u = t THEN "user" ELSE pc[u]
  BY <1>1 DEF IInv, Control
<1>6. Data'
  <2>1. ASSUME NEW k \in Keys
        PROVE  DataOf(t, k)'
    BY <1>1, <1>3, <1>4, NullData
  <2>2. ASSUME NEW u \in Threads, u # t, NEW k \in Keys
        PROVE  DataOf(u, k)'
    <3>1. last'[u][k] = last[u][k] /\ pc'[u] = pc[u]
      BY <1>3, <1>5, <2>2
    <3>2. pc[u] \in {"none", "just_free"} \/ pc[u] \notin {"none", "just_free"}
      OBVIOUS
    <3> QED
      BY <1>1, <3>1, <3>2, ItsData, SameData
  <2> QED
    BY <2>1, <2>2 DEF Data
<1>7. Arrays'
  BY <1>1 DEF IInv, Arrays, Start
<1>8. Calls'
  BY <1>1, <1>2, CallsStep
<1>9. Walks'
  <2>1. \A u \in Threads \ {t} : Same(u)
    BY <1>1, <1>5 DEF Same
  <2>2. WalkOf(t)'
    BY <1>1, <1>4, <1>5, ItsWalk DEF WalkOf
  <2> QED
    BY <2>1, <2>2, WalksStep
<1> QED
  BY <1>1, <1>2, <1>6, <1>7, <1>8, <1>9, TablesStep DEF IInv

\* A thread exits, with the first pass of the walk if it has ever set a value.
LEMMA ExitPreserves ==
  ASSUME Sizes, IInv, NEW t \in Threads, Exit(t)
  PROVE  IInv'
<1>1. pc[t] = "user" /\ ~exiting[t] /\ UNCHANGED <<tables, specific, blocks, last, round, local>>
  BY DEF Exit
<1>4. PICK l \in {"visit", "none"} : Goes(t, l)
  BY DEF Exit, BeginPass, Goes
<1>5. Locals' /\ Calls'
  BY <1>1, <1>4, CallsStep DEF IInv, Locals
<1>6. Data'
  BY <1>1, <1>4, DataStep DEF IInv, Control, Goes
<1>2. CASE specific_used[t]
  <2>1. /\ specific_used' = [specific_used EXCEPT ![t] = FALSE]
        /\ exiting' = [exiting EXCEPT ![t] = TRUE]
        /\ idx' = [idx EXCEPT ![t] = 0]
        /\ pc' = [pc EXCEPT ![t] = "visit"]
    BY <1>2 DEF Exit, BeginPass
  <2>2. Control'
    BY <1>1, <2>1 DEF IInv, Control
  <2>3. Block(0) = 0
    BY BlockFacts DEF Sizes, FirstBlock
  <2>5. \A k \in Keys : ~(k < 0)
    BY DEF Sizes, Keys
  <2>4. Walks'
    <3>1. /\ pc'[t] = "visit" /\ exiting'[t] /\ idx'[t] = 0
          /\ \A u \in Threads \ {t} : Same(u)
      BY <1>1, <2>1 DEF IInv, Control, Arrays, Same
    <3>2. WalkOf(t)'
      BY <1>1, <2>3, <2>5, <3>1, ItsWalk DEF WalkOf
    <3> QED
      BY <3>1, <3>2, WalksStep
  <2>6. Arrays'
    BY <1>1, <2>1 DEF IInv, Arrays
  <2> QED
    BY <1>1, <1>5, <1>6, <2>2, <2>4, <2>6, TablesStep DEF IInv
<1>3. CASE ~specific_used[t]
  <2>1. pc' = [pc EXCEPT ![t] = "none"] /\ UNCHANGED <<specific_used, exiting, idx>>
    BY <1>3 DEF Exit
  <2>2. Control'
    BY <1>1, <2>1 DEF IInv, Control
  <2>3. Walks'
    <3>1. pc'[t] = "none" /\ \A u \in Threads \ {t} : Same(u)
      BY <1>1, <2>1 DEF IInv, Control, Same
    <3>2. WalkOf(t)'
      BY <1>1, <1>3, <2>1, <3>1, ItsWalk DEF WalkOf
    <3> QED
      BY <3>1, <3>2, WalksStep
  <2> QED
    BY <1>1, <1>5, <1>6, <2>1, <2>2, <2>3, TablesStep, ArraysStep DEF IInv
<1> QED
  BY <1>2, <1>3

\* The walk goes on to the next key.
LEMMA AdvanceOne ==
  ASSUME Sizes, NEW n \in Nat, NEW k \in Keys, k < n + 1
  PROVE  k <= n
  BY DEF Sizes, Keys

\* Where the walk then is.
LEMMA DestrWalks ==
  ASSUME Sizes, IInv, NEW t \in Threads, Destr(t) \/ DestrReturns(t)
  PROVE  Walks'
<1>1. UNCHANGED <<specific, blocks, specific_used, exiting, round>>
  BY DEF Destr, DestrReturns
<1>2. exiting[t] /\ pc[t] \in {"destr", "user"} /\ idx[t] \in Nat
  BY ItsWalk DEF IInv, Control, WalkOf, Destr, DestrReturns
<1>6. idx[t] \in Keys /\ Block(idx[t]) \in blocks[t]
  BY <1>2, ItsWalk DEF WalkOf
<1>5. \A u \in Threads : u # t => local'[u] = local[u]
  BY DEF IInv, Locals, Destr, DestrReturns
<1>3. CASE idx' = idx /\ pc' = [pc EXCEPT ![t] = "user"]
  <2>1. pc'[t] = "user" /\ \A u \in Threads \ {t} : Same(u)
    BY <1>1, <1>3, <1>5 DEF IInv, Control, Same
  <2>2. WalkOf(t)'
    BY <1>1, <1>2, <1>3, <1>6, <2>1, ItsWalk DEF WalkOf
  <2> QED
    BY <2>1, <2>2, WalksStep
<1>4. CASE idx' = [idx EXCEPT ![t] = @ + 1] /\ pc' = [pc EXCEPT ![t] = "visit"]
  <2>1. Block(idx[t] + 1) = Block(idx[t]) \/ Aligned(idx[t] + 1)
    BY <1>2, BlockFacts
  <2>2. \A k \in Keys : k < idx[t] + 1 => k <= idx[t]
    BY <1>2, AdvanceOne
  <2>3. /\ pc'[t] = "visit" /\ idx'[t] = idx[t] + 1
        /\ \A u \in Threads \ {t} : Same(u)
    BY <1>1, <1>4, <1>5 DEF IInv, Control, Same
  <2>4. WalkOf(t)'
    BY <1>1, <1>2, <1>6, <2>1, <2>2, <2>3, ItsWalk DEF WalkOf
  <2> QED
    BY <2>3, <2>4, WalksStep
<1> QED
  BY <1>3, <1>4 DEF Destr, DestrReturns, Advance

\* A destructor is called or not, and returns.
LEMMA DestrPreserves ==
  ASSUME Sizes, IInv, NEW t \in Threads, Destr(t) \/ DestrReturns(t)
  PROVE  IInv'
<1>1. UNCHANGED <<tables, arrays, exiting, round>>
  BY DEF Destr, DestrReturns
<1>2. pc[t] \in {"destr", "user"}
  BY DEF Destr, DestrReturns
<1>3. Locals'
  BY DEF IInv, Locals, Destr, DestrReturns
<1>4. Control'
  BY DEF IInv, Control, Destr, DestrReturns, Advance
<1>5. PICK l \in {"user", "visit"} : Goes(t, l)
  BY DEF IInv, Locals, Destr, DestrReturns, Goes
<1>6. Calls'
  BY <1>1, <1>5, CallsStep
<1>7. Data'
  BY <1>1, <1>2, <1>5, DataStep DEF IInv, Control, Goes
<1> QED
  BY <1>1, <1>3, <1>4, <1>6, <1>7, DestrWalks, TablesStep, ArraysStep DEF IInv
=============================================================================
