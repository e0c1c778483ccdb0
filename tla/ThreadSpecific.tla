--------------------------- MODULE ThreadSpecific ---------------------------
(***************************************************************************)
(* Thread-specific data: pthread_key_create, pthread_key_delete,           *)
(* pthread_setspecific, pthread_getspecific and __nptl_deallocate_tsd,     *)
(* which a thread executes when it exits.                                  *)
(*                                                                         *)
(* A descriptor and the threads that run on its stack one after the other  *)
(* are one member of Threads: a cached descriptor keeps its arrays.  Only  *)
(* the table __pthread_keys is shared, so a step has one access to it.     *)
(*                                                                         *)
(* The key that a call of pthread_key_create returns is known by its slot  *)
(* and the sequence number it gave to the slot; the values stored under it *)
(* and its destructor are represented by that number, NULL is 0.  A        *)
(* program uses a key from the return of pthread_key_create until          *)
(* pthread_key_delete takes effect.                                        *)
(***************************************************************************)
EXTENDS Naturals

CONSTANTS Threads,
          PTHREAD_KEYS_MAX,
          PTHREAD_KEY_2NDLEVEL_SIZE,
          PTHREAD_DESTRUCTOR_ITERATIONS,
          UINTPTR, UINT,  \* uintptr_t and unsigned int are the numbers below
          MaxCreates,   \* bounds the calls of pthread_key_create
          MaxStarts     \* bounds the threads started

\* The sizes that limits.h and the types of the target give.
Sizes ==
  /\ PTHREAD_KEYS_MAX \in Nat /\ PTHREAD_KEY_2NDLEVEL_SIZE \in Nat \ {0}
  /\ PTHREAD_DESTRUCTOR_ITERATIONS \in Nat
  /\ UINTPTR \in Nat \ {0} /\ UINT \in Nat

ASSUME SizesAssumption == Sizes

PTHREAD_KEY_1STLEVEL_SIZE ==
  (PTHREAD_KEYS_MAX + PTHREAD_KEY_2NDLEVEL_SIZE - 1) \div PTHREAD_KEY_2NDLEVEL_SIZE

Keys == 0 .. PTHREAD_KEYS_MAX - 1
FirstBlock == 0 .. PTHREAD_KEY_2NDLEVEL_SIZE - 1
Block(k) == k \div PTHREAD_KEY_2NDLEVEL_SIZE

NULL == 0
NoData == [seq |-> 0, data |-> NULL]

VARIABLES
  keys,           \* __pthread_keys: seq and destr
  specific,       \* specific[t][k]: seq and data; seq is not read if data is NULL
  blocks,         \* blocks[t]: the second-level arrays that exist
  specific_used,
  pc, local,      \* what t does next, and the local variables of its call
  exiting,        \* exiting[t]: t executes __nptl_deallocate_tsd
  idx, round,     \* its loop variables
  live,           \* live[k]: the key in slot k that the program may use, or 0
  last,           \* last[t][k]: what t set last for the key live[k]
  created, started

tables == <<keys, live, created>>
arrays == <<specific, blocks, specific_used, last>>
walk == <<exiting, idx, round>>
vars == <<tables, arrays, pc, local, walk, started>>

NoLocals == [key |-> 0, seq |-> 0, data |-> NULL]

Init ==
  /\ keys = [k \in Keys |-> [seq |-> 0, destr |-> NULL]]
  /\ live = [k \in Keys |-> 0]
  /\ created = 0 /\ started = 0
  /\ specific = [t \in Threads |-> [k \in Keys |-> NoData]]
  /\ blocks = [t \in Threads |-> {0}]
  /\ specific_used = [t \in Threads |-> FALSE]
  /\ last = [t \in Threads |-> [k \in Keys |-> NULL]]
  /\ pc = [t \in Threads |-> "none"]
  /\ local = [t \in Threads |-> NoLocals]
  /\ exiting = [t \in Threads |-> FALSE]
  /\ idx = [t \in Threads |-> 0] /\ round = [t \in Threads |-> 0]

Goto(t, label) == pc' = [pc EXCEPT ![t] = label]
Set(t, l) == local' = [local EXCEPT ![t] = l]
Return(t) == Goto(t, "user") /\ Set(t, NoLocals)

KEY_UNUSED(seq) == seq % 2 = 0

KEY_USABLE(seq) == seq < (seq + 2) % UINTPTR

-----------------------------------------------------------------------------
\* ___pthread_key_create: look for an unused slot, take it by a CAS of its
\* sequence number, and only then store the destructor.

CreateBegin(t) ==
  /\ pc[t] = "user" /\ created < MaxCreates
  /\ created' = created + 1
  /\ Goto(t, "create_load") /\ Set(t, NoLocals)
  /\ UNCHANGED <<keys, live, arrays, walk, started>>

NextSlot(t) == Set(t, [NoLocals EXCEPT !.key = local[t].key + 1]) /\ Goto(t, "create_load")

CreateLoad(t) ==
  /\ pc[t] = "create_load"
  /\ LET cnt == local[t].key
     IN  IF cnt = PTHREAD_KEYS_MAX THEN Return(t)     \* EAGAIN
         ELSE IF KEY_UNUSED(keys[cnt].seq) /\ KEY_USABLE(keys[cnt].seq)
         THEN Goto(t, "create_cas") /\ Set(t, [local[t] EXCEPT !.seq = keys[cnt].seq])
         ELSE NextSlot(t)
  /\ UNCHANGED <<tables, arrays, walk, started>>

Taken(t) == keys[local[t].key].seq = local[t].seq

CreateCAS(t) ==
  /\ pc[t] = "create_cas"
  /\ IF Taken(t)
       THEN /\ keys' = [keys EXCEPT ![local[t].key].seq = local[t].seq + 1]
            /\ Goto(t, "create_destr") /\ UNCHANGED local
       ELSE NextSlot(t) /\ UNCHANGED keys
  /\ UNCHANGED <<live, created, arrays, walk, started>>

CreateDestr(t) ==
  /\ pc[t] = "create_destr"
  /\ LET key == local[t].seq + 1
     IN  /\ \E destr \in {NULL, key} : keys' = [keys EXCEPT ![local[t].key].destr = destr]
         /\ live' = [live EXCEPT ![local[t].key] = key]
  /\ Return(t)
  /\ UNCHANGED <<created, arrays, walk, started>>

\* ___pthread_key_delete, which keeps the sequence number in an unsigned int.

DeleteLoad(t, k) ==
  /\ pc[t] = "user" /\ live[k] # 0
  /\ Goto(t, "delete_cas") /\ Set(t, [NoLocals EXCEPT !.key = k, !.seq = keys[k].seq % UINT])
  /\ UNCHANGED <<tables, arrays, walk, started>>

DeleteCAS(t) ==
  /\ pc[t] = "delete_cas"
  /\ LET k == local[t].key
     IN  IF keys[k].seq = local[t].seq
           THEN /\ keys' = [keys EXCEPT ![k].seq = (local[t].seq + 1) % UINT]
                /\ live' = [live EXCEPT ![k] = 0]
                /\ last' = [u \in Threads |-> [last[u] EXCEPT ![k] = NULL]]
           ELSE UNCHANGED <<keys, live, last>>        \* EINVAL
  /\ Return(t)
  /\ UNCHANGED <<created, specific, blocks, specific_used, walk, started>>

-----------------------------------------------------------------------------
\* ___pthread_setspecific.  A call that returns an error changes nothing, and
\* neither does one that stores NULL where there is no array.

Marks_Never(k, value) == FALSE
Marks(k, value) == value # NULL \/ k \notin FirstBlock

SetSpecific(t, k) ==
  /\ pc[t] = "user" /\ live[k] # 0
  /\ ~KEY_UNUSED(keys[k].seq % UINT)
  /\ \E value \in {NULL, live[k]} :
       /\ value # NULL \/ Block(k) \in blocks[t]
       /\ specific' = [specific EXCEPT ![t][k] =
            IF value = NULL THEN NoData ELSE [seq |-> keys[k].seq % UINT, data |-> value]]
       /\ specific_used' = [specific_used EXCEPT ![t] = @ \/ Marks(k, value)]
       /\ last' = [last EXCEPT ![t][k] = value]
  /\ blocks' = [blocks EXCEPT ![t] = @ \cup {Block(k)}]
  /\ UNCHANGED <<tables, pc, local, walk, started>>

\* ___pthread_getspecific: the value it returns, and its effect on stale data.

Current_Ignored(t, k) == TRUE
Current(t, k) == specific[t][k].seq = keys[k].seq

Result(t, k) == IF Current(t, k) THEN specific[t][k].data ELSE NULL

GetSpecific(t, k) ==
  /\ pc[t] = "user" /\ live[k] # 0
  /\ specific[t][k].data # NULL /\ ~Current(t, k)
  /\ specific' = [specific EXCEPT ![t][k] = NoData]
  /\ UNCHANGED <<tables, blocks, specific_used, last, pc, local, walk, started>>

-----------------------------------------------------------------------------
\* __nptl_deallocate_tsd.

Start(t) ==
  /\ pc[t] = "none" /\ started < MaxStarts
  /\ started' = started + 1
  /\ last' = [last EXCEPT ![t] = [k \in Keys |-> NULL]]
  /\ Goto(t, "user")
  /\ UNCHANGED <<tables, specific, blocks, specific_used, local, walk>>

BeginPass(t) ==
  /\ specific_used' = [specific_used EXCEPT ![t] = FALSE]
  /\ idx' = [idx EXCEPT ![t] = 0]
  /\ Goto(t, "visit")

Exit(t) ==
  /\ pc[t] = "user" /\ ~exiting[t]
  /\ IF specific_used[t]
       THEN BeginPass(t) /\ exiting' = [exiting EXCEPT ![t] = TRUE]
       ELSE Goto(t, "none") /\ UNCHANGED <<specific_used, exiting, idx>>
  /\ UNCHANGED <<tables, specific, blocks, last, local, round, started>>

Advance(t, n) == idx' = [idx EXCEPT ![t] = @ + n]

\* The data is cleared; the destructor is called only if the key is still the
\* one that the data was set for.
Visit(t) ==
  /\ pc[t] = "visit" /\ idx[t] < PTHREAD_KEYS_MAX
  /\ LET k == idx[t]
     IN  IF Block(k) \notin blocks[t]
           THEN Advance(t, PTHREAD_KEY_1STLEVEL_SIZE) /\ UNCHANGED <<specific, last, pc, local>>
         ELSE IF specific[t][k].data = NULL
           THEN Advance(t, 1) /\ UNCHANGED <<specific, last, pc, local>>
         ELSE
           /\ specific' = [specific EXCEPT ![t][k] = NoData]
           /\ last' = [last EXCEPT ![t][k] = NULL]
           /\ IF Current(t, k)
                THEN /\ Set(t, [key |-> k, seq |-> keys[k].seq, data |-> specific[t][k].data])
                     /\ Goto(t, "destr") /\ UNCHANGED idx
                ELSE Advance(t, 1) /\ UNCHANGED <<pc, local>>
  /\ UNCHANGED <<tables, blocks, specific_used, exiting, round, started>>

\* The load of destr; a destructor may call all of the functions above.
Destr(t) ==
  /\ pc[t] = "destr"
  /\ IF keys[local[t].key].destr # NULL
       THEN Return(t) /\ UNCHANGED idx
       ELSE Goto(t, "visit") /\ Set(t, NoLocals) /\ Advance(t, 1)
  /\ UNCHANGED <<tables, arrays, exiting, round, started>>

DestrReturns(t) ==
  /\ pc[t] = "user" /\ exiting[t]
  /\ Goto(t, "visit") /\ Advance(t, 1)
  /\ UNCHANGED <<tables, arrays, local, exiting, round, started>>

Cleared(t, S) ==
  specific' = [specific EXCEPT ![t] = [k \in Keys |-> IF k \in S THEN NoData ELSE @[k]]]

\* The end of a pass: another one, or none since no data was set in it, or none
\* since there have been enough; then the first array is cleared.
EndPass(t) ==
  /\ pc[t] = "visit" /\ idx[t] >= PTHREAD_KEYS_MAX
  /\ IF ~specific_used[t]
       THEN Goto(t, "just_free") /\ UNCHANGED <<specific, specific_used, idx, round>>
     ELSE /\ round' = [round EXCEPT ![t] = @ + 1]
          /\ IF round'[t] < PTHREAD_DESTRUCTOR_ITERATIONS
               THEN BeginPass(t) /\ UNCHANGED specific
               ELSE /\ Cleared(t, FirstBlock) /\ Goto(t, "just_free")
                    /\ UNCHANGED <<specific_used, idx>>
  /\ UNCHANGED <<tables, blocks, last, local, exiting, started>>

JustFree(t) ==
  /\ pc[t] = "just_free"
  /\ Cleared(t, Keys \ FirstBlock)
  /\ blocks' = [blocks EXCEPT ![t] = {0}]
  /\ specific_used' = [specific_used EXCEPT ![t] = FALSE]
  /\ exiting' = [exiting EXCEPT ![t] = FALSE]
  /\ idx' = [idx EXCEPT ![t] = 0] /\ round' = [round EXCEPT ![t] = 0]
  /\ Goto(t, "none")
  /\ UNCHANGED <<tables, last, local, started>>

-----------------------------------------------------------------------------
Next ==
  \E t \in Threads :
    \/ CreateBegin(t) \/ CreateLoad(t) \/ CreateCAS(t) \/ CreateDestr(t) \/ DeleteCAS(t)
    \/ \E k \in Keys : DeleteLoad(t, k) \/ SetSpecific(t, k) \/ GetSpecific(t, k)
    \/ Start(t) \/ Exit(t) \/ Visit(t) \/ Destr(t) \/ DestrReturns(t) \/ EndPass(t)
    \/ JustFree(t)

Spec == Init /\ [][Next]_vars

-----------------------------------------------------------------------------
\* pthread_getspecific returns what this thread stored last under this key: not
\* what it, or a thread that had its descriptor before, stored under a key that
\* had the slot earlier, nor what that other thread left; and a key in use stays
\* in its slot, whoever creates and deletes keys at the same time.
GetsOwn ==
  \A k \in Keys :
    live[k] # 0 =>
      /\ keys[k].seq = live[k]
      /\ \A t \in Threads :
           pc[t] = "user" =>
             Result(t, k) = last[t][k]

\* The key was deleted and the slot was given to another one after the test of the
\* sequence number and before the load of destr.
Reallocated(t) == keys[local[t].key].seq > local[t].seq + 1

\* A value is dropped without its destructor having been called only after
\* PTHREAD_DESTRUCTOR_ITERATIONS passes, and __nptl_deallocate_tsd passes it to no
\* destructor but that of the key it was stored under ("This test fails if the key
\* was deallocated and also if it was re-allocated"), unless the slot is
\* re-allocated after that test.
DestructorsRun ==
  \A t \in Threads :
    /\ pc[t] = "just_free" /\ round[t] < PTHREAD_DESTRUCTOR_ITERATIONS =>
         \A k \in Keys : specific[t][k].data = NULL
    /\ pc[t] = "destr" /\ ~Reallocated(t) =>
         keys[local[t].key].destr \in {NULL, local[t].data}
=============================================================================
