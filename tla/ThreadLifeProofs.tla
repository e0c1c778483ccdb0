-------------------------- MODULE ThreadLifeProofs --------------------------
(***************************************************************************)
(* Proofs about ThreadLife for any number of descriptors and any size of   *)
(* the cache: stacks outlive their threads, descriptors are freed once,    *)
(* signals reach the thread they are meant for, and only the last thread   *)
(* ends the process.                                                       *)
(***************************************************************************)
EXTENDS ThreadLife, TLAPS

Creating == {"clone", "configure"}
Joining == {"j_load", "j_wait", "j_blocked", "j_free"}
Detaching == {"d_load", "d_cas"}
Locked == {"k_check", "tgkill", "k_unlock"}
Killing == {"k_lock"} \cup Locked
Leaving == {"x_dec", "x_lock", "x_free", "x_kernel"}
Plain == {"none", "run", "gate"} \cup Leaving

KillOps == {"kill", "cancel"}
States == {EXITED, EXITING, JOINABLE, DETACHED}

TypeOK ==
  /\ used \subseteq TCBs
  /\ joinstate \in [TCBs -> States]
  /\ terminated \in [TCBs -> BOOLEAN]
  /\ exiting \in [TCBs -> BOOLEAN]
  /\ setup_failed \in [TCBs -> BOOLEAN]
  /\ gate \in [TCBs -> BOOLEAN]
  /\ kwake \in [TCBs -> BOOLEAN]
  /\ finished \in BOOLEAN
  /\ exit_lock \in [TCBs -> TCBs \cup {NoTCB}]
  /\ onstack \in [TCBs -> Nat]
  /\ pc \in [TCBs -> Creating \cup Joining \cup Detaching \cup Killing \cup Plain]
  /\ op \in [TCBs -> {"none", "create"} \cup JoinOps \cup KillOps]
  /\ target \in [TCBs -> TCBs \cup {NoTCB}]
  /\ seen \in [TCBs -> States]
  /\ handle \in [TCBs -> {"none", "joinable", "taken", "detached", "gone"}]

\* A thread is in a call exactly while it has a target, which the call keeps
\* from being freed; calls other than pthread_kill have their target alone.
Calls ==
  /\ \A q \in TCBs :
       /\ (op[q] = "none" <=> target[q] = NoTCB) /\ (op[q] = "none" <=> pc[q] \in Plain)
       /\ op[q] = "create" => pc[q] \in Creating \cup Joining /\ handle[target[q]] = "none"
       /\ op[q] \in JoinOps => pc[q] \in Joining \cup Detaching /\ handle[target[q]] = "taken"
       /\ op[q] \in KillOps => pc[q] \in Killing /\ handle[target[q]] = "joinable"
       /\ op[q] # "none" => target[q] \in used /\ target[q] # main
       /\ op[q] # "none" /\ op[q] \notin JoinOps => target[q] # q
       /\ pc[q] \in Detaching => op[q] = "detach"
  /\ \A q, r \in TCBs : target[q] = target[r] /\ op[q] # "none" /\ op[q] \notin KillOps => q = r

\* The descriptor of a thread that runs is in use, or in the cache and about to
\* be released by the kernel; and what the program may do with it.
Lives ==
  /\ main \in used /\ handle[main] = "none" /\ pc[main] \notin {"gate", "x_lock", "x_free", "x_kernel"}
  /\ \A p \in TCBs :
       /\ onstack[p] = IF pc[p] = "none" THEN 0 ELSE 1
       /\ pc[p] \notin {"none", "x_kernel"} => p \in used
       /\ pc[p] = "x_kernel" => p \in used \cup cache
       /\ p \in used => ~terminated[p]
       /\ terminated[p] => joinstate[p] = EXITED \/ pc[p] = "x_kernel"
       /\ handle[p] \in {"joinable", "taken"} => p \in used
       /\ handle[p] = "gone" => p \notin used
       /\ handle[p] = "detached" /\ p \in used => pc[p] \notin {"none", "x_kernel"}
       /\ setup_failed[p] => handle[p] = "none"
       /\ handle[p] \in {"joinable", "taken"} /\ ~exiting[p] => pc[p] \notin {"none", "x_free", "x_kernel"}

\* joinstate, against what the thread does and what the program knows.
Joinstate ==
  \A p \in TCBs \ {main} :
    /\ joinstate[p] = EXITED => pc[p] = "none"
    /\ pc[p] \in Leaving => joinstate[p] = EXITING \/ (pc[p] = "x_kernel" /\ setup_failed[p])
    /\ pc[p] \notin Leaving \cup {"none"} => joinstate[p] \in {JOINABLE, DETACHED}
    /\ pc[p] = "none" /\ p \in used =>
         joinstate[p] = EXITED \/ \E q \in TCBs : target[q] = p /\ pc[q] = "clone"
    /\ pc[p] \notin {"none", "gate", "x_kernel"} => handle[p] \in {"joinable", "taken", "detached"}
    /\ pc[p] = "gate" /\ handle[p] = "none" =>
         /\ gate[p] \/ setup_failed[p]
         /\ \E q \in TCBs : op[q] = "create" /\ target[q] = p
    /\ joinstate[p] = DETACHED /\ pc[p] # "none" =>
         \/ handle[p] = "detached"
         \/ handle[p] = "none" /\ pc[p] = "gate"
         \/ handle[p] = "taken" /\ pc[p] \in Detaching /\ target[p] = p
    /\ handle[p] = "detached" => joinstate[p] # JOINABLE
    /\ handle[p] = "joinable" => joinstate[p] # DETACHED
    /\ pc[p] \in {"x_dec", "x_lock", "x_free"} => (seen[p] = DETACHED <=> handle[p] = "detached")

\* What a call knows about its target.
Creates ==
  \A q \in TCBs :
    op[q] = "create" =>
      /\ pc[q] = "clone" => /\ pc[target[q]] = "none" /\ ~setup_failed[target[q]]
                            /\ joinstate[target[q]] \in {JOINABLE, DETACHED}
      /\ pc[q] = "configure" => pc[target[q]] = "gate" /\ gate[target[q]] /\ ~setup_failed[target[q]]
      /\ pc[q] \in Joining => setup_failed[target[q]] /\ pc[target[q]] \in {"gate", "x_kernel", "none"}

Joins ==
  \A q \in TCBs :
    /\ pc[q] = "j_free" => joinstate[target[q]] = EXITED
    /\ pc[q] = "j_wait" => seen[q] # EXITED
    /\ pc[q] = "j_blocked" /\ joinstate[target[q]] = EXITED => kwake[target[q]]
    /\ pc[q] \in Joining /\ op[q] # "create" => joinstate[target[q]] # DETACHED
    /\ pc[q] \in Detaching /\ joinstate[target[q]] = DETACHED => target[q] = q
    /\ pc[q] = "d_cas" /\ seen[q] = DETACHED => joinstate[target[q]] = DETACHED
    /\ pc[q] = "d_cas" /\ seen[q] \in {EXITING, EXITED} => joinstate[target[q]] \in {EXITING, EXITED}

Kills ==
  /\ \A p, q \in TCBs : exit_lock[p] = q <=> target[q] = p /\ pc[q] \in Locked
  /\ \A q \in TCBs : pc[q] = "tgkill" => ~exiting[target[q]]

\* __nptl_nthreads counts the threads that have not yet decremented it and those
\* that are being created.
Counted ==
  {p \in TCBs : \/ pc[p] \notin {"none", "x_lock", "x_free", "x_kernel"}
                \/ \E q \in TCBs : op[q] = "create" /\ target[q] = p}

Counts == nthreads = Cardinality(Counted) /\ (finished <=> Counted = {})

Shape == TypeOK /\ Calls /\ Lives /\ Joinstate /\ Creates /\ Joins /\ Kills

IInv == Shape /\ Counts

USE SMTT(30), ZenonT(30)
USE DEF Creating, Joining, Detaching, Locked, Killing, Leaving, Plain, KillOps, JoinOps, States,
        EXITED, EXITING, JOINABLE, DETACHED, desc, stacks, kernel, locals, At, Goto

\* Freeing a stack (__nptl_deallocate_stack) takes the descriptor from the
\* used list to the cache, and evicts only descriptors that are no longer in
\* use.
LEMMA Deallocated ==
  ASSUME NEW p, Deallocate(p)
  PROVE  /\ used' = used \ {p}
         /\ \A r \in cache \cup {p} : joinstate[r] # EXITED => r \in cache'
  BY Zenon DEF Deallocate, Victims, Reusable

\* pthread_create, up to allocate_stack and the increment of __nptl_nthreads.
LEMMA AllocatePreserves ==
  ASSUME IInv, NEW q \in TCBs, Allocate(q)
  PROVE  Shape'
<1>1. TypeOK' /\ Calls' /\ Lives' /\ Joinstate'
  BY ThreadLifeAssumption DEF IInv, Shape, TypeOK, Allocate, Call, Reusable, Calls,
     Lives, Joinstate
<1>5. Creates' /\ Joins' /\ Kills'
  BY ThreadLifeAssumption DEF IInv, Shape, TypeOK, Calls, Lives, Joinstate, Creates,
     Allocate, Call, Reusable, Joins, Kills
<1> QED
  BY <1>1, <1>5, Zenon DEF Shape

\* clone succeeds: the new thread starts at its gate.
LEMMA ClonePreserves ==
  ASSUME IInv, NEW q \in TCBs, Clone(q)
  PROVE  Shape'
<1>1. TypeOK'
  <2>0. target[q] \in TCBs
    BY Zenon DEF IInv, Shape, TypeOK, Calls, Clone
  <2>1. CASE gate[target[q]]
    BY <2>1, <2>0 DEF IInv, Shape, TypeOK, Clone, Publish
  <2>2. CASE ~gate[target[q]]
    BY <2>2, <2>0 DEF IInv, Shape, TypeOK, Clone, Publish
  <2> QED
    BY <2>1, <2>2, Zenon DEF IInv, Shape, TypeOK, Clone
<1>2. Calls'
  BY ThreadLifeAssumption DEF IInv, Shape, TypeOK, Calls, Creates, Clone, Publish
<1>3. Lives' /\ Joins'
  BY ThreadLifeAssumption DEF IInv, Shape, TypeOK, Calls, Lives, Joinstate, Creates,
     Joins, Kills, Clone, Publish
<1>4. Joinstate'
  BY DEF IInv, Shape, TypeOK, Calls, Joinstate, Creates, Clone, Publish
<1>5. Creates'
  BY DEF IInv, Shape, TypeOK, Calls, Creates, Clone, Publish
<1>7. Kills'
  BY DEF IInv, Shape, TypeOK, Calls, Joinstate, Kills, Clone
<1> QED
  BY <1>1, <1>2, <1>3, <1>4, <1>5, <1>7, Zenon DEF Shape

\* clone fails: pthread_create takes the descriptor back.
LEMMA CloneFailsPreserves ==
  ASSUME IInv, NEW q \in TCBs, CloneFails(q)
  PROVE  Shape'
<1>1. TypeOK'
  BY Deallocated, Zenon DEF IInv, Shape, TypeOK, CloneFails, Return
<1>2. Calls' /\ Lives' /\ Joinstate'
  BY Deallocated, ThreadLifeAssumption DEF IInv, Shape, TypeOK, Calls, CloneFails,
     Return, Lives, Joinstate, Creates, Joins, Kills
<1>5. Creates' /\ Kills'
  BY Deallocated DEF IInv, Shape, TypeOK, Creates, CloneFails, Return, Kills
<1>6. Joins'
  BY Deallocated DEF IInv, Shape, TypeOK, Joins, CloneFails, Return
<1> QED
  BY <1>1, <1>2, <1>5, <1>6, Zenon DEF Shape

\* The creator configures the new thread and opens its gate.
LEMMA ConfigurePreserves ==
  ASSUME IInv, NEW q \in TCBs, Configure(q)
  PROVE  Shape'
<1>1. TypeOK'
  BY ZenonT(40) DEF IInv, Shape, TypeOK, Configure, Publish, Return
<1>2. Calls' /\ Joinstate'
  BY DEF IInv, Shape, TypeOK, Calls, Configure, Publish, Return, Joinstate
<1>3. Lives' /\ Creates'
  BY ThreadLifeAssumption DEF IInv, Shape, TypeOK, Calls, Lives, Joinstate, Creates,
     Joins, Kills, Configure, Publish, Return
<1>6. Joins'
  BY DEF IInv, Shape, TypeOK, Calls, Joins, Configure, Publish, Return
<1>7. Kills'
  BY DEF IInv, Shape, TypeOK, Kills, Configure, Publish, Return
<1> QED
  BY <1>1, <1>2, <1>3, <1>6, <1>7, Zenon DEF Shape

\* The new thread passes the gate, or leaves because its configuration failed.
LEMMA GatePreserves ==
  ASSUME IInv, NEW q \in TCBs, Gate(q)
  PROVE  Shape'
<1>1. TypeOK' /\ Calls' /\ Joinstate' /\ Kills'
  BY ThreadLifeAssumption DEF IInv, Shape, TypeOK, Gate, Calls, Lives, Joinstate, Kills
<1>3. Lives' /\ Creates' /\ Joins'
  BY ThreadLifeAssumption DEF IInv, Shape, TypeOK, Lives, Gate, Calls, Creates,
     Joinstate, Joins
<1> QED
  BY <1>1, <1>3, Zenon DEF Shape

\* The start routine returns and the thread publishes EXITING.
LEMMA ExitPreserves ==
  ASSUME IInv, NEW q \in TCBs, Exit(q)
  PROVE  Shape'
<1>1. TypeOK'
  BY Zenon DEF IInv, Shape, TypeOK, Exit
<1>2. Calls' /\ Joinstate' /\ Creates'
  BY DEF IInv, Shape, TypeOK, Calls, Exit, Joinstate, Creates
<1>3. Lives'
  BY Zenon DEF IInv, Shape, TypeOK, Lives, Exit
<1>6. Joins' /\ Kills'
  BY ThreadLifeAssumption DEF IInv, Shape, TypeOK, Calls, Lives, Joinstate, Joins, Exit,
     Kills
<1> QED
  BY <1>1, <1>2, <1>3, <1>6, Zenon DEF Shape

\* The thread leaves __nptl_nthreads; the last one calls exit.
LEMMA DecrementPreserves ==
  ASSUME IInv, NEW q \in TCBs, Decrement(q)
  PROVE  Shape'
<1>1. TypeOK' /\ Calls' /\ Lives'
  BY DEF IInv, Shape, TypeOK, Decrement, LastThread, Calls, Lives
<1>4. Joinstate' /\ Joins'
  BY DEF IInv, Shape, TypeOK, Joinstate, Decrement, LastThread, Joins
<1>5. Creates' /\ Kills'
  BY DEF IInv, Shape, TypeOK, Calls, Creates, Decrement, LastThread, Kills
<1> QED
  BY <1>1, <1>4, <1>5, Zenon DEF Shape

\* The thread sets pd->exiting under the exit lock.
LEMMA SetExitingPreserves ==
  ASSUME IInv, NEW q \in TCBs, SetExiting(q)
  PROVE  Shape'
<1>1. TypeOK'
  BY Zenon DEF IInv, Shape, TypeOK, SetExiting, ExitWaits
<1>2. Calls' /\ Lives' /\ Joinstate' /\ Creates'
  BY DEF IInv, Shape, TypeOK, Calls, SetExiting, ExitWaits, Lives, Joinstate, Creates
<1>6. Joins'
  BY Zenon DEF IInv, Shape, TypeOK, Joins, SetExiting, ExitWaits
<1>7. Kills'
  BY DEF IInv, Shape, TypeOK, Calls, Kills, SetExiting, ExitWaits
<1> QED
  BY <1>1, <1>2, <1>6, <1>7, Zenon DEF Shape

\* A detached thread frees its own descriptor.
LEMMA ExitFreePreserves ==
  ASSUME IInv, NEW q \in TCBs, ExitFree(q)
  PROVE  Shape'
<1>1. TypeOK'
  <2>1. CASE seen[q] = DETACHED /\ ~terminated[q]
    BY <2>1, Deallocated, Zenon DEF IInv, Shape, TypeOK, ExitFree, FreeTCB
  <2>2. CASE seen[q] # DETACHED \/ terminated[q]
    BY <2>2, Deallocated, Zenon DEF IInv, Shape, TypeOK, ExitFree, FreeTCB
  <2> QED
    BY <2>1, <2>2, Zenon DEF IInv, Shape, TypeOK, ExitFree
<1>2. Calls' /\ Joinstate' /\ Creates' /\ Kills'
  BY ThreadLifeAssumption, Deallocated DEF IInv, Shape, TypeOK, Calls, Lives, Joinstate,
     ExitFree, FreeTCB, Creates, Kills
<1>3. Lives'
  <2>1. CASE seen[q] = DETACHED /\ ~terminated[q]
    BY <2>1, Deallocated, ThreadLifeAssumption DEF IInv, Shape, TypeOK, Lives,
       Joinstate, ExitFree, FreeTCB
  <2>2. CASE seen[q] # DETACHED \/ terminated[q]
    BY <2>2, ThreadLifeAssumption DEF IInv, Shape, TypeOK, Lives, Joinstate, ExitFree,
       FreeTCB
  <2> QED
    BY <2>1, <2>2, Zenon
<1>6. Joins'
  BY Deallocated, Zenon DEF IInv, Shape, TypeOK, Joins, ExitFree, FreeTCB
<1> QED
  BY <1>1, <1>2, <1>3, <1>6, Zenon DEF Shape

\* The kernel ends the thread and clears its tid, which is EXITED.
LEMMA KernelClearPreserves ==
  ASSUME IInv, NEW q \in TCBs, KernelClear(q)
  PROVE  Shape'
<1>1. TypeOK' /\ Calls' /\ Lives' /\ Joinstate'
  BY ThreadLifeAssumption DEF IInv, Shape, TypeOK, Calls, Lives, KernelClear, Joinstate
<1>5. Creates' /\ Joins' /\ Kills'
  BY DEF IInv, Shape, TypeOK, Creates, KernelClear, Joins, Kills
<1> QED
  BY <1>1, <1>5, Zenon DEF Shape

\* pthread_join begins.
LEMMA JoinPreserves ==
  ASSUME IInv, NEW q \in TCBs, Join(q)
  PROVE  Shape'
<1>1. TypeOK' /\ Calls' /\ Lives' /\ Joinstate'
  BY ThreadLifeAssumption DEF IInv, Shape, TypeOK, Join, TakeHandle, Busy, Call, Calls,
     Lives, Joinstate
<1>5. Creates' /\ Joins' /\ Kills'
  BY ThreadLifeAssumption DEF IInv, Shape, TypeOK, Creates, Join, TakeHandle, Busy,
     Call, Calls, Lives, Joinstate, Joins, Kills
<1> QED
  BY <1>1, <1>5, Zenon DEF Shape

\* pthread_tryjoin_np begins.
LEMMA TryJoinPreserves ==
  ASSUME IInv, NEW q \in TCBs, TryJoin(q)
  PROVE  Shape'
<1>1. TypeOK' /\ Calls' /\ Lives' /\ Joinstate'
  BY ThreadLifeAssumption DEF IInv, Shape, TypeOK, TryJoin, TakeHandle, Busy, Call,
     Calls, Lives, Joinstate
<1>5. Creates' /\ Joins' /\ Kills'
  BY DEF IInv, Shape, TypeOK, Creates, TryJoin, TakeHandle, Busy, Call, Joins, Kills
<1> QED
  BY <1>1, <1>5, Zenon DEF Shape

\* A joiner reads joinstate.
LEMMA JoinLoadPreserves ==
  ASSUME IInv, NEW q \in TCBs, JoinLoad(q)
  PROVE  Shape'
<1>1. TypeOK'
  <2>0. target[q] \in TCBs
    BY Zenon DEF IInv, Shape, TypeOK, Calls, JoinLoad
  <2>1. CASE joinstate[target[q]] = EXITED
    BY <2>1, <2>0 DEF IInv, Shape, TypeOK, JoinLoad, GiveUp, Publish, Return
  <2>2. CASE /\ joinstate[target[q]] # EXITED
            /\ op[q] \in JoinOps /\ (target[q] = q \/ joinstate[target[q]] = DETACHED)
    BY <2>2, <2>0 DEF IInv, Shape, TypeOK, JoinLoad, GiveUp, Publish, Return
  <2>3. CASE /\ joinstate[target[q]] # EXITED
            /\ ~(op[q] \in JoinOps /\ (target[q] = q \/ joinstate[target[q]] = DETACHED))
    BY <2>3, <2>0, Zenon DEF IInv, Shape, TypeOK, JoinLoad, GiveUp, Publish, Return
  <2> QED
    BY <2>1, <2>2, <2>3, Zenon DEF IInv, Shape, TypeOK, JoinLoad
<1>2. Calls' /\ Creates' /\ Kills'
  BY DEF IInv, Shape, TypeOK, Calls, JoinLoad, GiveUp, Publish, Return, Creates, Kills
<1>3. Lives' /\ Joins'
  BY ThreadLifeAssumption DEF IInv, Shape, TypeOK, Calls, Lives, Joinstate, JoinLoad,
     GiveUp, Publish, Return, Joins
<1>4. Joinstate'
  BY DEF IInv, Shape, TypeOK, Joinstate, JoinLoad, GiveUp, Publish, Return
<1> QED
  BY <1>1, <1>2, <1>3, <1>4, Zenon DEF Shape

\* A joiner enters futex_wait.
LEMMA JoinWaitPreserves ==
  ASSUME IInv, NEW q \in TCBs, JoinWait(q)
  PROVE  Shape'
<1>1. TypeOK'
  BY Zenon DEF IInv, Shape, TypeOK, JoinWait
<1>2. Calls' /\ Joinstate' /\ Creates'
  BY DEF IInv, Shape, TypeOK, Calls, JoinWait, Joinstate, Creates
<1>3. Lives'
  BY Zenon DEF IInv, Shape, TypeOK, Lives, JoinWait
<1>6. Joins' /\ Kills'
  BY DEF IInv, Shape, TypeOK, Joins, JoinWait, Kills
<1> QED
  BY <1>1, <1>2, <1>3, <1>6, Zenon DEF Shape

\* futex_wait returns early.
LEMMA JoinInterruptedPreserves ==
  ASSUME IInv, NEW q \in TCBs, JoinInterrupted(q)
  PROVE  Shape'
<1>1. TypeOK'
  BY Zenon DEF IInv, Shape, TypeOK, JoinInterrupted
<1>2. Calls' /\ Joinstate' /\ Creates' /\ Kills'
  BY DEF IInv, Shape, TypeOK, Calls, JoinInterrupted, Joinstate, Creates, Kills
<1>3. Lives'
  BY Zenon DEF IInv, Shape, TypeOK, Lives, JoinInterrupted
<1>6. Joins'
  BY Zenon DEF IInv, Shape, TypeOK, Joins, JoinInterrupted
<1> QED
  BY <1>1, <1>2, <1>3, <1>6, Zenon DEF Shape

\* pthread_timedjoin_np gives the thread back.
LEMMA JoinTimedOutPreserves ==
  ASSUME IInv, NEW q \in TCBs, JoinTimedOut(q)
  PROVE  Shape'
<1>1. TypeOK'
  BY Zenon DEF IInv, Shape, TypeOK, Calls, JoinTimedOut, GiveUp, Publish, Return
<1>2. Calls' /\ Lives' /\ Joinstate'
  BY ThreadLifeAssumption DEF IInv, Shape, TypeOK, Calls, JoinTimedOut, GiveUp, Publish,
     Return, Lives, Joinstate
<1>5. Creates' /\ Joins'
  BY DEF IInv, Shape, TypeOK, Creates, JoinTimedOut, GiveUp, Publish, Return, Joins
<1>7. Kills'
  BY DEF IInv, Shape, TypeOK, Kills, JoinTimedOut, GiveUp, Publish, Return
<1> QED
  BY <1>1, <1>2, <1>5, <1>7, Zenon DEF Shape

\* A joiner frees the descriptor; so does pthread_create after a failed set-
\* up.
LEMMA JoinFreePreserves ==
  ASSUME IInv, NEW q \in TCBs, JoinFree(q)
  PROVE  Shape'
<1>1. TypeOK'
  <2>1. CASE op[q] = "create"
    BY <2>1, Deallocated, Zenon DEF IInv, Shape, TypeOK, JoinFree, FreeTCB, Return
  <2>2. CASE op[q] # "create" /\ terminated[target[q]]
    BY <2>2, Deallocated, Zenon DEF IInv, Shape, TypeOK, JoinFree, FreeTCB, Return
  <2>3. CASE op[q] # "create" /\ ~terminated[target[q]]
    BY <2>3, Deallocated, ZenonT(40) DEF IInv, Shape, TypeOK, JoinFree, FreeTCB, Return
  <2> QED
    BY <2>1, <2>2, <2>3, Zenon DEF IInv, Shape, TypeOK, JoinFree
<1>2. Calls' /\ Lives' /\ Joinstate'
  BY Deallocated, ThreadLifeAssumption DEF IInv, Shape, TypeOK, Calls, JoinFree,
     FreeTCB, Return, Lives, Joinstate, Creates, Joins, Kills
<1>5. Creates' /\ Joins' /\ Kills'
  BY Deallocated DEF IInv, Shape, TypeOK, Creates, JoinFree, FreeTCB, Return, Joins,
     Kills
<1> QED
  BY <1>1, <1>2, <1>5, Zenon DEF Shape

\* pthread_detach begins.
LEMMA DetachPreserves ==
  ASSUME IInv, NEW q \in TCBs, Detach(q)
  PROVE  Shape'
<1>1. TypeOK' /\ Calls' /\ Lives' /\ Joinstate'
  BY ThreadLifeAssumption DEF IInv, Shape, TypeOK, Detach, TakeHandle, Busy, Call,
     Calls, Lives, Joinstate
<1>5. Creates' /\ Joins' /\ Kills'
  BY ThreadLifeAssumption DEF IInv, Shape, TypeOK, Creates, Detach, TakeHandle, Busy,
     Call, Calls, Lives, Joinstate, Joins, Kills
<1> QED
  BY <1>1, <1>5, Zenon DEF Shape

\* pthread_detach reads joinstate.
LEMMA DetachLoadPreserves ==
  ASSUME IInv, NEW q \in TCBs, DetachLoad(q)
  PROVE  Shape'
<1>1. TypeOK' /\ Calls' /\ Joinstate'
  BY DEF IInv, Shape, TypeOK, Calls, DetachLoad, Joinstate
<1>3. Lives'
  BY Zenon DEF IInv, Shape, TypeOK, Lives, DetachLoad
<1>5. Creates' /\ Kills'
  BY DEF IInv, Shape, TypeOK, Creates, DetachLoad, Kills
<1>6. Joins'
  BY Zenon DEF IInv, Shape, TypeOK, Joins, DetachLoad
<1> QED
  BY <1>1, <1>3, <1>5, <1>6, Zenon DEF Shape

\* pthread_detach compares and exchanges joinstate.
LEMMA DetachTryPreserves ==
  ASSUME IInv, NEW q \in TCBs, DetachTry(q)
  PROVE  Shape'
<1>1. TypeOK'
  <2>0. target[q] \in TCBs
    BY Zenon DEF IInv, Shape, TypeOK, Calls, DetachTry
  <2>1. CASE seen[q] = DETACHED
    BY <2>1, <2>0, Zenon DEF IInv, Shape, TypeOK, DetachTry, GiveUp, Publish, Return,
       DetachCAS
  <2>2. CASE seen[q] \in {EXITING, EXITED}
    BY <2>2, <2>0, Zenon DEF IInv, Shape, TypeOK, DetachTry, GiveUp, Publish, Return,
       DetachCAS
  <2>3. CASE seen[q] = JOINABLE /\ DetachCAS(q)
    BY <2>3, <2>0 DEF IInv, Shape, TypeOK, DetachTry, GiveUp, Publish, Return, DetachCAS
  <2>4. CASE seen[q] = JOINABLE /\ ~DetachCAS(q)
    BY <2>4, <2>0 DEF IInv, Shape, TypeOK, DetachTry, GiveUp, Publish, Return, DetachCAS
  <2> QED
    BY <2>1, <2>2, <2>3, <2>4, Zenon DEF IInv, Shape, TypeOK, DetachTry
<1>2. Calls' /\ Creates'
  BY DEF IInv, Shape, TypeOK, Calls, DetachTry, GiveUp, Publish, Return, DetachCAS,
     Creates
<1>3. Lives'
  BY ThreadLifeAssumption DEF IInv, Shape, TypeOK, Calls, Lives, Joinstate, DetachTry,
      GiveUp, Publish, Return, DetachCAS
<1>4. Joinstate'
  BY ThreadLifeAssumption DEF IInv, Shape, TypeOK, Calls, Lives, Joinstate, Creates,
      Joins, Kills, DetachTry, GiveUp, Publish, Return, DetachCAS
<1>6. Joins'
  BY DEF IInv, Shape, TypeOK, Calls, Joins, DetachTry, GiveUp, Publish, Return,
     DetachCAS
<1>7. Kills'
  BY DEF IInv, Shape, TypeOK, Kills, DetachTry, GiveUp, Publish, Return, DetachCAS
<1> QED
  BY <1>1, <1>2, <1>3, <1>4, <1>6, <1>7, Zenon DEF Shape

\* pthread_kill or pthread_cancel begins.
LEMMA KillPreserves ==
  ASSUME IInv, NEW q \in TCBs, Kill(q)
  PROVE  Shape'
<1>1. TypeOK' /\ Calls' /\ Lives'
  BY ThreadLifeAssumption DEF IInv, Shape, TypeOK, Kill, Call, Calls, Lives
<1>4. Joinstate' /\ Creates' /\ Joins'
  BY DEF IInv, Shape, TypeOK, Calls, Joinstate, Kill, Call, Creates, Joins
<1>7. Kills'
  BY DEF IInv, Shape, TypeOK, Kills, Kill, Call
<1> QED
  BY <1>1, <1>4, <1>7, Zenon DEF Shape

\* pthread_kill takes the exit lock.
LEMMA KillLockPreserves ==
  ASSUME IInv, NEW q \in TCBs, KillLock(q)
  PROVE  Shape'
<1>1. TypeOK'
  BY Zenon DEF IInv, Shape, TypeOK, Calls, KillLock
<1>2. Calls' /\ Joinstate' /\ Creates'
  BY DEF IInv, Shape, TypeOK, Calls, KillLock, Joinstate, Creates
<1>3. Lives'
  BY Zenon DEF IInv, Shape, TypeOK, Lives, KillLock
<1>6. Joins'
  BY Zenon DEF IInv, Shape, TypeOK, Joins, KillLock
<1>7. Kills'
  BY DEF IInv, Shape, TypeOK, Calls, Kills, KillLock
<1> QED
  BY <1>1, <1>2, <1>3, <1>6, <1>7, Zenon DEF Shape

\* pthread_kill looks at pd->exiting.
LEMMA KillCheckPreserves ==
  ASSUME IInv, NEW q \in TCBs, KillCheck(q)
  PROVE  Shape'
<1>1. TypeOK'
  BY Zenon DEF IInv, Shape, TypeOK, KillCheck
<1>2. Calls' /\ Joinstate' /\ Creates' /\ Kills'
  BY DEF IInv, Shape, TypeOK, Calls, KillCheck, Joinstate, Creates, Kills
<1>3. Lives'
  BY Zenon DEF IInv, Shape, TypeOK, Lives, KillCheck
<1>6. Joins'
  BY Zenon DEF IInv, Shape, TypeOK, Joins, KillCheck
<1> QED
  BY <1>1, <1>2, <1>3, <1>6, Zenon DEF Shape

\* pthread_kill calls tgkill.
LEMMA TgkillPreserves ==
  ASSUME IInv, NEW q \in TCBs, Tgkill(q)
  PROVE  Shape'
<1>1. TypeOK'
  BY Zenon DEF IInv, Shape, TypeOK, Tgkill
<1>2. Calls' /\ Joinstate' /\ Creates' /\ Kills'
  BY DEF IInv, Shape, TypeOK, Calls, Tgkill, Joinstate, Creates, Kills
<1>3. Lives'
  BY Zenon DEF IInv, Shape, TypeOK, Lives, Tgkill
<1>6. Joins'
  BY Zenon DEF IInv, Shape, TypeOK, Joins, Tgkill
<1> QED
  BY <1>1, <1>2, <1>3, <1>6, Zenon DEF Shape

\* pthread_kill releases the exit lock.
LEMMA KillUnlockPreserves ==
  ASSUME IInv, NEW q \in TCBs, KillUnlock(q)
  PROVE  Shape'
<1>1. TypeOK'
  BY Zenon DEF IInv, Shape, TypeOK, Calls, KillUnlock, Return
<1>2. Calls' /\ Joinstate' /\ Creates'
  BY DEF IInv, Shape, TypeOK, Calls, KillUnlock, Return, Joinstate, Creates
<1>3. Lives'
  BY Zenon DEF IInv, Shape, TypeOK, Lives, KillUnlock, Return
<1>6. Joins' /\ Kills'
  BY ThreadLifeAssumption DEF IInv, Shape, TypeOK, Joins, KillUnlock, Return, Calls,
     Lives, Kills
<1> QED
  BY <1>1, <1>2, <1>3, <1>6, Zenon DEF Shape

-----------------------------------------------------------------------------
\* The wake-up that follows an exit wakes a thread that waits for it, if there is one.
WakesSome(p) == \A W \in futex_wake(BlockedOn(p), 1) : BlockedOn(p) # {} => W # {}

\* The kernel's wake-up on the tid word.  One thread at most waits there, so
\* that waking one thread wakes everyone who waits.
LEMMA KernelWakePreserves ==
  ASSUME IInv, NEW q \in TCBs, KernelWake(q), WakesSome(q)
  PROVE  Shape'
<1>1. TypeOK' /\ Calls' /\ Lives'
  BY DEF IInv, Shape, TypeOK, KernelWake, BlockedOn, futex_wake, Calls, Lives
<1>4. Joinstate' /\ Creates' /\ Kills'
  BY DEF IInv, Shape, TypeOK, Joinstate, KernelWake, BlockedOn, futex_wake, Calls,
     Creates, Kills
<1>6. Joins'
  <2>0. \A t, u \in BlockedOn(q) : t = u
    <3>1. Calls
      BY Zenon DEF IInv, Shape
    <3>2. ASSUME NEW t \in BlockedOn(q)
          PROVE  target[t] = q /\ op[t] # "none" /\ op[t] \notin KillOps
      <4>1. t \in TCBs /\ target[t] = q /\ pc[t] = "j_blocked"
        BY <3>2, Zenon DEF BlockedOn
      <4> QED
        BY <3>1, <4>1, Zenon DEF Calls
    <3> HIDE DEF KillOps
    <3>3. \A t, u \in TCBs :
            target[t] = target[u] /\ op[t] # "none" /\ op[t] \notin KillOps => t = u
      BY <3>1, Zenon DEF Calls
    <3> QED
      BY <3>2, <3>3, Zenon DEF BlockedOn
  <2>1. PICK W \in futex_wake(BlockedOn(q), 1) :
               pc' = [t \in TCBs |-> IF t \in W THEN "j_load" ELSE pc[t]]
    BY Zenon DEF KernelWake
  <2>2. W \subseteq BlockedOn(q)
    BY Zenon DEF futex_wake
  <2>3. ASSUME NEW t \in BlockedOn(q)
        PROVE  t \in W
    <3>1. PICK u \in BlockedOn(q) : u \in W
      BY <2>1, <2>2, <2>3, Zenon DEF WakesSome
    <3>2. t = u
      BY <2>0, <2>3, <3>1
    <3> QED
      BY <3>1, <3>2
  <2> QED
    BY <2>1, <2>2, <2>3, ThreadLifeAssumption DEF IInv, Shape, TypeOK, Calls, Joins,
       KernelWake, BlockedOn
<1> QED
  BY <1>1, <1>4, <1>6, Zenon DEF Shape

-----------------------------------------------------------------------------
\* What __nptl_nthreads counts.

LEMMA AllocateCounted ==
  ASSUME IInv, NEW q \in TCBs, Allocate(q)
  PROVE  \E p : p \notin Counted /\ Counted' = Counted \cup {p}
<1>1. PICK p \in TCBs \ used : /\ p \in cache => Reusable(p)
                              /\ Call(q, "create", p, "clone")
  BY Zenon DEF Allocate
<1>2. p \notin Counted
  BY <1>1 DEF IInv, Shape, TypeOK, Calls, Lives, Joinstate, Counted, Reusable
<1>3. Counted' = Counted \cup {p}
  BY <1>1 DEF IInv, Shape, TypeOK, Calls, Counted, Call, Allocate
<1> QED
  BY <1>2, <1>3, Zenon

\* a failed clone one less,
LEMMA CloneFailsCounted ==
  ASSUME IInv, NEW q \in TCBs, CloneFails(q)
  PROVE  target[q] \in Counted /\ Counted' = Counted \ {target[q]} /\ q \in Counted'
  BY DEF IInv, Shape, TypeOK, Calls, Creates, Counted, CloneFails, Return

\* a thread that leaves one less,
LEMMA DecrementCounted ==
  ASSUME IInv, NEW q \in TCBs, Decrement(q)
  PROVE  q \in Counted /\ Counted' = Counted \ {q}
  BY DEF IInv, Shape, TypeOK, Calls, Creates, Counted, Decrement

\* and a creator whose thread could not be configured one less.
LEMMA JoinFreeCounted ==
  ASSUME IInv, NEW q \in TCBs, JoinFree(q), op[q] = "create"
  PROVE  target[q] \in Counted /\ Counted' = Counted \ {target[q]} /\ q \in Counted'
  BY DEF IInv, Shape, TypeOK, Calls, Joinstate, Joins, Counted, JoinFree, Return

\* The steps that do not change what is counted.
OtherStep(q) ==
  Clone(q) \/ Configure(q) \/ Gate(q) \/ Exit(q) \/ SetExiting(q) \/ ExitFree(q) \/
  KernelClear(q) \/ KernelWake(q) \/ Join(q) \/ TryJoin(q) \/ JoinLoad(q) \/ JoinWait(q) \/
  JoinInterrupted(q) \/ JoinTimedOut(q) \/ Detach(q) \/ DetachLoad(q) \/ DetachTry(q) \/
  Kill(q) \/ KillLock(q) \/ KillCheck(q) \/ Tgkill(q) \/ KillUnlock(q) \/
  (JoinFree(q) /\ op[q] # "create")

\* The threads that still are in __nptl_nthreads by what they do.
Uncounted == {"none", "x_lock", "x_free", "x_kernel"}

\* A step of q alone, which neither ends its part in a creation nor takes it in or
\* out of the count.
Even(q) ==
  /\ \A r \in TCBs \ {q} : pc'[r] = pc[r] /\ op'[r] = op[r] /\ target'[r] = target[r]
  /\ pc'[q] \in Uncounted <=> pc[q] \in Uncounted
  /\ op'[q] = "create" <=> op[q] = "create"
  /\ op[q] = "create" => target'[q] = target[q]

\* A step that takes no thread into or out of the uncounted places, and begins
\* or ends no creation, counts the same descriptors.
LEMMA EvenCounts ==
  ASSUME NEW q \in TCBs, Even(q)
  PROVE  Counted' = Counted
<1>1. \A r \in TCBs : pc'[r] \in Uncounted <=> pc[r] \in Uncounted
  BY Zenon DEF Even
<1>2. \A r, p \in TCBs : op'[r] = "create" /\ target'[r] = p <=> op[r] = "create" /\ target[r] = p
  BY Zenon DEF Even
<1> QED
  BY <1>1, <1>2, Zenon DEF Counted, Uncounted

\* All other steps leave the counter and what it counts alone.
LEMMA OtherCounted ==
  ASSUME IInv, NEW q \in TCBs, OtherStep(q)
  PROVE  Counted' = Counted /\ nthreads' = nthreads /\ finished' = finished
<1>2. /\ pc \in [TCBs -> Creating \cup Joining \cup Detaching \cup Killing \cup Plain]
      /\ op \in [TCBs -> {"none", "create"} \cup JoinOps \cup KillOps]
      /\ target \in [TCBs -> TCBs \cup {NoTCB}]
      /\ op[q] = "none" <=> pc[q] \in Plain
      /\ op[q] = "create" => pc[q] \in Creating \cup Joining
  BY Zenon DEF IInv, Shape, TypeOK, Calls
<1> USE DEF Even, Uncounted
<1>3. CASE Clone(q)
  <2>1. PICK p \in TCBs : p = target[q] /\ op[q] = "create" /\ p # q
    BY <1>3, Zenon DEF IInv, Shape, Calls, TypeOK, Clone
  <2>2. /\ \A r \in TCBs \ {p, q} : pc'[r] = pc[r]
        /\ \A r \in TCBs \ {q} : op'[r] = op[r] /\ target'[r] = target[r]
        /\ pc[q] \notin Uncounted /\ pc'[q] \notin Uncounted /\ pc'[p] \notin Uncounted
        /\ op'[q] = "create" => target'[q] = p
        /\ nthreads' = nthreads /\ finished' = finished
    BY <1>2, <1>3, <2>1 DEF Clone
  <2> QED
    BY <2>1, <2>2 DEF Counted
<1>4. CASE Configure(q)
  <2>1. PICK p \in TCBs : p = target[q] /\ op[q] = "create" /\ pc[p] = "gate"
    BY <1>4 DEF IInv, Shape, TypeOK, Calls, Creates, Configure
  <2>2. /\ \A r \in TCBs \ {q} : pc'[r] = pc[r] /\ op'[r] = op[r] /\ target'[r] = target[r]
        /\ pc[q] \notin Uncounted /\ pc'[q] \notin Uncounted
        /\ pc'[p] \notin Uncounted
    BY <1>2, <2>1, <1>4, Zenon DEF Configure, Return
  <2>3. op'[q] = "create" => target'[q] = p
    BY <1>2, <2>1, <1>4, Zenon DEF Configure, Return
  <2>4. nthreads' = nthreads /\ finished' = finished
    BY <1>4, Zenon DEF Configure
  <2>5. p \in Counted /\ p \in Counted'
    BY <2>1, <2>2, Zenon DEF Counted
  <2>6. ASSUME NEW u \in TCBs \ {p}
        PROVE  u \in Counted' <=> u \in Counted
    <3>1. op[q] = "create" => target[q] # u
      BY <2>1, <2>6, Zenon
    <3>2. op'[q] = "create" => target'[q] # u
      BY <2>3, <2>6, Zenon
    <3> QED
      BY <2>2, <3>1, <3>2, Zenon DEF Counted
  <2>7. Counted' = Counted
    BY <2>5, <2>6, Zenon DEF Counted
  <2> QED
    BY <2>4, <2>7, Zenon
<1>5. CASE Gate(q)
  <2>1. CASE ~setup_failed[q]
    BY <1>2, <1>5, <2>1, EvenCounts, Zenon DEF Gate
  <2>2. CASE setup_failed[q]
    <3>1. PICK r \in TCBs : op[r] = "create" /\ target[r] = q
      BY <1>5, <2>2, ThreadLifeAssumption, Zenon DEF Gate, IInv, Shape, Lives, Joinstate
    <3>2. /\ op' = op /\ target' = target /\ nthreads' = nthreads /\ finished' = finished
          /\ \A u \in TCBs \ {q} : pc'[u] = pc[u]
      BY <1>2, <1>5, Zenon DEF Gate
    <3>3. q \in Counted /\ q \in Counted'
      BY <3>1, <3>2, Zenon DEF Counted
    <3> QED
      BY <3>2, <3>3, Zenon DEF Counted
  <2> QED
    BY <2>1, <2>2, Zenon
<1>6. CASE KernelWake(q)
  <2>1. /\ op' = op /\ target' = target /\ nthreads' = nthreads /\ finished' = finished
        /\ \A u \in TCBs : pc'[u] = pc[u] \/ (pc[u] = "j_blocked" /\ pc'[u] = "j_load")
    BY <1>2, <1>6, Zenon DEF KernelWake, futex_wake, BlockedOn
  <2> QED
    BY <2>1, Zenon DEF Counted
<1>7. CASE Exit(q)
  BY <1>2, <1>7, EvenCounts, Zenon DEF Exit
<1>8. CASE SetExiting(q)
  BY <1>2, <1>8, EvenCounts, Zenon DEF SetExiting
<1>9. CASE ExitFree(q)
  BY <1>2, <1>9, EvenCounts, Zenon DEF ExitFree
<1>10. CASE KernelClear(q)
  BY <1>2, <1>10, EvenCounts, Zenon DEF KernelClear
<1>11. CASE Join(q)
  BY <1>2, <1>11, EvenCounts DEF Join, TakeHandle, Call
<1>12. CASE TryJoin(q)
  BY <1>2, <1>12, EvenCounts DEF TryJoin, TakeHandle, Call
<1>13. CASE JoinLoad(q)
  BY <1>2, <1>13, EvenCounts DEF JoinLoad, GiveUp, Return
<1>14. CASE JoinWait(q)
  BY <1>2, <1>14, EvenCounts, Zenon DEF JoinWait
<1>15. CASE JoinInterrupted(q)
  BY <1>2, <1>15, EvenCounts, Zenon DEF JoinInterrupted
<1>16. CASE JoinTimedOut(q)
  BY <1>2, <1>16, EvenCounts, Zenon DEF JoinTimedOut, GiveUp, Return
<1>17. CASE Detach(q)
  BY <1>2, <1>17, EvenCounts DEF Detach, TakeHandle, Call
<1>18. CASE DetachLoad(q)
  BY <1>2, <1>18, EvenCounts, Zenon DEF DetachLoad
<1>19. CASE DetachTry(q)
  BY <1>2, <1>19, EvenCounts, Zenon DEF DetachTry, GiveUp, Return
<1>20. CASE Kill(q)
  BY <1>2, <1>20, EvenCounts DEF Kill, Call
<1>21. CASE KillLock(q)
  BY <1>2, <1>21, EvenCounts, Zenon DEF KillLock
<1>22. CASE KillCheck(q)
  BY <1>2, <1>22, EvenCounts, Zenon DEF KillCheck
<1>23. CASE Tgkill(q)
  BY <1>2, <1>23, EvenCounts, Zenon DEF Tgkill
<1>24. CASE KillUnlock(q)
  BY <1>2, <1>24, EvenCounts, Zenon DEF KillUnlock, Return
<1>25. CASE JoinFree(q) /\ op[q] # "create"
  BY <1>2, <1>25, EvenCounts, Zenon DEF JoinFree, Return
<1> QED
  BY <1>3, <1>4, <1>5, <1>6, <1>7, <1>8, <1>9, <1>10, <1>11, <1>12, <1>13, <1>14, <1>15,
     Zenon,
     <1>16, <1>17, <1>18, <1>19, <1>20, <1>21, <1>22, <1>23, <1>24, <1>25 DEF OtherStep

-----------------------------------------------------------------------------
\* At the start the main thread is the only one.
LEMMA InitShape == Init => Shape /\ Counted = {main}
<1> SUFFICES ASSUME Init
             PROVE  Shape /\ Counted = {main}
  OBVIOUS
<1>1. Shape
  BY ThreadLifeAssumption, Zenon DEF Init, Shape, TypeOK, Calls, Lives, Joinstate,
     Creates, Joins, Kills
<1>2. Counted = {main}
  BY ThreadLifeAssumption, Zenon DEF Init, Counted
<1> QED
  BY <1>1, <1>2, Zenon

\* A step that changes nothing keeps the invariant.
LEMMA StutterIInv ==
  ASSUME IInv, UNCHANGED vars
  PROVE  IInv'
<1>1. TypeOK'
  BY Zenon DEF IInv, Shape, TypeOK, vars
<1>2. Counts'
  BY Zenon DEF IInv, Counts, Counted, vars
<1>3. Calls' /\ Lives'
  BY Zenon DEF IInv, Shape, Calls, Lives, vars
<1>4. Joinstate'
  <2>1. Joinstate
    BY Zenon DEF IInv, Shape
  <2>2. UNCHANGED <<joinstate, pc, used, target, handle, gate, setup_failed, op, seen>>
    BY Zenon DEF vars
  <2> HIDE DEF Leaving, Detaching
  <2> QED
    BY <2>1, <2>2 DEF Joinstate
<1>5. Creates'
  BY Zenon DEF IInv, Shape, Creates, vars
<1>6. Joins'
  BY Zenon DEF IInv, Shape, Joins, vars
<1>7. Kills'
  BY Zenon DEF IInv, Shape, Kills, vars
<1> QED
  BY <1>1, <1>2, <1>3, <1>4, <1>5, <1>6, <1>7, Zenon DEF IInv, Shape

\* Every step keeps the shape of the descriptors.
LEMMA NextShape ==
  ASSUME IInv, NEW q \in TCBs, WakesSome(q),
         Allocate(q) \/ CloneFails(q) \/ Decrement(q) \/ JoinFree(q) \/ OtherStep(q)
  PROVE  Shape'
  BY AllocatePreserves, ClonePreserves, CloneFailsPreserves, ConfigurePreserves,
     GatePreserves, ExitPreserves, DecrementPreserves, SetExitingPreserves,
     ExitFreePreserves, KernelClearPreserves, KernelWakePreserves, JoinPreserves,
     TryJoinPreserves, JoinLoadPreserves, JoinWaitPreserves, JoinInterruptedPreserves,
     JoinTimedOutPreserves, JoinFreePreserves, DetachPreserves, DetachLoadPreserves,
     DetachTryPreserves, KillPreserves, KillLockPreserves, KillCheckPreserves,
     TgkillPreserves, KillUnlockPreserves, Zenon DEF OtherStep

\* What the invariant is for.
LEMMA Consequences == IInv => StackOutlivesThread /\ KillHitsTarget /\ FreedOnceGone /\ EndsWithLast
<1> SUFFICES ASSUME IInv
             PROVE  StackOutlivesThread /\ KillHitsTarget /\ FreedOnceGone /\ EndsWithLast
  OBVIOUS
<1>1. StackOutlivesThread
  BY DEF IInv, Shape, TypeOK, Calls, Lives, StackOutlivesThread
<1>2. KillHitsTarget
  BY DEF IInv, Shape, TypeOK, Calls, Lives, Kills, KillHitsTarget
<1>3. FreedOnceGone
  BY DEF IInv, Shape, TypeOK, Calls, Lives, Joinstate, Joins, FreedOnceGone, Reusable,
     BlockedOn
<1>4. EndsWithLast
  <2>1. Running \subseteq Counted
    BY DEF IInv, Shape, TypeOK, Lives, Counted, Running
  <2>2. ASSUME NEW p \in Counted
        PROVE  Running # {}
    BY <2>2 DEF IInv, Shape, TypeOK, Calls, Lives, Counted, Running
  <2> QED
    BY <2>1, <2>2, Zenon DEF IInv, Counts, EndsWithLast
<1> QED
  BY <1>1, <1>2, <1>3, <1>4, Zenon

-----------------------------------------------------------------------------
\* Finite sets.  The facts about them come in by an instance at this place, since
\* the steps above need none of them.

F == INSTANCE FiniteSetTheorems

\* The operators of FiniteSets are the same in the instance.
LEMMA SameSets == \A S : Cardinality(S) = F!Cardinality(S) /\ (IsFiniteSet(S) <=> F!IsFiniteSet(S))
<1>1. \A S : Cardinality(S) = F!Cardinality(S)
  BY Zenon DEF Cardinality, F!Cardinality
<1>2. \A S : IsFiniteSet(S) <=> F!IsFiniteSet(S)
  BY Zenon DEF IsFiniteSet, F!IsFiniteSet
<1> QED
  BY <1>1, <1>2, Zenon

\* The facts of FiniteSetTheorems about this module's operators: the subsets of a finite set,
LEMMA Subsets ==
  ASSUME NEW S, IsFiniteSet(S), NEW T \in SUBSET S
  PROVE  IsFiniteSet(T) /\ Cardinality(T) \in Nat
  BY SameSets, F!FS_Subset, F!FS_CardinalityType, Zenon

\* one more element,
LEMMA AddOne ==
  ASSUME NEW S, IsFiniteSet(S), NEW x, x \notin S
  PROVE  Cardinality(S \cup {x}) = Cardinality(S) + 1
  BY SameSets, F!FS_AddElement, Zenon

\* one less,
LEMMA RemoveOne ==
  ASSUME NEW S, IsFiniteSet(S), NEW x \in S
  PROVE  IsFiniteSet(S \ {x}) /\ Cardinality(S \ {x}) = Cardinality(S) - 1
  BY SameSets, F!FS_RemoveElement, Zenon

\* the empty set and a singleton,
LEMMA NoneOrOne ==
  /\ \A S : IsFiniteSet(S) => (Cardinality(S) = 0 <=> S = {})
  /\ Cardinality({}) = 0
  /\ \A x : Cardinality({x}) = 1
  BY SameSets, F!FS_EmptySet, F!FS_Singleton, Zenon

\* and a wake-up of one, which wakes a thread if one waits.
LEMMA WakesOne ==
  ASSUME NEW p \in TCBs
  PROVE  WakesSome(p)
<1> SUFFICES ASSUME NEW W \in futex_wake(BlockedOn(p), 1), BlockedOn(p) # {}
             PROVE  W # {}
  BY Zenon DEF WakesSome
<1>1. Cardinality(W) = 1 \/ W = BlockedOn(p)
  BY Zenon DEF futex_wake
<1>2. W = {} => Cardinality(W) # 1
  BY NoneOrOne
<1> QED
  BY <1>1, <1>2, Zenon

\* The threads that are counted are finitely many.
LEMMA CountedFinite == IsFiniteSet(Counted) /\ Cardinality(Counted) \in Nat
  BY ThreadLifeAssumption, Subsets, Zenon DEF Counted

\* A step in which one more descriptor is counted.
LEMMA CountUp ==
  ASSUME Counts, NEW p, p \notin Counted, Counted' = Counted \cup {p}, nthreads' = nthreads + 1,
         finished' = finished, ~finished
  PROVE  Counts'
<1>1. Cardinality(Counted') = Cardinality(Counted) + 1
  BY CountedFinite, AddOne, Zenon
<1> QED
  BY <1>1, Zenon DEF Counts

\* A step in which one descriptor is no longer counted.
LEMMA CountDown ==
  ASSUME Counts, NEW p \in Counted, Counted' = Counted \ {p}, nthreads' = nthreads - 1,
         \/ finished' <=> nthreads = 1
         \/ finished' = finished /\ Counted' # {}
  PROVE  Counts'
<1>1. Cardinality(Counted') = Cardinality(Counted) - 1 /\ IsFiniteSet(Counted')
  BY CountedFinite, RemoveOne, Zenon
<1>2. Cardinality(Counted') = 0 <=> Counted' = {}
  BY <1>1, NoneOrOne, Zenon
<1>3. nthreads = Cardinality(Counted) /\ ~finished
  BY Zenon DEF Counts
<1>4. finished' <=> Counted' = {}
  BY <1>1, <1>2, <1>3, CountedFinite
<1> QED
  BY <1>1, <1>3, <1>4 DEF Counts

\* Every step keeps __nptl_nthreads exact.
LEMMA NextCounts ==
  ASSUME IInv, NEW q \in TCBs,
         Allocate(q) \/ CloneFails(q) \/ Decrement(q) \/ JoinFree(q) \/ OtherStep(q)
  PROVE  Counts'
<1>1. Counts
  BY Zenon DEF IInv
<1>2. CASE Allocate(q)
  BY <1>1, <1>2, AllocateCounted, CountUp, Zenon DEF Allocate
<1>3. CASE CloneFails(q)
  BY <1>1, <1>3, CloneFailsCounted, CountDown, Zenon DEF CloneFails
<1>4. CASE Decrement(q)
  BY <1>1, <1>4, DecrementCounted, CountDown, Zenon DEF Decrement, LastThread
<1>5. CASE JoinFree(q) /\ op[q] = "create"
  BY <1>1, <1>5, JoinFreeCounted, CountDown, Zenon DEF JoinFree
<1>6. CASE OtherStep(q)
  BY <1>1, <1>6, OtherCounted, Zenon DEF Counts
<1>7. JoinFree(q) /\ op[q] # "create" => OtherStep(q)
  BY Zenon DEF OtherStep
<1> QED
  BY <1>2, <1>3, <1>4, <1>5, <1>6, <1>7, Zenon

-----------------------------------------------------------------------------
\* The invariant holds at the start,
LEMMA InitIInv == Init => IInv
<1>1. Cardinality({main}) = 1
  BY NoneOrOne, Zenon
<1> QED
  BY <1>1, InitShape, Zenon DEF IInv, Init, Counts

\* and every step keeps it.
LEMMA NextIInv == IInv /\ [Next]_vars => IInv'
<1> SUFFICES ASSUME IInv, [Next]_vars
             PROVE  IInv'
  OBVIOUS
<1>1. CASE Next
  <2>1. PICK q \in TCBs :
          Allocate(q) \/ CloneFails(q) \/ Decrement(q) \/ JoinFree(q) \/ OtherStep(q)
    BY <1>1, Zenon DEF Next, OtherStep
  <2> QED
    BY <2>1, WakesOne, NextShape, NextCounts, Zenon DEF IInv
<1>2. CASE UNCHANGED vars
  BY <1>2, StutterIInv, Zenon
<1> QED
  BY <1>1, <1>2, Zenon

\* The inductive invariant holds throughout, for any finite set of descriptors
\* and any limit of the stack cache.
THEOREM Invariant == Spec => []IInv
  BY InitIInv, NextIInv, PTL DEF Spec

\* A stack that a thread runs on is neither reused for another thread nor
\* unmapped: what get_cached_stack and __nptl_free_stacks rely on.
THEOREM StackOutlivesThreadHolds == Spec => []StackOutlivesThread
  BY Invariant, Consequences, PTL

\* A signal of pthread_kill or pthread_cancel is sent only while the thread that
\* the caller means has not left, so that its tid names no other; the program does
\* not join or detach that thread during the call.
THEOREM KillHitsTargetHolds == Spec => []KillHitsTarget
  BY Invariant, Consequences, PTL

\* pthread_join, pthread_detach and thread exit agree on who frees a
\* descriptor: it is freed when the thread is gone or about to be, and once.
THEOREM FreedOnceGoneHolds == Spec => []FreedOnceGone
  BY Invariant, Consequences, PTL

\* The process ends from start_thread exactly when no thread is left.
THEOREM EndsWithLastHolds == Spec => []EndsWithLast
  BY Invariant, Consequences, PTL
=============================================================================
