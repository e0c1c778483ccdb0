-------------------------- MODULE AbstractBarrier --------------------------
(***************************************************************************)
(* What pthread_barrier_wait promises: a thread that arrives waits until   *)
(* Count threads have arrived; then these Count threads, and no others,    *)
(* are released together, exactly one of them as the serial thread.        *)
(***************************************************************************)
EXTENDS Naturals, FiniteSets

CONSTANTS Threads, Count

VARIABLE status     \* status[t]: "out", "waiting", "released" or "serial"

Waiting == {t \in Threads : status[t] = "waiting"}

Init == status = [t \in Threads |-> "out"]

\* The round is not complete yet.
Arrive(t) ==
  /\ status[t] = "out"
  /\ Cardinality(Waiting) + 1 < Count
  /\ status' = [status EXCEPT ![t] = "waiting"]

\* The last thread of a round arrives and releases all of it.
Complete(t) ==
  /\ status[t] = "out"
  /\ Cardinality(Waiting) + 1 = Count
  /\ \E serial \in Waiting \cup {t} :
       status' = [u \in Threads |-> IF u = serial THEN "serial"
                                    ELSE IF u \in Waiting \cup {t} THEN "released"
                                    ELSE status[u]]

Leave(t) ==
  /\ status[t] \in {"released", "serial"}
  /\ status' = [status EXCEPT ![t] = "out"]

Next == \E t \in Threads : Arrive(t) \/ Complete(t) \/ Leave(t)

Spec == Init /\ [][Next]_status
=============================================================================
