------------------------- MODULE CountingSemaphore -------------------------
(***************************************************************************)
(* What a POSIX semaphore promises.  Every call takes effect in one atomic *)
(* step between its invocation and its return: a post adds one token       *)
(* unless SEM_VALUE_MAX are there, a successful wait removes one token, a  *)
(* failed one removes none, and sem_trywait may fail only at an instant at *)
(* which there is no token.                                                *)
(***************************************************************************)
EXTENDS Naturals

CONSTANTS Threads, SEM_VALUE_MAX

VARIABLES value,  \* number of tokens
          op      \* op[t]: the call of t that has not taken effect yet

vars == <<value, op>>

Blocking == {"wait"}
Ops == Blocking \cup {"trywait", "post"}

Init ==
  /\ value \in 0..SEM_VALUE_MAX
  /\ op = [t \in Threads |-> "none"]

Invoke(t) ==
  /\ op[t] = "none"
  /\ \E o \in Ops : op' = [op EXCEPT ![t] = o]
  /\ UNCHANGED value

Finish(t) == op' = [op EXCEPT ![t] = "none"]

TakeToken(t) ==
  /\ op[t] \in Blocking \cup {"trywait"}
  /\ value > 0
  /\ value' = value - 1
  /\ Finish(t)

\* Timeout, interruption by a signal handler, or cancellation.
GiveUp(t) ==
  /\ op[t] \in Blocking
  /\ Finish(t)
  /\ UNCHANGED value

TryFails(t) ==
  /\ op[t] = "trywait"
  /\ value = 0
  /\ Finish(t)
  /\ UNCHANGED value

AddToken(t) ==
  /\ op[t] = "post"
  /\ value < SEM_VALUE_MAX
  /\ value' = value + 1
  /\ Finish(t)

PostOverflows(t) ==
  /\ op[t] = "post"
  /\ value = SEM_VALUE_MAX
  /\ Finish(t)
  /\ UNCHANGED value

Next ==
  \E t \in Threads :
    \/ Invoke(t) \/ TakeToken(t) \/ GiveUp(t)
    \/ TryFails(t) \/ AddToken(t) \/ PostOverflows(t)

Spec == Init /\ [][Next]_vars
=============================================================================
