------------------------- MODULE AbstractRobustLock -------------------------
(***************************************************************************)
(* What a robust mutex promises: one holder at a time; the death of a      *)
(* holder is never silent, the next holder is told EOWNERDEAD; the mutex   *)
(* is good again only after that holder calls pthread_mutex_consistent; if *)
(* it unlocks without doing so nobody locks the mutex any more.            *)
(*                                                                         *)
(* The promise has one gap: a thread killed inside a function that works   *)
(* on a mutex that is not recoverable makes it look abandoned (Resurrect). *)
(***************************************************************************)
CONSTANTS Threads,
          NoTid      \* not a thread

VARIABLES holder,    \* the thread that has the mutex, or NoTid
          health,    \* "consistent", "ownerdied", "inconsistent", "notrecoverable"
          view,      \* view[t]: what t's program knows: "out", "in" or "recover"
          alive,     \* alive[t]: t has not been killed
          cleaned    \* the killed threads that the kernel has cleaned up after

vars == <<holder, health, view, alive, cleaned>>

Init ==
  /\ holder = NoTid
  /\ health = "consistent"
  /\ view = [t \in Threads |-> "out"]
  /\ alive = [t \in Threads |-> TRUE]
  /\ cleaned = {}

Acquire(t) ==
  /\ alive[t]
  /\ holder = NoTid
  /\ \/ health = "consistent" /\ UNCHANGED health
     \/ health = "ownerdied" /\ health' = "inconsistent"
  /\ holder' = t
  /\ UNCHANGED <<view, alive, cleaned>>

\* The locking function returns 0 or EOWNERDEAD.
Told(t) ==
  /\ alive[t]
  /\ holder = t
  /\ view[t] = "out"
  /\ \/ health = "consistent" /\ view' = [view EXCEPT ![t] = "in"]
     \/ health = "inconsistent" /\ view' = [view EXCEPT ![t] = "recover"]
  /\ UNCHANGED <<holder, health, alive, cleaned>>

Consistent(t) ==
  /\ alive[t]
  /\ view[t] = "recover"
  /\ view' = [view EXCEPT ![t] = "in"]
  /\ health' = "consistent"
  /\ UNCHANGED <<holder, alive, cleaned>>

\* pthread_mutex_unlock: the program lets go, then the mutex becomes free.
LetGo(t) ==
  /\ alive[t]
  /\ view[t] # "out"
  /\ view' = [view EXCEPT ![t] = "out"]
  /\ UNCHANGED <<holder, health, alive, cleaned>>

Release(t) ==
  /\ alive[t]
  /\ holder = t
  /\ view[t] = "out"
  /\ holder' = NoTid
  /\ health' = IF health = "inconsistent" THEN "notrecoverable" ELSE health
  /\ UNCHANGED <<view, alive, cleaned>>

\* A thread is killed; later the kernel looks for what it had.
Kill(t) ==
  /\ alive[t]
  /\ alive' = [alive EXCEPT ![t] = FALSE]
  /\ UNCHANGED <<holder, health, view, cleaned>>

CleanUp(t) ==
  /\ ~alive[t]
  /\ t \notin cleaned
  /\ cleaned' = cleaned \cup {t}
  /\ UNCHANGED alive

Die(t) ==
  /\ CleanUp(t)
  /\ holder = t
  /\ holder' = NoTid
  /\ health' = "ownerdied"
  /\ view' = [view EXCEPT ![t] = "out"]

DieWithout(t) ==
  /\ CleanUp(t)
  /\ holder # t
  /\ UNCHANGED <<holder, health, view>>

Resurrect(t) ==
  /\ CleanUp(t)
  /\ health = "notrecoverable"
  /\ health' = "ownerdied"
  /\ UNCHANGED <<holder, view>>

Next ==
  \E t \in Threads :
    \/ Acquire(t) \/ Told(t) \/ Consistent(t) \/ LetGo(t) \/ Release(t)
    \/ Kill(t) \/ Die(t) \/ DieWithout(t) \/ Resurrect(t)

Spec == Init /\ [][Next]_vars
=============================================================================
