------------------------------ MODULE MCLocks ------------------------------
(***************************************************************************)
(* Instances of Locks for TLC.  A behaviour uses one of the three.         *)
(***************************************************************************)
EXTENDS Locks, TLC

CONSTANTS a, b, c, d

VARIABLE part

cvars == <<g1_orig_size, cpc, s, stored>>
ovars == <<once_control, fork_generation, opc, val>>

FourThreads == {a, b, c, d}
ThreeThreads == {a, b, c}

PartsInit == part \in {"lock", "condvar", "once"} /\ Init /\ C!Init /\ O!Init

PartsNext ==
  \/ part = "lock" /\ Next /\ UNCHANGED <<part, cvars, ovars>>
  \/ part = "condvar" /\ C!Next /\ UNCHANGED <<part, vars, ovars>>
  \/ part = "once" /\ O!Next /\ UNCHANGED <<part, vars, cvars>>

\* The fairness of the three specifications: threads are scheduled, an owner
\* eventually unlocks and an initializer returns.  No thread of a part that is not
\* in use has a step.
PartsSpec ==
  /\ PartsInit /\ [][PartsNext]_<<part, vars, cvars, ovars>>
  /\ \A t \in Threads : WF_vars(Step(t))
  /\ \A t \in CondvarThreads : WF_cvars(C!Step(t)) /\ SF_cvars(C!Release(t))
  /\ \A t \in OnceThreads : WF_ovars(O!Step(t))
=============================================================================
