----------------------------- MODULE MCSignals -----------------------------
(***************************************************************************)
(* Instances for TLC of ThreadExit (ThreadSpecific and Cancellation) and   *)
(* SetXid: what threads do to each other through the internal signals, and *)
(* what they keep to themselves.  The three have no variable in common     *)
(* (SIGCANCEL and SIGSETXID use different bits of cancelhandling), so a    *)
(* behaviour is about one of them: the variables of the two others keep    *)
(* their initial values, or are Unused.                                    *)
(***************************************************************************)
EXTENDS ThreadExit, TLC

CONSTANTS c1, c2, m, p1, p2, NoThread, MaxCalls

VARIABLES part,
          used, lock, setxid_futex, xch, ids, xsig, cmd, skipped, agree, xpc, hpc,
          child, gate, todo, at, signalled, cur

cvars == <<ch, tpc, region, result, nested, sig, cpc, cold, lost>>
xvars == <<used, lock, setxid_futex, xch, ids, xsig, cmd, skipped, agree, xpc, hpc,
           child, gate, todo, at, signalled, cur>>

TwoCancelers == {c1, c2}
Initial == m
Started == {p1, p2}
Everybody == {m, p1, p2}

X == INSTANCE SetXid WITH
       Threads <- Everybody, main <- Initial,
       ch <- xch, sig <- xsig, pc <- xpc

Unused == "unused"

XUnused ==
  /\ used = Unused /\ lock = Unused /\ setxid_futex = Unused /\ xch = Unused
  /\ ids = Unused /\ xsig = Unused /\ cmd = Unused /\ agree = Unused /\ xpc = Unused
  /\ hpc = Unused /\ child = Unused /\ gate = Unused /\ todo = Unused /\ at = Unused
  /\ signalled = Unused /\ cur = Unused /\ skipped = Unused

PartsInit ==
  /\ Init /\ C!Init
  /\ \/ part \in {"data", "cancellation"} /\ XUnused
     \/ part = "setxid" /\ X!Init

PartsNext ==
  \/ part = "data" /\ Next /\ UNCHANGED <<part, cvars, xvars>>
  \/ part = "cancellation" /\ C!Next /\ UNCHANGED <<part, vars, xvars>>
  \/ part = "setxid" /\ X!Next /\ UNCHANGED <<part, vars, cvars>>

PartsSpec == PartsInit /\ [][PartsNext]_<<part, vars, cvars, xvars>>

-----------------------------------------------------------------------------
\* The set*id functions change the ids of the whole process: between two of them
\* all threads that do not exit have the same, and setxid_error finds no thread
\* whose result differs; but for threads that __nptl_setxid ignored because they
\* were exiting, and the threads these created.
IdsOfProcess == part = "setxid" => X!IdsOfProcess

\* A set*id function does not wait for ever for a thread that starts, exits or has
\* answered, nor does such a thread or a second caller wait for ever for it.
NobodyStuck == part = "setxid" => X!NobodyStuck

ThreadSymmetry == Permutations(Started)
=============================================================================
