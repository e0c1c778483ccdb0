---------------------------- MODULE ThreadExit -----------------------------
(***************************************************************************)
(* What ends a thread and what is left of it to clean up: ThreadSpecific,  *)
(* with the destructors that a thread calls when it exits, next to         *)
(* Cancellation, which makes it exit.  They have no variable in common.    *)
(***************************************************************************)
EXTENDS ThreadSpecific

CONSTANT Cancelers

VARIABLES ch, tpc, region, result, nested, sig, cpc, cold, lost

C == INSTANCE Cancellation WITH pc <- tpc

\* A cancellation request is never lost between the target's last test of
\* cancelhandling and the system call that blocks it.
RequestNotLost == C!RequestNotLost

\* sigcancel_handler and the cancellation points act on a request only where POSIX
\* allows it.
ActsOnlyWhenAllowed == C!ActsOnlyWhenAllowed
=============================================================================
