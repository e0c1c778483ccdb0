---------------------------- MODULE MCThreadLife ----------------------------
(* ThreadLife for TLC. *)
EXTENDS ThreadLife, TLC

CONSTANTS m, p1, p2, p3

FourTCBs == {m, p1, p2, p3}
StackSymmetry == Permutations(TCBs \ {main})
=============================================================================
