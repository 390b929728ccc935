---------------------------- MODULE MCDurableWrite ----------------------------
(* Values for the constants of DurableWrite in its TLC run.                *)
EXTENDS DurableWrite, TLC

CONSTANTS c1, c2, c3, p, q

Lengths == p :> 1 @@ q :> 2

CallSymmetry == Permutations(Puts)
=============================================================================
