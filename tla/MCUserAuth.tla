----------------------------- MODULE MCUserAuth -----------------------------
(* Values for the constants of UserAuth in its TLC run.                    *)
EXTENDS UserAuth, TLC

CONSTANTS r1, r2, a, b

RequestSymmetry == Permutations(Requests) \cup Permutations(Kids)
=============================================================================
