---------------------------- MODULE MCDeployment ----------------------------
(* Values for the constants of Deployment in its TLC run.                  *)
EXTENDS Deployment, TLC

CONSTANTS a, b, c, d

ShaSymmetry == Permutations(Shas)
=============================================================================
