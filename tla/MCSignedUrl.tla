----------------------------- MODULE MCSignedUrl -----------------------------
(* Values for the constants of SignedUrl in its TLC runs.                  *)
EXTENDS SignedUrl
CONSTANTS k1, k2, k3
=============================================================================
