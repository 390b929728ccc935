--------------------------- MODULE MCLocalFsDriver ---------------------------
(* Values for the constants of LocalFsDriver in its TLC runs.              *)
EXTENDS LocalFsDriver, TLC

CONSTANTS k1, p1, p2

\* Sizes differ, so that a payload can be mistaken for part of another.
SizeOneTwo == p1 :> 1 @@ p2 :> 2

\* A content-addressed key has one payload.
OnePayload == k1 :> {p1}
\* A key that clients overwrite with other content.
AnyPayload == k1 :> {p1, p2}

NoFaults == {}
\* The disk may refuse any operation.
AnyFault == Operations \X {"EIO"}

\* Clients that only ever create.
OnlyCreates == \A c \in Calls : req[c] # None => req[c].op = "put" /\ req[c].create
CreatesSpec == Init /\ [][Next /\ OnlyCreates']_vars

CallSymmetry == Permutations(Calls) \cup Permutations(Uuids)
=============================================================================
