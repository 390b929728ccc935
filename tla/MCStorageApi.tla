---------------------------- MODULE MCStorageApi ----------------------------
(* Values for the constants of StorageApi in its TLC runs.                 *)
EXTENDS StorageApi, TLC

CONSTANTS k1, k2, k3, p1, p2, image, audio, html

SizeOneTwo == [p \in Payloads |-> IF p = p1 THEN 1 ELSE 2]

\* k1 is an ordinary key that services may fill with one chunk and users, as audio,
\* with two; k2 is for services only, with a cap of two; k3 is a rendition.
OneKey == k1 :> Payloads
ThreeKeys == k1 :> {p1, p2} @@ k2 :> {p1, p2} @@ k3 :> {p2}
CapOneKey == k1 :> 1
CapTwoKeys == k1 :> 1 @@ k2 :> 2
CapThreeKeys == CapTwoKeys @@ k3 :> 1

MimeCaps == [m \in Mimes |-> CASE m = image -> 1 [] m = audio -> 2 [] OTHER -> None]

\* Uploads fail for either reason.
PutFaults == {"open", "write", "sync", "place"} \X Errnos
\* An upload fails when it is put in place.
PlaceFaults == {"place"} \X {"EIO"}
\* The disk may refuse any operation but the removals by the sweeper.
UnsweptFaults == (Operations \ {"sweep"}) \X {"EIO"}

CallSymmetry == Permutations(Calls) \cup Permutations(Uuids)
=============================================================================
