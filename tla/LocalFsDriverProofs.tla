------------------------- MODULE LocalFsDriverProofs -------------------------
(***************************************************************************)
(* Proofs about LocalFsDriver: its inductive invariant, and from it the    *)
(* safety properties, for any number of calls, keys, payloads, staging     *)
(* names and crashes and for any set of faults.  One lemma per action, one *)
(* step per conjunct of the invariant.                                     *)
(* Then the refinement of BlobStore, when sidecars are exact, and when     *)
(* create-only puts do not overwrite.                                      *)
(***************************************************************************)
EXTENDS LocalFsDriver, TLAPS

USE SizeAssumption, PayloadsForAssumption, NoneAssumption, BoundsAssumption
USE DEF At, Goto, Answer, Report, Pending, Fails, files, server, locals

-----------------------------------------------------------------------------
(* What the invariant says of a call that is running.                      *)

\* The types of a running call's request, of the files under its key, and of its answer.
LEMMA CallFacts ==
  ASSUME IInv, NEW c \in Calls, pc[c] # "idle"
  PROVE  /\ req[c] \in Requests
         /\ req[c].key \in Keys
         /\ object[req[c].key] \in Files \cup {None}
         /\ object[req[c].key] # None => object[req[c].key].len \in Nat
         /\ sidecar[req[c].key] \in Files \cup {None}
         /\ sidecar[req[c].key] # None => sidecar[req[c].key].len \in Nat
         /\ sent[c] \in Nat
         /\ res[c].status \in Statuses
         /\ res[c].bytes \in Nat
<1>1. req[c] \in Requests /\ req[c].key \in Keys
  BY DEF IInv, TypeOK, RequestsInPlace, Requests
<1> QED BY <1>1 DEF IInv, TypeOK, Replies, Files

\* What a put hashes is a file, and once the body has ended it is a whole payload
\* uploaded under the key.
LEMMA HashFacts ==
  ASSUME IInv, NEW c \in Calls,
         pc[c] \in {"exists", "open", "stream", "place", "cleanup", "meta_stage", "meta_commit"}
  PROVE  /\ req[c].payload \in Payloads
         /\ req[c].payload \in PayloadsFor[req[c].key]
         /\ Hashed(c) \in Files
         /\ Hashed(c) # None
         /\ pc[c] \in {"place", "meta_stage", "meta_commit"} => Hashed(c) \in WholeFor(req[c].key)
<1>1. req[c].key \in Keys /\ sent[c] \in Nat
  BY CallFacts
<1>2. req[c].payload \in PayloadsFor[req[c].key] /\ req[c].payload \in Payloads
  BY <1>1 DEF IInv, RequestsInPlace
<1>3. Hashed(c) \in Files
  BY <1>1, <1>2 DEF Hashed, Files
<1>4. pc[c] \in {"place", "meta_stage", "meta_commit"} => Hashed(c) = Whole(req[c].payload)
  BY DEF IInv, HashInPlace, Hashed, Whole
<1> QED BY <1>2, <1>3, <1>4 DEF WholeFor

-----------------------------------------------------------------------------
(* The invariant is established by Init and preserved by every action.     *)

\* Nothing is on disk and no call runs in the initial state.
LEMMA InitInv == Init => IInv
<1> SUFFICES ASSUME Init PROVE IInv
  OBVIOUS
<1>1. TypeOK
  BY DEF Init, TypeOK, Labels, Replies, Statuses
<1>2. RequestsInPlace /\ AnswersInPlace /\ HashInPlace /\ StagingInPlace
  BY DEF Init, RequestsInPlace, AnswersInPlace, HashInPlace, StagingInPlace
<1>3. NoPartialObject /\ SidecarHonest /\ AnswerHonest
  BY DEF Init, NoPartialObject, SidecarHonest, AnswerHonest
<1> QED BY <1>1, <1>2, <1>3 DEF IInv

\* An answer is well typed if its parts are.
LEMMA AnswerTyped ==
  ASSUME IInv, NEW c \in Calls, NEW s \in Statuses, NEW e \in Files \cup {None}, NEW n \in Nat,
         Answer(c, s, e, n)
  PROVE  res' \in [Calls -> Replies]
BY DEF IInv, TypeOK, Replies

\* An answer with the etag of a complete upload under the key is honest.
LEMMA EtagHonest ==
  ASSUME IInv, NEW c \in Calls, UNCHANGED req,
         NEW s, NEW e, NEW n, Answer(c, s, e, n), e # None => e \in WholeFor(req[c].key)
  PROVE  AnswerHonest'
<1> SUFFICES ASSUME NEW d \in Calls, res'[d].etag # None
             PROVE  res'[d].etag \in WholeFor(req[d].key)
  BY DEF AnswerHonest
<1>1. CASE d = c
  BY <1>1 DEF IInv, TypeOK
<1>2. CASE d # c
  BY <1>2 DEF IInv, TypeOK, AnswerHonest
<1> QED BY <1>1, <1>2

\* An answer without an etag claims nothing.
LEMMA ReportHonest ==
  ASSUME IInv, NEW c \in Calls, UNCHANGED req,
         res' = res \/ \E status : Report(c, status)
  PROVE  AnswerHonest'
<1>1. CASE res' = res
  BY <1>1 DEF IInv, AnswerHonest
<1>2. CASE \E status : Report(c, status)
  BY <1>2, EtagHonest
<1> QED BY <1>1, <1>2

\* A refused create-only put has its answer before it looks at the object.
LEMMA CheckExistsInv ==
  ASSUME IInv, NEW c \in Calls, CheckExists(c)
  PROVE  IInv'
<1>1. TypeOK'
  <2>1. pc' \in [Calls -> Labels]
    BY DEF IInv, TypeOK, CheckExists, Labels
  <2>2. res' \in [Calls -> Replies]
    <3>1. "exists" \in Statuses
      BY DEF Statuses
    <3>2. UNCHANGED res => res' \in [Calls -> Replies]
      BY DEF IInv, TypeOK
    <3> QED BY <3>1, <3>2, AnswerTyped DEF CheckExists
  <2> QED BY <2>1, <2>2 DEF IInv, TypeOK, CheckExists
<1>2. RequestsInPlace'
  BY DEF IInv, TypeOK, CheckExists, RequestsInPlace
<1>3. AnswersInPlace'
  BY DEF IInv, TypeOK, CheckExists, AnswersInPlace, RequestsInPlace
<1>4. HashInPlace'
  BY DEF IInv, TypeOK, CheckExists, HashInPlace
<1>5. StagingInPlace'
  BY DEF IInv, TypeOK, CheckExists, StagingInPlace, Hashed
<1>6. NoPartialObject'
  BY DEF IInv, NoPartialObject, CheckExists
<1>7. SidecarHonest'
  BY DEF IInv, SidecarHonest, CheckExists
<1>8. AnswerHonest'
  BY ReportHonest DEF CheckExists
<1> QED BY <1>1, <1>2, <1>3, <1>4, <1>5, <1>6, <1>7, <1>8 DEF IInv

\* A fresh staging name belongs to nobody, and the file behind it is empty.
LEMMA OpenStagingInv ==
  ASSUME IInv, NEW c \in Calls, OpenStaging(c)
  PROVE  IInv'
<1>1. TypeOK'
  <2>1. pc' \in [Calls -> Labels]
    BY DEF IInv, TypeOK, OpenStaging, Labels
  <2>2. res' \in [Calls -> Replies]
    BY DEF IInv, TypeOK, OpenStaging
  <2>3. staging' \in [Uuids -> Files \cup {None}] /\ tmp' \in [Calls -> Uuids \cup {None}]
    BY CallFacts, HashFacts DEF IInv, TypeOK, OpenStaging
  <2> QED BY <2>1, <2>2, <2>3 DEF IInv, TypeOK, OpenStaging
<1>2. RequestsInPlace'
  BY DEF IInv, TypeOK, OpenStaging, RequestsInPlace
<1>3. AnswersInPlace'
  BY DEF IInv, TypeOK, OpenStaging, AnswersInPlace, RequestsInPlace
<1>4. HashInPlace'
  BY DEF IInv, TypeOK, OpenStaging, HashInPlace
<1>5. StagingInPlace'
  BY CallFacts, HashFacts DEF IInv, TypeOK, OpenStaging, StagingInPlace, RequestsInPlace, HashInPlace, FreshUuid, Hashed
<1>6. NoPartialObject'
  BY DEF IInv, NoPartialObject, OpenStaging
<1>7. SidecarHonest'
  BY DEF IInv, SidecarHonest, OpenStaging
<1>8. AnswerHonest'
  BY ReportHonest DEF OpenStaging
<1> QED BY <1>1, <1>2, <1>3, <1>4, <1>5, <1>6, <1>7, <1>8 DEF IInv

\* A chunk goes to the put's own staging file, or to an inode without a name.
LEMMA WriteChunkInv ==
  ASSUME IInv, NEW c \in Calls, WriteChunk(c)
  PROVE  IInv'
<1>1. TypeOK'
  <2>1. pc' \in [Calls -> Labels]
    BY DEF IInv, TypeOK, WriteChunk, Labels
  <2>2. res' \in [Calls -> Replies]
    BY DEF IInv, TypeOK, WriteChunk
  <2>3. staging' \in [Uuids -> Files \cup {None}] /\ sent' \in [Calls -> Nat]
    BY CallFacts, HashFacts DEF IInv, TypeOK, WriteChunk, Hashed, Files, StagingInPlace
  <2> QED BY <2>1, <2>2, <2>3 DEF IInv, TypeOK, WriteChunk
<1>2. RequestsInPlace'
  BY DEF IInv, TypeOK, WriteChunk, RequestsInPlace
<1>3. AnswersInPlace'
  BY DEF IInv, TypeOK, WriteChunk, AnswersInPlace, RequestsInPlace
<1>4. HashInPlace'
  BY DEF IInv, TypeOK, WriteChunk, HashInPlace
<1>5. StagingInPlace'
  BY DEF IInv, TypeOK, WriteChunk, StagingInPlace, Hashed
<1>6. NoPartialObject'
  BY DEF IInv, NoPartialObject, WriteChunk
<1>7. SidecarHonest'
  BY DEF IInv, SidecarHonest, WriteChunk
<1>8. AnswerHonest'
  BY ReportHonest DEF WriteChunk
<1> QED BY <1>1, <1>2, <1>3, <1>4, <1>5, <1>6, <1>7, <1>8 DEF IInv

\* A body that raises changes only the call itself.
LEMMA AbortStreamInv ==
  ASSUME IInv, NEW c \in Calls, AbortStream(c)
  PROVE  IInv'
<1>1. TypeOK'
  <2>1. pc' \in [Calls -> Labels]
    BY DEF IInv, TypeOK, AbortStream, Labels
  <2>2. res' \in [Calls -> Replies]
    <3>1. "aborted" \in Statuses
      BY DEF Statuses, PutFailures
    <3> QED BY <3>1, AnswerTyped DEF AbortStream
  <2> QED BY <2>1, <2>2 DEF IInv, TypeOK, AbortStream
<1>2. RequestsInPlace'
  BY DEF IInv, TypeOK, AbortStream, RequestsInPlace
<1>3. AnswersInPlace'
  BY DEF IInv, TypeOK, AbortStream, AnswersInPlace, RequestsInPlace
<1>4. HashInPlace'
  BY DEF IInv, TypeOK, AbortStream, HashInPlace
<1>5. StagingInPlace'
  BY DEF IInv, TypeOK, AbortStream, StagingInPlace, Hashed
<1>6. NoPartialObject'
  BY DEF IInv, NoPartialObject, AbortStream
<1>7. SidecarHonest'
  BY DEF IInv, SidecarHonest, AbortStream
<1>8. AnswerHonest'
  BY ReportHonest DEF AbortStream
<1> QED BY <1>1, <1>2, <1>3, <1>4, <1>5, <1>6, <1>7, <1>8 DEF IInv

\* The body has ended: what is hashed is the whole payload.
LEMMA SyncStagingInv ==
  ASSUME IInv, NEW c \in Calls, SyncStaging(c)
  PROVE  IInv'
<1>1. TypeOK'
  <2>1. pc' \in [Calls -> Labels]
    BY DEF IInv, TypeOK, SyncStaging, Labels
  <2>2. res' \in [Calls -> Replies]
    BY DEF IInv, TypeOK, SyncStaging
  <2> QED BY <2>1, <2>2 DEF IInv, TypeOK, SyncStaging
<1>2. RequestsInPlace'
  BY DEF IInv, TypeOK, SyncStaging, RequestsInPlace
<1>3. AnswersInPlace'
  BY DEF IInv, TypeOK, SyncStaging, AnswersInPlace, RequestsInPlace
<1>4. HashInPlace'
  BY DEF IInv, TypeOK, SyncStaging, HashInPlace
<1>5. StagingInPlace'
  BY DEF IInv, TypeOK, SyncStaging, StagingInPlace, Hashed
<1>6. NoPartialObject'
  BY DEF IInv, NoPartialObject, SyncStaging
<1>7. SidecarHonest'
  BY DEF IInv, SidecarHonest, SyncStaging
<1>8. AnswerHonest'
  BY ReportHonest DEF SyncStaging
<1> QED BY <1>1, <1>2, <1>3, <1>4, <1>5, <1>6, <1>7, <1>8 DEF IInv

\* The renamed file is the whole payload, for it is what the put has hashed.
LEMMA PlaceObjectInv ==
  ASSUME IInv, NEW c \in Calls, PlaceObject(c)
  PROVE  IInv'
<1>1. TypeOK'
  <2>1. pc' \in [Calls -> Labels]
    BY DEF IInv, TypeOK, PlaceObject, Labels
  <2>2. res' \in [Calls -> Replies]
    <3>1. "stored" \in Statuses /\ sent[c] \in Nat
      BY CallFacts DEF PlaceObject, Statuses
    <3> QED BY <3>1, HashFacts, AnswerTyped DEF PlaceObject
  <2>3. /\ object' \in [Keys -> Files \cup {None}]
        /\ staging' \in [Uuids -> Files \cup {None}]
    BY CallFacts, HashFacts DEF IInv, TypeOK, PlaceObject, StagingInPlace
  <2> QED BY <2>1, <2>2, <2>3 DEF IInv, TypeOK, PlaceObject
<1>2. RequestsInPlace'
  BY DEF IInv, TypeOK, PlaceObject, RequestsInPlace
<1>3. AnswersInPlace'
  BY DEF IInv, TypeOK, PlaceObject, AnswersInPlace, RequestsInPlace
<1>4. HashInPlace'
  BY DEF IInv, TypeOK, PlaceObject, HashInPlace
<1>5. StagingInPlace'
  BY DEF IInv, TypeOK, PlaceObject, StagingInPlace, Hashed
<1>6. NoPartialObject'
  BY CallFacts, HashFacts DEF IInv, TypeOK, PlaceObject, NoPartialObject, RequestsInPlace, StagingInPlace
<1>7. SidecarHonest'
  BY DEF IInv, SidecarHonest, PlaceObject
<1>8. AnswerHonest'
  BY CallFacts, HashFacts DEF IInv, TypeOK, PlaceObject, AnswerHonest, RequestsInPlace, AnswersInPlace, NoPartialObject, SidecarHonest
<1> QED BY <1>1, <1>2, <1>3, <1>4, <1>5, <1>6, <1>7, <1>8 DEF IInv

\* An OSError before the rename changes only the call itself.
LEMMA FailPutInv ==
  ASSUME IInv, NEW c \in Calls, FailPut(c)
  PROVE  IInv'
<1>1. TypeOK'
  <2>1. pc' \in [Calls -> Labels]
    BY DEF IInv, TypeOK, FailPut, Labels
  <2>2. res' \in [Calls -> Replies]
    BY CallFacts, HashFacts DEF IInv, TypeOK, FailPut, Replies, Statuses, PutFailures, PutError
  <2> QED BY <2>1, <2>2 DEF IInv, TypeOK, FailPut
<1>2. RequestsInPlace'
  BY DEF IInv, TypeOK, FailPut, RequestsInPlace, Raises
<1>3. AnswersInPlace'
  BY CallFacts DEF IInv, TypeOK, FailPut, AnswersInPlace, RequestsInPlace, PutError, Raises
<1>4. HashInPlace'
  BY DEF IInv, TypeOK, FailPut, HashInPlace, Raises
<1>5. StagingInPlace'
  BY DEF IInv, TypeOK, FailPut, StagingInPlace, Hashed, Raises
<1>6. NoPartialObject'
  BY DEF IInv, NoPartialObject, FailPut
<1>7. SidecarHonest'
  BY DEF IInv, SidecarHonest, FailPut
<1>8. AnswerHonest'
  BY ReportHonest DEF FailPut
<1> QED BY <1>1, <1>2, <1>3, <1>4, <1>5, <1>6, <1>7, <1>8 DEF IInv

\* Cleaning up removes the put's own staging file and no other.
LEMMA UnlinkStagingInv ==
  ASSUME IInv, NEW c \in Calls, UnlinkStaging(c)
  PROVE  IInv'
<1>1. TypeOK'
  <2>1. pc' \in [Calls -> Labels]
    BY DEF IInv, TypeOK, UnlinkStaging, Labels
  <2>2. res' \in [Calls -> Replies]
    BY DEF IInv, TypeOK, UnlinkStaging
  <2>3. staging' \in [Uuids -> Files \cup {None}]
    BY CallFacts, HashFacts DEF IInv, TypeOK, UnlinkStaging
  <2> QED BY <2>1, <2>2, <2>3 DEF IInv, TypeOK, UnlinkStaging
<1>2. RequestsInPlace'
  BY DEF IInv, TypeOK, UnlinkStaging, RequestsInPlace
<1>3. AnswersInPlace'
  BY DEF IInv, TypeOK, UnlinkStaging, AnswersInPlace, RequestsInPlace
<1>4. HashInPlace'
  BY DEF IInv, TypeOK, UnlinkStaging, HashInPlace
<1>5. StagingInPlace'
  BY DEF IInv, TypeOK, UnlinkStaging, StagingInPlace, Hashed
<1>6. NoPartialObject'
  BY DEF IInv, NoPartialObject, UnlinkStaging
<1>7. SidecarHonest'
  BY DEF IInv, SidecarHonest, UnlinkStaging
<1>8. AnswerHonest'
  BY ReportHonest DEF UnlinkStaging
<1> QED BY <1>1, <1>2, <1>3, <1>4, <1>5, <1>6, <1>7, <1>8 DEF IInv

\* The staging file of a sidecar is not visible.
LEMMA StageSidecarInv ==
  ASSUME IInv, NEW c \in Calls, StageSidecar(c)
  PROVE  IInv'
<1>1. TypeOK'
  <2>1. pc' \in [Calls -> Labels]
    BY DEF IInv, TypeOK, StageSidecar, Labels
  <2>2. res' \in [Calls -> Replies]
    BY DEF IInv, TypeOK, StageSidecar
  <2>3. metaOrphan' \in SUBSET Keys
    BY CallFacts, HashFacts DEF IInv, TypeOK, StageSidecar
  <2> QED BY <2>1, <2>2, <2>3 DEF IInv, TypeOK, StageSidecar
<1>2. RequestsInPlace'
  BY DEF IInv, TypeOK, StageSidecar, RequestsInPlace
<1>3. AnswersInPlace'
  BY DEF IInv, TypeOK, StageSidecar, AnswersInPlace, RequestsInPlace
<1>4. HashInPlace'
  BY DEF IInv, TypeOK, StageSidecar, HashInPlace
<1>5. StagingInPlace'
  BY DEF IInv, TypeOK, StageSidecar, StagingInPlace, Hashed
<1>6. NoPartialObject'
  BY DEF IInv, NoPartialObject, StageSidecar
<1>7. SidecarHonest'
  BY DEF IInv, SidecarHonest, StageSidecar
<1>8. AnswerHonest'
  BY ReportHonest DEF StageSidecar
<1> QED BY <1>1, <1>2, <1>3, <1>4, <1>5, <1>6, <1>7, <1>8 DEF IInv

\* The sidecar records the hash of a whole payload.
LEMMA CommitSidecarInv ==
  ASSUME IInv, NEW c \in Calls, CommitSidecar(c)
  PROVE  IInv'
<1>1. TypeOK'
  <2>1. pc' \in [Calls -> Labels]
    BY DEF IInv, TypeOK, CommitSidecar, Labels
  <2>2. res' \in [Calls -> Replies]
    BY DEF IInv, TypeOK, CommitSidecar
  <2>3. sidecar' \in [Keys -> Files \cup {None}] /\ metaOrphan' \in SUBSET Keys
    BY CallFacts, HashFacts DEF IInv, TypeOK, CommitSidecar
  <2> QED BY <2>1, <2>2, <2>3 DEF IInv, TypeOK, CommitSidecar
<1>2. RequestsInPlace'
  BY DEF IInv, TypeOK, CommitSidecar, RequestsInPlace
<1>3. AnswersInPlace'
  BY DEF IInv, TypeOK, CommitSidecar, AnswersInPlace, RequestsInPlace
<1>4. HashInPlace'
  BY DEF IInv, TypeOK, CommitSidecar, HashInPlace
<1>5. StagingInPlace'
  BY DEF IInv, TypeOK, CommitSidecar, StagingInPlace, Hashed
<1>6. NoPartialObject'
  BY DEF IInv, NoPartialObject, CommitSidecar
<1>7. SidecarHonest'
  BY CallFacts, HashFacts DEF IInv, TypeOK, CommitSidecar, SidecarHonest, RequestsInPlace, HashInPlace
<1>8. AnswerHonest'
  BY ReportHonest DEF CommitSidecar
<1> QED BY <1>1, <1>2, <1>3, <1>4, <1>5, <1>6, <1>7, <1>8 DEF IInv

\* HEAD takes its answer's status and size from a visible object.
LEMMA StatInv ==
  ASSUME IInv, NEW c \in Calls, Stat(c)
  PROVE  IInv'
<1>1. TypeOK'
  <2>1. pc' \in [Calls -> Labels]
    BY DEF IInv, TypeOK, Stat, Labels
  <2>2. /\ "found" \in Statuses /\ "missing" \in Statuses /\ res[c].status \in Statuses
        /\ object[req[c].key] # None => object[req[c].key].len \in Nat
    BY CallFacts DEF Stat, Statuses
  <2>3. res' \in [Calls -> Replies]
    <3>1. PICK s \in Statuses, n \in Nat : Answer(c, s, None, n)
      BY <2>2 DEF Stat
    <3> QED BY <3>1 DEF IInv, TypeOK, Replies
  <2> QED BY <2>1, <2>3 DEF IInv, TypeOK, Stat
<1>2. RequestsInPlace'
  BY DEF IInv, TypeOK, Stat, RequestsInPlace
<1>3. AnswersInPlace'
  BY DEF IInv, TypeOK, Stat, AnswersInPlace, RequestsInPlace
<1>4. HashInPlace'
  BY DEF IInv, TypeOK, Stat, HashInPlace
<1>5. StagingInPlace'
  BY DEF IInv, TypeOK, Stat, StagingInPlace, Hashed
<1>6. NoPartialObject'
  BY DEF IInv, NoPartialObject, Stat
<1>7. SidecarHonest'
  BY DEF IInv, SidecarHonest, Stat
<1>8. AnswerHonest'
  BY EtagHonest, ReportHonest DEF Stat
<1> QED BY <1>1, <1>2, <1>3, <1>4, <1>5, <1>6, <1>7, <1>8 DEF IInv

\* The etag of a sidecar is honest.
LEMMA ReadSidecarInv ==
  ASSUME IInv, NEW c \in Calls, ReadSidecar(c)
  PROVE  IInv'
<1>1. TypeOK'
  <2>1. pc' \in [Calls -> Labels]
    BY DEF IInv, TypeOK, ReadSidecar, Labels
  <2>2. res' \in [Calls -> Replies]
    <3>1. UNCHANGED res => res' \in [Calls -> Replies]
      BY DEF IInv, TypeOK
    <3> QED BY <3>1, CallFacts, AnswerTyped DEF ReadSidecar
  <2> QED BY <2>1, <2>2 DEF IInv, TypeOK, ReadSidecar
<1>2. RequestsInPlace'
  BY DEF IInv, TypeOK, ReadSidecar, RequestsInPlace
<1>3. AnswersInPlace'
  BY DEF IInv, TypeOK, ReadSidecar, AnswersInPlace, RequestsInPlace
<1>4. HashInPlace'
  BY DEF IInv, TypeOK, ReadSidecar, HashInPlace
<1>5. StagingInPlace'
  BY DEF IInv, TypeOK, ReadSidecar, StagingInPlace, Hashed
<1>6. NoPartialObject'
  BY DEF IInv, NoPartialObject, ReadSidecar
<1>7. SidecarHonest'
  BY DEF IInv, SidecarHonest, ReadSidecar
<1>8. AnswerHonest'
  <2>1. sidecar[req[c].key] # None => sidecar[req[c].key] \in WholeFor(req[c].key)
    BY CallFacts DEF IInv, SidecarHonest, ReadSidecar
  <2> QED BY <2>1, EtagHonest, ReportHonest DEF ReadSidecar
<1> QED BY <1>1, <1>2, <1>3, <1>4, <1>5, <1>6, <1>7, <1>8 DEF IInv

\* So is the hash of whatever object has the name by then.
LEMMA RehashInv ==
  ASSUME IInv, NEW c \in Calls, Rehash(c)
  PROVE  IInv'
<1>1. TypeOK'
  <2>1. pc' \in [Calls -> Labels]
    BY DEF IInv, TypeOK, Rehash, Labels
  <2>2. res' \in [Calls -> Replies]
    <3>1. UNCHANGED res => res' \in [Calls -> Replies]
      BY DEF IInv, TypeOK
    <3> QED BY <3>1, CallFacts, AnswerTyped DEF Rehash
  <2> QED BY <2>1, <2>2 DEF IInv, TypeOK, Rehash
<1>2. RequestsInPlace'
  BY DEF IInv, TypeOK, Rehash, RequestsInPlace
<1>3. AnswersInPlace'
  BY DEF IInv, TypeOK, Rehash, AnswersInPlace, RequestsInPlace
<1>4. HashInPlace'
  BY DEF IInv, TypeOK, Rehash, HashInPlace
<1>5. StagingInPlace'
  BY DEF IInv, TypeOK, Rehash, StagingInPlace, Hashed
<1>6. NoPartialObject'
  BY DEF IInv, NoPartialObject, Rehash
<1>7. SidecarHonest'
  BY DEF IInv, SidecarHonest, Rehash
<1>8. AnswerHonest'
  <2>1. object[req[c].key] # None => object[req[c].key] \in WholeFor(req[c].key)
    BY CallFacts DEF IInv, NoPartialObject, Rehash
  <2> QED BY <2>1, EtagHonest, ReportHonest DEF Rehash
<1> QED BY <1>1, <1>2, <1>3, <1>4, <1>5, <1>6, <1>7, <1>8 DEF IInv

\* isfile changes only the call itself.
LEMMA CheckFileInv ==
  ASSUME IInv, NEW c \in Calls, CheckFile(c)
  PROVE  IInv'
<1>1. TypeOK'
  <2>1. pc' \in [Calls -> Labels]
    BY DEF IInv, TypeOK, CheckFile, Labels
  <2>2. res' \in [Calls -> Replies]
    <3>1. "missing" \in Statuses
      BY DEF Statuses
    <3>2. UNCHANGED res => res' \in [Calls -> Replies]
      BY DEF IInv, TypeOK
    <3> QED BY <3>1, <3>2, AnswerTyped DEF CheckFile
  <2> QED BY <2>1, <2>2 DEF IInv, TypeOK, CheckFile
<1>2. RequestsInPlace'
  BY DEF IInv, TypeOK, CheckFile, RequestsInPlace
<1>3. AnswersInPlace'
  BY DEF IInv, TypeOK, CheckFile, AnswersInPlace, RequestsInPlace
<1>4. HashInPlace'
  BY DEF IInv, TypeOK, CheckFile, HashInPlace
<1>5. StagingInPlace'
  BY DEF IInv, TypeOK, CheckFile, StagingInPlace, Hashed
<1>6. NoPartialObject'
  BY DEF IInv, NoPartialObject, CheckFile
<1>7. SidecarHonest'
  BY DEF IInv, SidecarHonest, CheckFile
<1>8. AnswerHonest'
  BY ReportHonest DEF CheckFile
<1> QED BY <1>1, <1>2, <1>3, <1>4, <1>5, <1>6, <1>7, <1>8 DEF IInv

\* A GET sends a visible object, which is whole.
LEMMA OpenReadInv ==
  ASSUME IInv, NEW c \in Calls, OpenRead(c)
  PROVE  IInv'
<1>1. TypeOK'
  <2>1. pc' \in [Calls -> Labels]
    BY DEF IInv, TypeOK, OpenRead, Labels
  <2>2. res' \in [Calls -> Replies]
    <3>1. {"sent", "broken"} \subseteq Statuses
      BY DEF Statuses
    <3> QED BY <3>1, CallFacts, AnswerTyped DEF OpenRead
  <2> QED BY <2>1, <2>2 DEF IInv, TypeOK, OpenRead
<1>2. RequestsInPlace'
  BY DEF IInv, TypeOK, OpenRead, RequestsInPlace
<1>3. AnswersInPlace'
  BY DEF IInv, TypeOK, OpenRead, AnswersInPlace, RequestsInPlace
<1>4. HashInPlace'
  BY DEF IInv, TypeOK, OpenRead, HashInPlace
<1>5. StagingInPlace'
  BY DEF IInv, TypeOK, OpenRead, StagingInPlace, Hashed
<1>6. NoPartialObject'
  BY DEF IInv, NoPartialObject, OpenRead
<1>7. SidecarHonest'
  BY DEF IInv, SidecarHonest, OpenRead
<1>8. AnswerHonest'
  <2>1. object[req[c].key] # None => object[req[c].key] \in WholeFor(req[c].key)
    BY CallFacts DEF IInv, NoPartialObject, OpenRead
  <2> QED BY <2>1, EtagHonest, ReportHonest DEF OpenRead
<1> QED BY <1>1, <1>2, <1>3, <1>4, <1>5, <1>6, <1>7, <1>8 DEF IInv

\* Removing an object leaves no partial one.
LEMMA UnlinkObjectInv ==
  ASSUME IInv, NEW c \in Calls, UnlinkObject(c)
  PROVE  IInv'
<1>1. TypeOK'
  <2>1. pc' \in [Calls -> Labels]
    BY DEF IInv, TypeOK, UnlinkObject, Labels
  <2>2. res' \in [Calls -> Replies]
    <3>1. {"deleted", "absent"} \subseteq Statuses
      BY DEF Statuses
    <3> QED BY <3>1, AnswerTyped DEF UnlinkObject
  <2>3. object' \in [Keys -> Files \cup {None}]
    BY CallFacts, HashFacts DEF IInv, TypeOK, UnlinkObject
  <2> QED BY <2>1, <2>2, <2>3 DEF IInv, TypeOK, UnlinkObject
<1>2. RequestsInPlace'
  BY DEF IInv, TypeOK, UnlinkObject, RequestsInPlace
<1>3. AnswersInPlace'
  BY DEF IInv, TypeOK, UnlinkObject, AnswersInPlace, RequestsInPlace
<1>4. HashInPlace'
  BY DEF IInv, TypeOK, UnlinkObject, HashInPlace
<1>5. StagingInPlace'
  BY DEF IInv, TypeOK, UnlinkObject, StagingInPlace, Hashed
<1>6. NoPartialObject'
  BY CallFacts, HashFacts DEF IInv, TypeOK, UnlinkObject, NoPartialObject, RequestsInPlace, StagingInPlace
<1>7. SidecarHonest'
  BY DEF IInv, SidecarHonest, UnlinkObject
<1>8. AnswerHonest'
  BY ReportHonest DEF UnlinkObject
<1> QED BY <1>1, <1>2, <1>3, <1>4, <1>5, <1>6, <1>7, <1>8 DEF IInv

\* Removing a sidecar leaves no dishonest one.
LEMMA UnlinkSidecarInv ==
  ASSUME IInv, NEW c \in Calls, UnlinkSidecar(c)
  PROVE  IInv'
<1>1. TypeOK'
  <2>1. pc' \in [Calls -> Labels]
    BY DEF IInv, TypeOK, UnlinkSidecar, Labels
  <2>2. res' \in [Calls -> Replies]
    BY DEF IInv, TypeOK, UnlinkSidecar
  <2>3. sidecar' \in [Keys -> Files \cup {None}]
    BY CallFacts, HashFacts DEF IInv, TypeOK, UnlinkSidecar
  <2> QED BY <2>1, <2>2, <2>3 DEF IInv, TypeOK, UnlinkSidecar
<1>2. RequestsInPlace'
  BY DEF IInv, TypeOK, UnlinkSidecar, RequestsInPlace
<1>3. AnswersInPlace'
  BY DEF IInv, TypeOK, UnlinkSidecar, AnswersInPlace, RequestsInPlace
<1>4. HashInPlace'
  BY DEF IInv, TypeOK, UnlinkSidecar, HashInPlace
<1>5. StagingInPlace'
  BY DEF IInv, TypeOK, UnlinkSidecar, StagingInPlace, Hashed
<1>6. NoPartialObject'
  BY DEF IInv, NoPartialObject, UnlinkSidecar
<1>7. SidecarHonest'
  BY CallFacts, HashFacts DEF IInv, TypeOK, UnlinkSidecar, SidecarHonest, RequestsInPlace, HashInPlace
<1>8. AnswerHonest'
  BY ReportHonest DEF UnlinkSidecar
<1> QED BY <1>1, <1>2, <1>3, <1>4, <1>5, <1>6, <1>7, <1>8 DEF IInv

\* A finished call leaves its slot as it found it.
LEMMA ReturnInv ==
  ASSUME IInv, NEW c \in Calls, Return(c)
  PROVE  IInv'
<1>1. TypeOK'
  <2>1. pc' \in [Calls -> Labels]
    BY DEF IInv, TypeOK, Return, Labels
  <2>2. res' \in [Calls -> Replies]
    BY CallFacts, HashFacts DEF IInv, TypeOK, Return, Replies, Statuses
  <2> QED BY <2>1, <2>2 DEF IInv, TypeOK, Return
<1>2. RequestsInPlace'
  BY DEF IInv, TypeOK, Return, RequestsInPlace
<1>3. AnswersInPlace'
  BY DEF IInv, TypeOK, Return, AnswersInPlace, RequestsInPlace
<1>4. HashInPlace'
  BY DEF IInv, TypeOK, Return, HashInPlace
<1>5. StagingInPlace'
  BY DEF IInv, TypeOK, Return, StagingInPlace, Hashed
<1>6. NoPartialObject'
  BY DEF IInv, NoPartialObject, Return
<1>7. SidecarHonest'
  BY DEF IInv, SidecarHonest, Return
<1>8. AnswerHonest'
  BY CallFacts, HashFacts DEF IInv, TypeOK, Return, AnswerHonest, RequestsInPlace, AnswersInPlace, NoPartialObject, SidecarHonest
<1> QED BY <1>1, <1>2, <1>3, <1>4, <1>5, <1>6, <1>7, <1>8 DEF IInv

\* A call begins with a request of its verb, at the first step of that verb.
LEMMA StartIsCall ==
  ASSUME NEW c \in Calls, StartCall(c)
  PROVE  \E r \in Requests, l \in {"exists", "open", "stat", "isfile", "unlink"} :
           /\ Start(c, r, l)
           /\ l \in {"exists", "open"} => r.op = "put" /\ r.payload \in PayloadsFor[r.key]
           /\ l = "exists" => r.create
           /\ l = "stat" => r.op = "head"
           /\ l = "isfile" => r.op = "get"
           /\ l = "unlink" => r.op = "delete"
<1> DEFINE Begins(r, l) ==
      /\ Start(c, r, l)
      /\ l \in {"exists", "open"} => r.op = "put" /\ r.payload \in PayloadsFor[r.key]
      /\ l = "exists" => r.create
      /\ l = "stat" => r.op = "head"
      /\ l = "isfile" => r.op = "get"
      /\ l = "unlink" => r.op = "delete"
<1>1. PICK k \in Keys :
          \/ \E p \in Payloads, create \in BOOLEAN : StartPut(c, k, p, create)
          \/ StartHead(c, k) \/ StartGet(c, k) \/ StartDelete(c, k)
  BY DEF StartCall
<1>2. CASE \E p \in Payloads, create \in BOOLEAN : StartPut(c, k, p, create)
  <2>1. PICK p \in Payloads, create \in BOOLEAN : StartPut(c, k, p, create)
    BY <1>2
  <2>2. Begins([op |-> "put", key |-> k, payload |-> p, create |-> create],
                 IF create THEN "exists" ELSE "open")
    BY <2>1 DEF StartPut
  <2> QED BY <2>2 DEF Requests
<1>3. CASE StartHead(c, k)
  <2>1. Begins([op |-> "head", key |-> k, payload |-> None, create |-> FALSE], "stat")
    BY <1>3 DEF StartHead
  <2> QED BY <2>1 DEF Requests
<1>4. CASE StartGet(c, k)
  <2>1. Begins([op |-> "get", key |-> k, payload |-> None, create |-> FALSE], "isfile")
    BY <1>4 DEF StartGet
  <2> QED BY <2>1 DEF Requests
<1>5. CASE StartDelete(c, k)
  <2>1. Begins([op |-> "delete", key |-> k, payload |-> None, create |-> FALSE], "unlink")
    BY <1>5 DEF StartDelete
  <2> QED BY <2>1 DEF Requests
<1> QED BY <1>1, <1>2, <1>3, <1>4, <1>5

\* A call that begins has a request of its verb and nothing else.
LEMMA StartInv ==
  ASSUME IInv, NEW c \in Calls, StartCall(c)
  PROVE  IInv'
<1>1. PICK r \in Requests, l \in {"exists", "open", "stat", "isfile", "unlink"} :
        /\ Start(c, r, l)
        /\ l \in {"exists", "open"} => r.op = "put" /\ r.payload \in PayloadsFor[r.key]
        /\ l = "exists" => r.create
        /\ l = "stat" => r.op = "head"
        /\ l = "isfile" => r.op = "get"
        /\ l = "unlink" => r.op = "delete"
  BY StartIsCall
<1>2. TypeOK'
  BY <1>1 DEF IInv, TypeOK, Start, Labels
<1>3. RequestsInPlace'
  BY <1>1 DEF IInv, TypeOK, Start, RequestsInPlace
<1>4. AnswersInPlace' /\ HashInPlace' /\ StagingInPlace'
  BY <1>1 DEF IInv, TypeOK, Start, AnswersInPlace, HashInPlace, StagingInPlace, Hashed
<1>5. NoPartialObject' /\ SidecarHonest'
  BY <1>1 DEF IInv, TypeOK, Start, NoPartialObject, SidecarHonest
<1>6. AnswerHonest'
  BY <1>1 DEF IInv, TypeOK, Start, AnswersInPlace, AnswerHonest
<1> QED BY <1>2, <1>3, <1>4, <1>5, <1>6 DEF IInv

\* The clock and the sweeper touch .tmp only, and the sweeper only removes names.
LEMMA SweepInv ==
  ASSUME IInv, (\E u \in Uuids : Age(u) \/ SweepMark(u)) \/ SweepUnlink
  PROVE  IInv'
<1>1. /\ UNCHANGED <<object, sidecar, metaOrphan, server, locals>>
      /\ stale' \in SUBSET Uuids
      /\ doomed' \in Uuids \cup {None}
      /\ staging' \in [Uuids -> Files \cup {None}]
      /\ \A u \in Uuids : staging'[u] \in {None, staging[u]}
  BY DEF IInv, TypeOK, Age, SweepMark, SweepUnlink
<1>2. TypeOK'
  BY <1>1 DEF IInv, TypeOK
<1>3. RequestsInPlace' /\ AnswersInPlace' /\ HashInPlace'
  BY <1>1 DEF IInv, RequestsInPlace, AnswersInPlace, HashInPlace
<1>4. StagingInPlace'
  BY <1>1 DEF IInv, TypeOK, StagingInPlace, Hashed
<1>5. NoPartialObject' /\ SidecarHonest' /\ AnswerHonest'
  BY <1>1 DEF IInv, NoPartialObject, SidecarHonest, AnswerHonest
<1> QED BY <1>2, <1>3, <1>4, <1>5 DEF IInv

\* A crash ends the calls of its process and keeps the files.
LEMMA CrashInv ==
  ASSUME IInv, NEW dead \in SUBSET Calls, Crash(dead)
  PROVE  IInv'
<1>1. TypeOK'
  <2>1. metaOrphan' \in SUBSET Keys
    BY CallFacts DEF IInv, TypeOK, Crash
  <2>2. pc' \in [Calls -> Labels] /\ res' \in [Calls -> Replies]
    BY DEF IInv, TypeOK, Crash, Labels, Replies, Statuses, Pending
  <2>3. crashes' \in 0..MaxCrashes
    <3>1. crashes \in 0..MaxCrashes /\ crashes' = crashes + 1 /\ crashes < MaxCrashes
      BY DEF IInv, TypeOK, Crash
    <3> QED BY <3>1, BoundsAssumption
  <2>5. up' \in BOOLEAN /\ doomed' \in Uuids \cup {None}
    BY Zenon DEF IInv, TypeOK, Crash
  <2>4. req' \in [Calls -> Requests \cup {None}] /\ sent' \in [Calls -> Nat]
        /\ tmp' \in [Calls -> Uuids \cup {None}]
    BY DEF IInv, TypeOK, Crash
  <2> QED BY <2>1, <2>2, <2>3, <2>4, <2>5 DEF IInv, TypeOK, Crash
<1>2. ASSUME NEW c \in Calls
      PROVE  \/ /\ pc'[c] = "idle" /\ req'[c] = None /\ sent'[c] = 0 /\ tmp'[c] = None
                /\ res'[c] = Pending
             \/ /\ pc'[c] = pc[c] /\ req'[c] = req[c] /\ sent'[c] = sent[c]
                /\ tmp'[c] = tmp[c] /\ res'[c] = res[c]
  BY DEF Crash
<1>3. RequestsInPlace' /\ AnswersInPlace'
  BY <1>2 DEF IInv, RequestsInPlace, AnswersInPlace, Pending
<1>4. HashInPlace'
  BY <1>2 DEF IInv, HashInPlace
<1>5. StagingInPlace'
  <2>1. staging' = staging
    BY DEF Crash
  <2> QED BY <1>2, <2>1 DEF IInv, StagingInPlace, Hashed
<1>6. NoPartialObject' /\ SidecarHonest' /\ AnswerHonest'
  BY <1>2 DEF IInv, Crash, NoPartialObject, SidecarHonest, AnswerHonest, Pending
<1> QED BY <1>1, <1>3, <1>4, <1>5, <1>6 DEF IInv

\* The sweep at start-up removes staging names, like the periodic one.
LEMMA RestartInv ==
  ASSUME IInv, Restart
  PROVE  IInv'
<1>1. PICK swept \in SUBSET stale :
        /\ staging' = [u \in Uuids |-> IF u \in swept THEN None ELSE staging[u]]
        /\ stale' = stale \ swept
  BY DEF Restart
<1>2. TypeOK'
  BY <1>1 DEF IInv, TypeOK, Restart
<1>3. RequestsInPlace' /\ AnswersInPlace' /\ HashInPlace'
  BY DEF IInv, Restart, RequestsInPlace, AnswersInPlace, HashInPlace
<1>4. StagingInPlace'
  BY <1>1 DEF IInv, TypeOK, Restart, StagingInPlace, Hashed
<1>5. NoPartialObject' /\ SidecarHonest' /\ AnswerHonest'
  BY DEF IInv, Restart, NoPartialObject, SidecarHonest, AnswerHonest
<1> QED BY <1>2, <1>3, <1>4, <1>5 DEF IInv

\* Every step preserves the invariant.
LEMMA StepInv == IInv /\ [Next]_vars => IInv'
<1> SUFFICES ASSUME IInv, [Next]_vars PROVE IInv'
  OBVIOUS
<1>1. ASSUME NEW c \in Calls, PutStep(c) PROVE IInv'
  BY <1>1, CheckExistsInv, OpenStagingInv, WriteChunkInv, AbortStreamInv, SyncStagingInv,
     PlaceObjectInv, FailPutInv, UnlinkStagingInv, StageSidecarInv, CommitSidecarInv DEF PutStep
<1>2. ASSUME NEW c \in Calls, HeadStep(c) \/ GetStep(c) \/ DeleteStep(c) PROVE IInv'
  BY <1>2, StatInv, ReadSidecarInv, RehashInv, CheckFileInv, OpenReadInv,
     UnlinkObjectInv, UnlinkSidecarInv DEF HeadStep, GetStep, DeleteStep
<1>3. ASSUME Upkeep PROVE IInv'
  BY <1>3, SweepInv, CrashInv, RestartInv DEF Upkeep
<1>4. ASSUME UNCHANGED vars PROVE IInv'
  BY <1>4 DEF vars, IInv, TypeOK, RequestsInPlace, AnswersInPlace, HashInPlace, StagingInPlace,
     NoPartialObject, SidecarHonest, AnswerHonest, Hashed
<1> QED BY <1>1, <1>2, <1>3, <1>4, StartInv, ReturnInv DEF Next, CallStep

-----------------------------------------------------------------------------
(* The theorems.                                                           *)

\* The inductive invariant holds in every reachable state.
THEOREM Invariance == Spec => []IInv
BY InitInv, StepInv, PTL DEF Spec

\* Type correctness.
THEOREM TypeCorrect == Spec => []TypeOK
<1>1. IInv => TypeOK
  BY DEF IInv
<1> QED BY <1>1, Invariance, PTL

\* Whatever interleaves, fails or crashes, a visible object is a complete payload
\* uploaded under its own key (put streams into .tmp and renames at the end).
THEOREM ObjectsAreWhole == Spec => []NoPartialObject
<1>1. IInv => NoPartialObject
  BY DEF IInv
<1> QED BY <1>1, Invariance, PTL

\* A sidecar never records an unfinished upload or one of another key.
THEOREM SidecarsAreHonest == Spec => []SidecarHonest
<1>1. IInv => SidecarHonest
  BY DEF IInv
<1> QED BY <1>1, Invariance, PTL

\* No reply carries an etag that no complete upload under the key ever had.
THEOREM AnswersAreHonest == Spec => []AnswerHonest
<1>1. IInv => AnswerHonest
  BY DEF IInv
<1> QED BY <1>1, Invariance, PTL

\* When each key is written with one payload only, the stored etag is that of the
\* stored bytes, through crashes, failed sidecar writes and racing deletes.
THEOREM EtagsAreTruthful == Spec => []EtagTruthful
<1>1. IInv => EtagTruthful
  BY DEF IInv, NoPartialObject, SidecarHonest, ContentAddressed, EtagTruthful, WholeFor
<1> QED BY <1>1, Invariance, PTL

-----------------------------------------------------------------------------
(* Three properties that need more than the invariant.                     *)

\* The count of crashes is the number of crashes.
LEMMA OnlyCrashCounts ==
  ASSUME [Next]_vars, \A dead \in SUBSET Calls : ~Crash(dead)
  PROVE  UNCHANGED crashes
<1>1. ASSUME NEW c \in Calls, StartCall(c) \/ Return(c)
      PROVE  UNCHANGED crashes
  BY <1>1 DEF StartCall, Start, StartPut, StartHead, StartGet, StartDelete, Return
<1>2. ASSUME NEW c \in Calls, PutStep(c)
      PROVE  UNCHANGED crashes
  BY <1>2 DEF PutStep, CheckExists, OpenStaging, WriteChunk, AbortStream, SyncStaging,
     PlaceObject, FailPut, UnlinkStaging, StageSidecar, CommitSidecar
<1>3. ASSUME NEW c \in Calls, HeadStep(c) \/ GetStep(c) \/ DeleteStep(c)
      PROVE  UNCHANGED crashes
  BY <1>3 DEF HeadStep, GetStep, DeleteStep, Stat, ReadSidecar, Rehash, CheckFile,
     OpenRead, UnlinkObject, UnlinkSidecar
<1>4. ASSUME Upkeep
      PROVE  UNCHANGED crashes
  BY <1>4 DEF Upkeep, Age, SweepMark, SweepUnlink, Restart
<1> QED BY <1>1, <1>2, <1>3, <1>4 DEF Next, CallStep, vars

\* Until the first crash, and while unlink works, every staging file has its put.
LEMMA StagingStaysOwned == IInv /\ NoStagingLeak /\ [Next]_vars => NoStagingLeak'
<1> SUFFICES ASSUME IInv, NoStagingLeak, [Next]_vars, crashes' = 0, ~Fails("unlink"),
                    NEW u \in Uuids, staging'[u] # None
             PROVE  \E c \in Calls : tmp'[c] = u
  BY DEF NoStagingLeak
<1>1. (\A dead \in SUBSET Calls : ~Crash(dead)) /\ crashes = 0
  <2>1. \A dead \in SUBSET Calls : ~Crash(dead)
    BY DEF IInv, TypeOK, Crash
  <2> QED BY <2>1, OnlyCrashCounts
<1>2. staging[u] # None => \E c \in Calls : tmp[c] = u
  BY <1>1 DEF NoStagingLeak
<1>3. ASSUME NEW c \in Calls, OpenStaging(c)
      PROVE  \E d \in Calls : tmp'[d] = u
  <2>1. PICK v \in Uuids : /\ FreshUuid(v)
                           /\ tmp' = [tmp EXCEPT ![c] = v]
                           /\ staging' = [staging EXCEPT ![v] = Hashed(c)]
    BY <1>3 DEF OpenStaging
  <2>2. tmp[c] = None
    BY <1>3 DEF IInv, OpenStaging, StagingInPlace
  <2> QED BY <1>2, <2>1, <2>2 DEF IInv, TypeOK
<1>4. ASSUME NEW c \in Calls, WriteChunk(c)
      PROVE  \E d \in Calls : tmp'[d] = u
  <2>1. tmp[c] \in Uuids
    BY <1>4 DEF IInv, TypeOK, WriteChunk, StagingInPlace
  <2> QED BY <1>2, <1>4, <2>1 DEF IInv, TypeOK, WriteChunk
<1>5. ASSUME NEW c \in Calls, PlaceObject(c) \/ UnlinkStaging(c)
      PROVE  \E d \in Calls : tmp'[d] = u
  <2>1. /\ staging' = [staging EXCEPT ![tmp[c]] = None]
        /\ tmp' = [tmp EXCEPT ![c] = None]
    BY <1>5 DEF PlaceObject, UnlinkStaging
  <2> QED BY <1>2, <2>1 DEF IInv, TypeOK
<1>6. ASSUME tmp' = tmp, staging'[u] \in {None, staging[u]}
      PROVE  \E d \in Calls : tmp'[d] = u
  BY <1>2, <1>6
<1>7. ASSUME NEW c \in Calls,
             \/ StartCall(c) \/ HeadStep(c) \/ GetStep(c) \/ DeleteStep(c) \/ Return(c)
             \/ CheckExists(c) \/ AbortStream(c) \/ SyncStaging(c) \/ FailPut(c)
             \/ StageSidecar(c) \/ CommitSidecar(c)
      PROVE  UNCHANGED <<tmp, staging>>
  BY <1>7 DEF StartCall, Start, StartPut, StartHead, StartGet, StartDelete, Return,
     HeadStep, GetStep, DeleteStep, CheckExists, AbortStream, SyncStaging, FailPut,
     StageSidecar, CommitSidecar, Stat, ReadSidecar, Rehash, CheckFile, OpenRead,
     UnlinkObject, UnlinkSidecar
<1>8. ASSUME Upkeep
      PROVE  tmp' = tmp /\ staging'[u] \in {None, staging[u]}
  BY <1>1, <1>8 DEF IInv, TypeOK, Upkeep, Age, SweepMark, SweepUnlink, Restart
<1> QED BY <1>3, <1>4, <1>5, <1>6, <1>7, <1>8 DEF Next, CallStep, PutStep, vars

\* No failure, refusal or disconnect leaves a staging file behind: a put that does
\* not rename unlinks it (finally clause), and only a crash can come in between.
THEOREM NoLeak == Spec => []NoStagingLeak
<1>1. Init => NoStagingLeak
  BY DEF Init, NoStagingLeak
<1> QED BY <1>1, StagingStaysOwned, Invariance, PTL DEF Spec

\* A step of Next that changes an object is the rename of a put or the unlink of a
\* delete.
LEMMA ObjectChange ==
  ASSUME [Next]_vars, object' # object
  PROVE  \E c \in Calls : PlaceObject(c) \/ UnlinkObject(c)
<1>1. ASSUME NEW c \in Calls, StartCall(c) \/ Return(c)
      PROVE  UNCHANGED object
  BY <1>1 DEF StartCall, Start, StartPut, StartHead, StartGet, StartDelete, Return
<1>2. ASSUME NEW c \in Calls, PutStep(c), ~PlaceObject(c)
      PROVE  UNCHANGED object
  BY <1>2 DEF PutStep, CheckExists, OpenStaging, WriteChunk, AbortStream, SyncStaging,
     FailPut, UnlinkStaging, StageSidecar, CommitSidecar
<1>3. ASSUME NEW c \in Calls, HeadStep(c) \/ GetStep(c) \/ UnlinkSidecar(c)
      PROVE  UNCHANGED object
  BY <1>3 DEF HeadStep, GetStep, Stat, ReadSidecar, Rehash, CheckFile, OpenRead, UnlinkSidecar
<1>4. ASSUME Upkeep
      PROVE  UNCHANGED object
  BY <1>4 DEF Upkeep, Age, SweepMark, SweepUnlink, Crash, Restart
<1> QED BY <1>1, <1>2, <1>3, <1>4 DEF Next, CallStep, DeleteStep, vars

\* An object changes only by a put of its key that then answers "stored", to what
\* that put has hashed, or by a delete of its key that then answers "deleted": a put
\* that failed, the sweeper and a crash have no effect on it.
THEOREM OnlyCallsChangeObjects == Spec => OnlyCallsOnKeyChangeIt
<1>1. ASSUME IInv, [Next]_vars, NEW k \in Keys, object'[k] # object[k]
      PROVE  \E c \in Calls :
               /\ req[c] # None /\ req[c].key = k
               /\ res[c].status = "pending"
               /\ \/ req[c].op = "put" /\ res'[c].status = "stored" /\ object'[k] = res'[c].etag
                  \/ req[c].op = "delete" /\ res'[c].status = "deleted" /\ object'[k] = None
  <2>1. PICK c \in Calls : PlaceObject(c) \/ UnlinkObject(c)
    BY <1>1, ObjectChange
  <2>2. req[c] # None /\ req[c].key \in Keys /\ res[c].status = "pending"
    BY <1>1, <2>1, CallFacts DEF IInv, PlaceObject, UnlinkObject, AnswersInPlace
  <2>3. CASE PlaceObject(c)
    <3>1. req[c].op = "put" /\ staging[tmp[c]] = Hashed(c)
      BY <1>1, <2>3 DEF IInv, PlaceObject, RequestsInPlace, StagingInPlace
    <3>2. res'[c].status = "stored" /\ res'[c].etag = Hashed(c)
      BY <1>1, <2>3 DEF IInv, TypeOK, PlaceObject
    <3>3. req[c].key = k /\ object'[k] = Hashed(c)
      BY <1>1, <2>2, <2>3, <3>1 DEF IInv, TypeOK, PlaceObject
    <3> QED BY <2>2, <3>1, <3>2, <3>3
  <2>4. CASE UnlinkObject(c)
    <3>1. req[c].op = "delete"
      BY <1>1, <2>4 DEF IInv, UnlinkObject, RequestsInPlace
    <3>2. /\ object' = [object EXCEPT ![req[c].key] = None]
          /\ res' = [res EXCEPT ![c] = [status |-> "deleted", etag |-> None, bytes |-> 0]]
      BY <1>1, <2>4 DEF UnlinkObject
    <3> QED BY <1>1, <2>2, <3>1, <3>2 DEF IInv, TypeOK
  <2> QED BY <2>1, <2>3, <2>4
<1>2. ASSUME IInv, [Next]_vars
      PROVE  [\A k \in Keys : object'[k] # object[k] =>
                \E c \in Calls :
                  /\ req[c] # None /\ req[c].key = k
                  /\ res[c].status = "pending"
                  /\ \/ req[c].op = "put" /\ res'[c].status = "stored" /\ object'[k] = res'[c].etag
                     \/ req[c].op = "delete" /\ res'[c].status = "deleted" /\ object'[k] = None]_vars
  BY <1>1, <1>2
<1> QED BY <1>2, Invariance, PTL DEF Spec, OnlyCallsOnKeyChangeIt

\* A step of one call leaves the others where they are.
LEMMA OthersStay ==
  ASSUME IInv, NEW c \in Calls, StartCall(c) \/ CallStep(c) \/ Return(c),
         NEW d \in Calls, d # c
  PROVE  pc'[d] = pc[d] /\ req'[d] = req[d] /\ res'[d] = res[d]
<1>1. CASE StartCall(c) \/ Return(c)
  <2>1. UNCHANGED res \/ res' = [res EXCEPT ![c] = Pending]
    BY <1>1 DEF StartCall, Start, StartPut, StartHead, StartGet, StartDelete, Return
  <2>2. /\ \E l : pc' = [pc EXCEPT ![c] = l]
        /\ \E r : req' = [req EXCEPT ![c] = r]
    BY <1>1 DEF StartCall, Start, StartPut, StartHead, StartGet, StartDelete, Return
  <2> QED BY <2>1, <2>2 DEF IInv, TypeOK
<1>2. CASE PutStep(c)
  BY <1>2 DEF IInv, TypeOK, PutStep, CheckExists, OpenStaging, WriteChunk, AbortStream,
     SyncStaging, PlaceObject, FailPut, UnlinkStaging, StageSidecar, CommitSidecar
<1>3. CASE HeadStep(c) \/ GetStep(c) \/ DeleteStep(c)
  BY <1>3 DEF IInv, TypeOK, HeadStep, GetStep, DeleteStep, Stat, ReadSidecar, Rehash,
     CheckFile, OpenRead, UnlinkObject, UnlinkSidecar
<1> QED BY <1>1, <1>2, <1>3 DEF CallStep

\* HEAD keeps the size it took from a visible object until it has its etag.
LEMMA SizeStays == IInv /\ SizeInPlace /\ [Next]_vars => SizeInPlace'
<1> SUFFICES ASSUME IInv, SizeInPlace, [Next]_vars, ContentAddressed,
                    NEW c \in Calls, pc'[c] \in {"meta_read", "rehash"}
             PROVE  \E p \in PayloadsFor[req'[c].key] : res'[c].bytes = Size[p]
  BY DEF SizeInPlace, ContentAddressed
<1>1. CASE pc'[c] = pc[c] /\ req'[c] = req[c] /\ res'[c] = res[c]
  BY <1>1 DEF SizeInPlace
<1>2. CASE Stat(c)
  <2>1. pc'[c] = "meta_read" /\ req' = req
    BY <1>2 DEF IInv, TypeOK, Stat
  <2>2. object[req[c].key] # None /\ res'[c].bytes = object[req[c].key].len
    BY <1>2, <2>1 DEF IInv, TypeOK, Stat
  <2>3. req[c].key \in Keys
    BY <1>2, CallFacts DEF Stat
  <2> QED BY <2>1, <2>2, <2>3 DEF IInv, NoPartialObject, WholeFor, Whole
<1>3. CASE ReadSidecar(c)
  <2>1. pc[c] = "meta_read" /\ res' = res /\ req' = req
    BY <1>3 DEF IInv, TypeOK, ReadSidecar
  <2> QED BY <2>1 DEF SizeInPlace
<1>4. ASSUME StartCall(c) \/ Return(c) \/ PutStep(c) \/ Rehash(c) \/ GetStep(c) \/ DeleteStep(c),
             ~CheckExists(c)
      PROVE  FALSE
  <2>1. CASE StartCall(c)
    <3>1. PICK r \in Requests, l \in {"exists", "open", "stat", "isfile", "unlink"} : Start(c, r, l)
      BY <2>1, StartIsCall
    <3> QED BY <3>1 DEF IInv, TypeOK, Start
  <2>2. CASE Return(c)
    BY <2>2 DEF IInv, TypeOK, Return
  <2>3. CASE PutStep(c)
    BY <1>4, <2>3 DEF IInv, TypeOK, PutStep, OpenStaging, WriteChunk, AbortStream,
       SyncStaging, PlaceObject, FailPut, UnlinkStaging, StageSidecar, CommitSidecar
  <2>4. CASE Rehash(c) \/ GetStep(c) \/ DeleteStep(c)
    BY <2>4 DEF IInv, TypeOK, GetStep, DeleteStep, Rehash, CheckFile, OpenRead,
       UnlinkObject, UnlinkSidecar
  <2> QED BY <1>4, <2>1, <2>2, <2>3, <2>4
<1>5. ~CheckExists(c)
  BY DEF IInv, TypeOK, CheckExists
<1>6. CASE \E d \in Calls : d # c /\ (StartCall(d) \/ CallStep(d) \/ Return(d))
  BY <1>1, <1>6, OthersStay
<1>7. CASE Upkeep
  <2>1. ASSUME NEW dead \in SUBSET Calls, Crash(dead)
        PROVE  pc'[c] = pc[c] /\ req'[c] = req[c] /\ res'[c] = res[c]
    BY <2>1 DEF Crash
  <2>2. ASSUME \A dead \in SUBSET Calls : ~Crash(dead)
        PROVE  UNCHANGED <<pc, req, res>>
    BY <1>7, <2>2 DEF Upkeep, Age, SweepMark, SweepUnlink, Restart
  <2> QED BY <1>1, <2>1, <2>2
<1>8. CASE UNCHANGED vars
  BY <1>1, <1>8 DEF vars
<1> QED BY <1>2, <1>3, <1>4, <1>5, <1>6, <1>7, <1>8 DEF Next, CallStep, HeadStep

\* An answer gets its etag together with the size of the same content.
LEMMA RepliesStayConsistent ==
  IInv /\ SizeInPlace /\ ReplyConsistent /\ [Next]_vars => ReplyConsistent'
<1> SUFFICES ASSUME IInv, SizeInPlace, ReplyConsistent, [Next]_vars, ContentAddressed,
                    NEW c \in Calls, res'[c].etag # None
             PROVE  res'[c].bytes = res'[c].etag.len
  BY DEF ReplyConsistent, ContentAddressed
<1>1. CASE res'[c] = res[c]
  BY <1>1 DEF ReplyConsistent
<1>2. CASE \E s, e, n : Answer(c, s, e, n) /\ n = e.len
  BY <1>2 DEF IInv, TypeOK
<1>3. CASE res'[c] = Pending \/ \E s, n : Answer(c, s, None, n)
  BY <1>3 DEF IInv, TypeOK
<1>4. CASE Rehash(c)
  <2>1. CASE /\ object[req[c].key] # None
             /\ Answer(c, res[c].status, object[req[c].key], res[c].bytes)
    <3>1. pc[c] = "rehash" /\ req[c].key \in Keys
      BY <1>4, CallFacts DEF Rehash
    <3>2. PICK p \in PayloadsFor[req[c].key] : res[c].bytes = Size[p]
      BY <3>1 DEF SizeInPlace
    <3>3. PICK q \in PayloadsFor[req[c].key] : object[req[c].key] = Whole(q)
      BY <2>1, <3>1 DEF IInv, NoPartialObject, WholeFor
    <3>4. p = q
      BY <3>1, <3>2, <3>3 DEF ContentAddressed
    <3>5. object[req[c].key].len = res[c].bytes
      BY <3>2, <3>3, <3>4 DEF Whole
    <3> QED BY <1>2, <2>1, <3>5
  <2> QED BY <1>1, <1>4, <2>1 DEF Rehash
<1>5. CASE PutStep(c)
  <2>1. CASE PlaceObject(c)
    BY <1>2, <2>1 DEF PlaceObject, Hashed
  <2>2. CASE CheckExists(c) \/ AbortStream(c) \/ FailPut(c)
    BY <1>1, <1>3, <2>2 DEF CheckExists, AbortStream, FailPut
  <2>3. CASE \/ OpenStaging(c) \/ WriteChunk(c) \/ SyncStaging(c) \/ UnlinkStaging(c)
             \/ StageSidecar(c) \/ CommitSidecar(c)
    BY <1>1, <2>3 DEF OpenStaging, WriteChunk, SyncStaging, UnlinkStaging, StageSidecar,
       CommitSidecar
  <2> QED BY <1>5, <2>1, <2>2, <2>3 DEF PutStep
<1>6. CASE Stat(c) \/ ReadSidecar(c)
  BY <1>1, <1>2, <1>3, <1>6 DEF Stat, ReadSidecar
<1>7. CASE GetStep(c) \/ DeleteStep(c)
  BY <1>1, <1>2, <1>3, <1>7 DEF GetStep, DeleteStep, CheckFile, OpenRead, UnlinkObject,
     UnlinkSidecar
<1>8. CASE StartCall(c) \/ Return(c)
  BY <1>1, <1>3, <1>8 DEF IInv, TypeOK, StartCall, Start, StartPut, StartHead, StartGet,
     StartDelete, Return
<1>9. CASE \E d \in Calls : d # c /\ (StartCall(d) \/ CallStep(d) \/ Return(d))
  BY <1>1, <1>9, OthersStay
<1>10. CASE Upkeep \/ UNCHANGED vars
  BY <1>1, <1>3, <1>10 DEF Upkeep, Crash, Age, SweepMark, SweepUnlink, Restart, vars
<1> QED BY <1>4, <1>5, <1>6, <1>7, <1>8, <1>9, <1>10 DEF Next, CallStep, HeadStep

\* When each key is written with one payload only, the size and the etag of a reply
\* belong together, although stat, sidecar and hash are read at three times.
THEOREM RepliesAreConsistent == Spec => []ReplyConsistent
<1>1. Init => SizeInPlace /\ ReplyConsistent
  BY DEF Init, SizeInPlace, ReplyConsistent
<1> QED BY <1>1, SizeStays, RepliesStayConsistent, Invariance, PTL DEF Spec

-----------------------------------------------------------------------------
(* How the mapping sees an answer, an object and an idle step.             *)

\* An answer of the driver is a reply of the store, with the payload of what a GET sent.
LEMMA AnswerMaps ==
  ASSUME IInv, NEW c \in Calls, NEW s, NEW e, NEW n, Answer(c, s, e, n)
  PROVE  Abstract!Reply(c, s, IF s = "sent" THEN e.payload ELSE None)
<1> DEFINE image == [status |-> s, payload |-> IF s = "sent" THEN e.payload ELSE None]
<1>1. \A d \in Calls : d # c => res'[d] = res[d]
  BY DEF IInv, TypeOK
<1>2. res'[c].status = s /\ res'[c].etag = e
  BY DEF IInv, TypeOK
<1>3. \A d \in Calls : Replied'[d] = IF d = c THEN image ELSE Replied[d]
  BY <1>1, <1>2 DEF Replied
<1>4. Replied' = [Replied EXCEPT ![c] = image]
  <2> HIDE DEF image
  <2> QED BY <1>3 DEF Replied
<1> QED BY <1>4 DEF Abstract!Reply

\* Replacing one file replaces one visible object.
LEMMA ObjectMaps ==
  ASSUME IInv, NEW k \in Keys, NEW f, object' = [object EXCEPT ![k] = f]
  PROVE  Visible' = [Visible EXCEPT ![k] = IF f = None THEN None ELSE f.payload]
BY DEF IInv, TypeOK, Visible

\* A key is free in the store exactly when it has no file.
LEMMA VisibleFacts ==
  ASSUME IInv, NEW k \in Keys
  PROVE  /\ Visible[k] = None <=> object[k] = None
         /\ object[k] # None => Visible[k] = object[k].payload
<1>1. object[k] # None => object[k].payload \in Payloads
  BY DEF IInv, TypeOK, Files
<1>2. None \notin Payloads
  OBVIOUS
<1> QED BY <1>1, <1>2 DEF Visible

\* A call whose status is pending awaits its reply in the store.
LEMMA AwaitingMaps ==
  ASSUME IInv, NEW c \in Calls, pc[c] # "idle", res[c].status = "pending"
  PROVE  /\ Abstract!Awaiting(c, req[c].op)
         /\ req[c].key \in Keys
         /\ req[c] # None
<1>1. req[c] \in Requests /\ req[c].key \in Keys
  BY CallFacts
<1>2. Replied[c] = Abstract!Pending
  BY DEF Replied, Abstract!Pending
<1> QED BY <1>1, <1>2 DEF Abstract!Awaiting

-----------------------------------------------------------------------------
(* The actions that take effect.                                           *)

\* What CreateOnlyNeverOverwrites says of a step.
CreateKeeps ==
  \A c \in Calls :
    pc[c] = "place" /\ pc'[c] = "meta_stage" /\ req[c].create
      => object[req[c].key] \in {None, object'[req[c].key]}

\* The rename is the instant of a put, unless a create-only one replaces other content.
LEMMA PlaceRefines ==
  ASSUME IInv, CreateKeeps, NEW c \in Calls, PlaceObject(c)
  PROVE  Abstract!Put(c)
<1>1. pc[c] = "place" /\ req[c].op = "put" /\ res[c].status = "pending"
  BY DEF IInv, PlaceObject, RequestsInPlace, AnswersInPlace
<1>2. Abstract!Awaiting(c, "put") /\ req[c].key \in Keys
  BY <1>1, AwaitingMaps
<1>3. staging[tmp[c]] = Hashed(c) /\ Hashed(c) # None
  BY HashFacts DEF IInv, PlaceObject, StagingInPlace
<1>4. object' = [object EXCEPT ![req[c].key] = Hashed(c)]
  BY <1>3 DEF PlaceObject
<1>5. Hashed(c).payload = req[c].payload
  BY DEF Hashed
<1>6. Visible' = [Visible EXCEPT ![req[c].key] = req[c].payload]
  BY <1>2, <1>3, <1>4, <1>5, ObjectMaps
<1>7. req[c].create => Visible[req[c].key] \in {None, req[c].payload}
  <2>1. pc'[c] = "meta_stage" /\ object'[req[c].key] = Hashed(c)
    BY <1>2, <1>4 DEF PlaceObject, IInv, TypeOK
  <2>2. req[c].create => object[req[c].key] \in {None, Hashed(c)}
    BY <1>1, <2>1 DEF CreateKeeps
  <2> QED BY <1>2, <1>5, <2>2, VisibleFacts
<1>8. Abstract!Reply(c, "stored", None)
  BY AnswerMaps DEF PlaceObject
<1> QED BY <1>2, <1>6, <1>7, <1>8 DEF PlaceObject, Abstract!Put

\* A put refused at the exists check, aborted by its body or failed by the disk
\* leaves the store as it was.
LEMMA RefusalRefines ==
  ASSUME IInv, NEW c \in Calls, CheckExists(c) \/ AbortStream(c) \/ FailPut(c)
  PROVE  Abstract!RefusePut(c) \/ UNCHANGED Abstract!vars
<1>1. pc[c] # "idle" /\ req[c].op = "put" /\ res[c].status = "pending"
  <2>1. pc[c] \in {"exists", "open", "stream", "place"}
    BY DEF CheckExists, AbortStream, FailPut, Raises
  <2>2. res[c] = Pending
    BY <2>1 DEF IInv, AnswersInPlace
  <2>3. req[c].op = "put"
    BY <2>1 DEF IInv, RequestsInPlace
  <2> QED BY <2>1, <2>2, <2>3
<1>2. Abstract!Awaiting(c, "put") /\ req[c].key \in Keys
  BY <1>1, AwaitingMaps
<1>3. UNCHANGED <<Visible, req>>
  BY DEF CheckExists, AbortStream, FailPut, Visible
<1>4. CASE CheckExists(c) /\ Report(c, "exists") /\ req[c].create /\ object[req[c].key] # None
  <2>1. Abstract!Reply(c, "exists", None)
    BY <1>4, AnswerMaps
  <2> QED BY <1>2, <1>3, <1>4, <2>1, VisibleFacts DEF Abstract!RefusePut
<1>5. CASE UNCHANGED res
  BY <1>3, <1>5 DEF Replied, Abstract!vars
<1>6. CASE \E s \in PutFailures : Report(c, s)
  <2>1. PICK s \in PutFailures : Report(c, s)
    BY <1>6
  <2>2. Abstract!Reply(c, s, None)
    BY <2>1, AnswerMaps DEF PutFailures
  <2> QED BY <1>2, <1>3, <2>2 DEF Abstract!RefusePut, Abstract!PutFailures, PutFailures
<1>7. AbortStream(c) \/ FailPut(c) => \E s \in PutFailures : Report(c, s)
  BY DEF AbortStream, FailPut, PutError, PutFailures
<1>8. CheckExists(c) =>
        \/ Report(c, "exists") /\ req[c].create /\ object[req[c].key] # None
        \/ UNCHANGED res
  BY DEF IInv, CheckExists, RequestsInPlace
<1> QED BY <1>4, <1>5, <1>6, <1>7, <1>8

\* HEAD takes effect when it stats the object; the etag it adds later is not part of
\* the store's reply.
LEMMA HeadRefines ==
  ASSUME IInv, NEW c \in Calls, HeadStep(c)
  PROVE  Abstract!Head(c) \/ UNCHANGED Abstract!vars
<1>1. UNCHANGED <<Visible, req>>
  BY DEF HeadStep, Stat, ReadSidecar, Rehash, Visible
<1>2. CASE Stat(c) /\ req[c].op = "head"
  <2>1. Abstract!Awaiting(c, "head") /\ req[c].key \in Keys
    BY <1>2, AwaitingMaps DEF IInv, Stat, AnswersInPlace
  <2>2. CASE object[req[c].key] # None /\ \E n \in Nat : Answer(c, "found", None, n)
    <3>1. Abstract!Reply(c, "found", None)
      BY <2>2, AnswerMaps
    <3> QED BY <1>1, <2>1, <2>2, <3>1, VisibleFacts DEF Abstract!Head
  <2>3. CASE (object[req[c].key] = None \/ Fails("stat")) /\ Report(c, "missing")
    <3>1. Abstract!Reply(c, "missing", None)
      BY <2>3, AnswerMaps
    <3> QED BY <1>1, <2>1, <2>3, <3>1, VisibleFacts DEF Abstract!Head
  <2> QED BY <1>2, <2>2, <2>3, CallFacts DEF Stat
<1>3. CASE ~(Stat(c) /\ req[c].op = "head")
  <2>1. res[c].status \in {"exists", "found"}
    BY <1>3 DEF IInv, HeadStep, Stat, ReadSidecar, Rehash, AnswersInPlace, RequestsInPlace
  <2>2. PICK e, n : Answer(c, res[c].status, e, n) \/ UNCHANGED res
    BY <1>3 DEF HeadStep, Stat, ReadSidecar, Rehash
  <2>3. \A d \in Calls : res'[d].status = res[d].status /\ (d # c => res'[d] = res[d])
    BY <2>2 DEF IInv, TypeOK
  <2> QED BY <1>1, <2>1, <2>3 DEF Replied, Abstract!vars
<1> QED BY <1>2, <1>3

\* GET takes effect when it opens the file, or finds none.
LEMMA GetRefines ==
  ASSUME IInv, NEW c \in Calls, GetStep(c)
  PROVE  Abstract!Get(c) \/ UNCHANGED Abstract!vars
<1>1. UNCHANGED <<Visible, req>>
  BY DEF GetStep, CheckFile, OpenRead, Visible
<1>2. Abstract!Awaiting(c, "get") /\ req[c].key \in Keys
  BY AwaitingMaps DEF IInv, GetStep, CheckFile, OpenRead, AnswersInPlace, RequestsInPlace
<1>3. CASE object[req[c].key] # None /\ Answer(c, "sent", object[req[c].key], object[req[c].key].len)
  <2>1. Abstract!Reply(c, "sent", object[req[c].key].payload)
    BY <1>3, AnswerMaps
  <2> QED BY <1>1, <1>2, <1>3, <2>1, VisibleFacts DEF Abstract!Get
<1>4. CASE /\ object[req[c].key] = None \/ Faults # {}
           /\ \E s \in {"missing", "broken"} : Report(c, s)
  <2>1. PICK s \in {"missing", "broken"} : Report(c, s)
    BY <1>4
  <2>2. Abstract!Reply(c, s, None)
    BY <2>1, AnswerMaps
  <2> QED BY <1>1, <1>2, <1>4, <2>2, VisibleFacts DEF Abstract!Get
<1>5. CASE UNCHANGED res
  BY <1>1, <1>5 DEF Replied, Abstract!vars
<1> QED BY <1>3, <1>4, <1>5 DEF GetStep, CheckFile, OpenRead

\* DELETE takes effect when it unlinks the object.
LEMMA DeleteRefines ==
  ASSUME IInv, NEW c \in Calls, UnlinkObject(c)
  PROVE  Abstract!Delete(c)
<1>1. Abstract!Awaiting(c, "delete") /\ req[c].key \in Keys
  BY AwaitingMaps DEF IInv, UnlinkObject, AnswersInPlace, RequestsInPlace
<1>2. CASE /\ object[req[c].key] # None
           /\ object' = [object EXCEPT ![req[c].key] = None]
           /\ Report(c, "deleted")
  <2>1. Abstract!Reply(c, "deleted", None)
    BY <1>2, AnswerMaps
  <2>2. Visible' = [Visible EXCEPT ![req[c].key] = None]
    BY <1>1, <1>2, ObjectMaps
  <2> QED BY <1>1, <1>2, <2>1, <2>2, VisibleFacts DEF UnlinkObject, Abstract!Delete
<1>3. CASE /\ object[req[c].key] = None \/ Faults # {}
           /\ UNCHANGED object
           /\ Report(c, "absent")
  <2>1. Abstract!Reply(c, "absent", None)
    BY <1>3, AnswerMaps
  <2>2. UNCHANGED Visible
    BY <1>3 DEF Visible
  <2> QED BY <1>1, <1>3, <2>1, <2>2, VisibleFacts DEF UnlinkObject, Abstract!Delete
<1> QED BY <1>2, <1>3 DEF UnlinkObject

\* A call and its return.
LEMMA CallRefines ==
  ASSUME IInv, NEW c \in Calls, StartCall(c) \/ Return(c)
  PROVE  Abstract!Call(c) \/ Abstract!Return(c)
<1>1. CASE StartCall(c)
  <2>1. PICK r \in Requests, l \in {"exists", "open", "stat", "isfile", "unlink"} : Start(c, r, l)
    BY <1>1, StartIsCall
  <2>2. UNCHANGED <<Visible, Replied>>
    BY <2>1 DEF Start, Visible, Replied
  <2>3. req[c] = None
    BY <2>1 DEF IInv, Start, RequestsInPlace
  <2> QED BY <2>1, <2>2, <2>3 DEF Start, Requests, Abstract!Call, Abstract!Requests
<1>2. CASE Return(c)
  <2>1. UNCHANGED Visible
    BY <1>2 DEF Return, Visible
  <2>2. req[c] # None
    BY <1>2, CallFacts DEF Return
  <2>3. Replied[c] # Abstract!Pending
    BY <1>2 DEF IInv, Return, AnswersInPlace, Replied, Abstract!Pending
  <2>4. Replied' = [Replied EXCEPT ![c] = Abstract!Pending]
    BY <1>2 DEF IInv, TypeOK, Return, Replied, Abstract!Pending
  <2> QED BY <1>2, <2>1, <2>2, <2>3, <2>4 DEF Return, Abstract!Return
<1> QED BY <1>1, <1>2

\* A crash forgets the calls of its process and keeps the objects.
LEMMA CrashRefines ==
  ASSUME NEW dead \in SUBSET Calls, Crash(dead)
  PROVE  Abstract!Crash
<1>1. Visible' = Visible
  BY DEF Crash, Visible
<1>2. Replied' = [c \in Calls |-> IF c \in dead THEN Abstract!Pending ELSE Replied[c]]
  BY DEF Crash, Replied, Pending, Abstract!Pending
<1> QED BY <1>1, <1>2 DEF Crash, Abstract!Crash

-----------------------------------------------------------------------------

\* The steps that the store does not see.
LEMMA StutterRefines ==
  ASSUME UNCHANGED <<object, req, res>>
  PROVE  UNCHANGED Abstract!vars
BY DEF Visible, Replied, Abstract!vars

\* Every step of the driver that overwrites nothing it should not is a step of the
\* store, or none.
LEMMA StepRefines ==
  ASSUME IInv, [Next]_vars, [CreateKeeps]_vars
  PROVE  [Abstract!Next]_(Abstract!vars)
<1>1. ASSUME NEW c \in Calls, PutStep(c)
      PROVE  [Abstract!Next]_(Abstract!vars)
  <2>1. CASE PlaceObject(c)
    <3>1. object' # object \/ pc' # pc
      BY <2>1 DEF PlaceObject, IInv, TypeOK
    <3> QED BY <2>1, <3>1, PlaceRefines DEF Abstract!Next, vars
  <2>2. CASE CheckExists(c) \/ AbortStream(c) \/ FailPut(c)
    BY <2>2, RefusalRefines DEF Abstract!Next
  <2>3. CASE \/ OpenStaging(c) \/ WriteChunk(c) \/ SyncStaging(c) \/ UnlinkStaging(c)
             \/ StageSidecar(c) \/ CommitSidecar(c)
    BY <2>3, StutterRefines DEF OpenStaging, WriteChunk, SyncStaging, UnlinkStaging,
       StageSidecar, CommitSidecar
  <2> QED BY <1>1, <2>1, <2>2, <2>3 DEF PutStep
<1>2. ASSUME NEW c \in Calls, HeadStep(c) \/ GetStep(c) \/ DeleteStep(c)
      PROVE  [Abstract!Next]_(Abstract!vars)
  <2>1. CASE UnlinkSidecar(c)
    BY <2>1, StutterRefines DEF UnlinkSidecar
  <2> QED BY <1>2, <2>1, HeadRefines, GetRefines, DeleteRefines DEF DeleteStep, Abstract!Next
<1>3. ASSUME Upkeep
      PROVE  [Abstract!Next]_(Abstract!vars)
  <2>1. CASE \E dead \in SUBSET Calls : Crash(dead)
    BY <2>1, CrashRefines DEF Abstract!Next
  <2>2. CASE ~\E dead \in SUBSET Calls : Crash(dead)
    BY <1>3, <2>2, StutterRefines DEF Upkeep, Age, SweepMark, SweepUnlink, Restart
  <2> QED BY <2>1, <2>2
<1>4. ASSUME UNCHANGED vars
      PROVE  [Abstract!Next]_(Abstract!vars)
  BY <1>4, StutterRefines DEF vars
<1> QED BY <1>1, <1>2, <1>3, <1>4, CallRefines DEF Next, CallStep, Abstract!Next

\* The driver starts as an empty store.
LEMMA InitRefines == Init => Abstract!Init
BY DEF Init, Visible, Replied, Abstract!Init, Abstract!Pending

\* The check for existence and the rename that are not one step are all that keeps the
\* driver from being a linearizable blob store: behaviours in which no create-only put
\* replaces other content are behaviours of BlobStore, whatever content clients write
\* and whatever crashes, disk errors and sweeps happen.
THEOREM RefinementUnlessRaced == Spec /\ CreateOnlyNeverOverwrites => ImplementsBlobStore
<1>1. IInv /\ [Next]_vars /\ [CreateKeeps]_vars => [Abstract!Next]_(Abstract!vars)
  BY StepRefines
<1>2. CreateOnlyNeverOverwrites => [][CreateKeeps]_vars
  BY PTL DEF CreateOnlyNeverOverwrites, CreateKeeps
<1> QED BY <1>1, <1>2, InitRefines, Invariance, PTL DEF Spec, ImplementsBlobStore,
   Abstract!Spec

\* With one payload for each key a create-only put that lost the race replaces an object
\* by the same content.
LEMMA SameContentKeeps ==
  ASSUME IInv, ContentAddressed, [Next]_vars
  PROVE  [CreateKeeps]_vars
<1> SUFFICES ASSUME NEW c \in Calls, object[req[c].key] # None,
                    pc[c] = "place", pc'[c] = "meta_stage"
             PROVE  object[req[c].key] = object'[req[c].key]
  BY DEF CreateKeeps
<1>1. req[c].key \in Keys /\ Hashed(c) \in WholeFor(req[c].key)
  BY CallFacts, HashFacts
<1>2. object[req[c].key] = Hashed(c)
  BY <1>1 DEF IInv, NoPartialObject, WholeFor, ContentAddressed
<1>3. ASSUME object' # object
      PROVE  object'[req[c].key] = Hashed(c)
  <2>1. PICK d \in Calls : PlaceObject(d) \/ UnlinkObject(d)
    BY <1>3, ObjectChange
  <2>2. d = c
    BY <2>1, OthersStay DEF CallStep, PutStep, DeleteStep
  <2>3. PlaceObject(c) /\ staging[tmp[c]] = Hashed(c)
    BY <2>1, <2>2 DEF UnlinkObject, PlaceObject, IInv, StagingInPlace
  <2> QED BY <1>1, <2>3 DEF PlaceObject, IInv, TypeOK
<1> QED BY <1>2, <1>3

\* Hence the driver is a linearizable blob store for clients that write one payload
\* under each key.
THEOREM Refinement == ASSUME ContentAddressed PROVE Spec => ImplementsBlobStore
<1>1. IInv /\ [Next]_vars => [CreateKeeps]_vars
  BY SameContentKeeps
<1>2. [][CreateKeeps]_vars => CreateOnlyNeverOverwrites
  BY PTL DEF CreateOnlyNeverOverwrites, CreateKeeps
<1> QED BY <1>1, <1>2, RefinementUnlessRaced, Invariance, PTL DEF Spec

-----------------------------------------------------------------------------
(* Object and sidecar.  Once an object has changed, its put or delete owes *)
(* the sidecar the same change, and pays it two steps later.               *)

\* The call has changed its object and not yet the sidecar.
Settling(c) == pc[c] \in {"meta_stage", "meta_commit", "meta_unlink"}

\* No two calls are between object and sidecar of the same key.
SettlingApart ==
  \A c, d \in Calls : c # d /\ Settling(c) /\ Settling(d) => req[c].key # req[d].key

\* The server has not died, and no two calls settle the same key.
Undisturbed == SettlingApart /\ crashes = 0

\* The operations without which a sidecar does not follow its object.
SidecarFollows ==
  ~Fails("unlink") /\ ~Fails("meta_open") /\ ~Fails("meta_write") /\ ~Fails("meta_commit")

\* A settling call finds the object as it has left it.
Due ==
  \A c \in Calls :
    /\ pc[c] \in {"meta_stage", "meta_commit"} => object[req[c].key] = Hashed(c)
    /\ pc[c] = "meta_unlink" => object[req[c].key] = None

\* A key that no call settles has a sidecar for exactly the stored object.
Recorded ==
  \A k \in Keys : (\A c \in Calls : Settling(c) => req[c].key # k) => sidecar[k] = object[k]

\* Only the two last steps of put and delete change sidecars.
LEMMA SidecarChange ==
  ASSUME [Next]_vars, sidecar' # sidecar
  PROVE  \E c \in Calls : CommitSidecar(c) \/ UnlinkSidecar(c)
<1>1. ASSUME NEW c \in Calls, StartCall(c) \/ Return(c)
      PROVE  UNCHANGED sidecar
  BY <1>1 DEF StartCall, Start, StartPut, StartHead, StartGet, StartDelete, Return
<1>2. ASSUME NEW c \in Calls, PutStep(c), ~CommitSidecar(c)
      PROVE  UNCHANGED sidecar
  BY <1>2 DEF PutStep, CheckExists, OpenStaging, WriteChunk, AbortStream, SyncStaging,
     PlaceObject, FailPut, UnlinkStaging, StageSidecar
<1>3. ASSUME NEW c \in Calls, HeadStep(c) \/ GetStep(c) \/ UnlinkObject(c)
      PROVE  UNCHANGED sidecar
  BY <1>3 DEF HeadStep, GetStep, Stat, ReadSidecar, Rehash, CheckFile, OpenRead, UnlinkObject
<1>4. ASSUME Upkeep
      PROVE  UNCHANGED sidecar
  BY <1>4 DEF Upkeep, Age, SweepMark, SweepUnlink, Crash, Restart
<1> QED BY <1>1, <1>2, <1>3, <1>4 DEF Next, CallStep, DeleteStep, vars

\* Five steps only are taken by, or lead to, a call that settles.
LEMMA QuietSteps ==
  ASSUME IInv, NEW c \in Calls,
         StartCall(c) \/ Return(c) \/ HeadStep(c) \/ GetStep(c)
           \/ (PutStep(c) /\ ~PlaceObject(c) /\ ~StageSidecar(c) /\ ~CommitSidecar(c))
  PROVE  ~Settling(c) /\ ~Settling(c)'
<1>1. CASE StartCall(c) \/ Return(c)
  BY <1>1 DEF IInv, TypeOK, Settling, StartCall, Start, StartPut, StartHead, StartGet,
     StartDelete, Return
<1>2. CASE HeadStep(c) \/ GetStep(c)
  BY <1>2 DEF IInv, TypeOK, Settling, HeadStep, GetStep, Stat, ReadSidecar, Rehash,
     CheckFile, OpenRead
<1>3. CASE PutStep(c) /\ ~PlaceObject(c) /\ ~StageSidecar(c) /\ ~CommitSidecar(c)
  BY <1>3 DEF IInv, TypeOK, Settling, PutStep, CheckExists, OpenStaging, WriteChunk,
     AbortStream, SyncStaging, FailPut, UnlinkStaging, Raises
<1> QED BY <1>1, <1>2, <1>3

\* A step of one call leaves what the others have hashed.
LEMMA OthersHash ==
  ASSUME IInv, NEW c \in Calls, StartCall(c) \/ CallStep(c) \/ Return(c),
         NEW d \in Calls, d # c
  PROVE  /\ pc'[d] = pc[d]
         /\ req'[d] = req[d]
         /\ Hashed(d)' = Hashed(d)
<1>1. pc'[d] = pc[d] /\ req'[d] = req[d]
  BY OthersStay
<1>2. sent'[d] = sent[d]
  <2>1. CASE StartCall(c) \/ Return(c)
    BY <2>1 DEF IInv, TypeOK, StartCall, Start, StartPut, StartHead, StartGet, StartDelete,
       Return
  <2>2. CASE PutStep(c)
    BY <2>2 DEF IInv, TypeOK, PutStep, CheckExists, OpenStaging, WriteChunk, AbortStream,
       SyncStaging, PlaceObject, FailPut, UnlinkStaging, StageSidecar, CommitSidecar
  <2>3. CASE HeadStep(c) \/ GetStep(c) \/ DeleteStep(c)
    BY <2>3 DEF HeadStep, GetStep, DeleteStep, Stat, ReadSidecar, Rehash, CheckFile, OpenRead,
       UnlinkObject, UnlinkSidecar
  <2> QED BY <2>1, <2>2, <2>3 DEF CallStep
<1> QED BY <1>1, <1>2 DEF Hashed

\* A step that changes neither objects nor sidecars, and keeps who settles what, keeps
\* what is due and what is recorded.
LEMMA UntouchedStays ==
  ASSUME Due, Recorded, UNCHANGED <<object, sidecar>>,
         \A d \in Calls :
           \/ ~Settling(d) /\ ~Settling(d)'
           \/ pc'[d] = pc[d] /\ req'[d] = req[d] /\ Hashed(d)' = Hashed(d)
  PROVE  Due' /\ Recorded'
<1>1. Due'
  BY DEF Due, Settling
<1>2. ASSUME NEW d \in Calls, Settling(d)
      PROVE  Settling(d)' /\ req'[d] = req[d]
  BY <1>2 DEF Settling
<1>3. Recorded'
  BY <1>2 DEF Recorded
<1> QED BY <1>1, <1>3

\* Where the others are, a step of one call keeps what they are due.
LEMMA OthersDue ==
  ASSUME IInv, Due, NEW c \in Calls, StartCall(c) \/ CallStep(c) \/ Return(c),
         NEW d \in Calls, d # c,
         Settling(d) => object'[req[d].key] = object[req[d].key]
  PROVE  /\ pc'[d] \in {"meta_stage", "meta_commit"} => object'[req'[d].key] = Hashed(d)'
         /\ pc'[d] = "meta_unlink" => object'[req'[d].key] = None
BY OthersHash DEF Due, Settling

\* A key that no call settles after a step of c, and that is not the key of c, was
\* settled by none before.
LEMMA OthersSettle ==
  ASSUME IInv, NEW c \in Calls, StartCall(c) \/ CallStep(c) \/ Return(c),
         NEW k \in Keys, Settling(c) => req[c].key # k,
         \A d \in Calls : Settling(d)' => req'[d].key # k
  PROVE  \A d \in Calls : Settling(d) => req[d].key # k
<1> SUFFICES ASSUME NEW d \in Calls, d # c, Settling(d)
             PROVE  req[d].key # k
  OBVIOUS
<1>1. pc'[d] = pc[d] /\ req'[d] = req[d]
  BY OthersStay
<1> QED BY <1>1 DEF Settling

\* The rename puts in place what the call has hashed, and the key is then the call's
\* to settle.
LEMMA PlaceOwes ==
  ASSUME IInv, Due, Recorded, SettlingApart', NEW c \in Calls, PlaceObject(c)
  PROVE  Due' /\ Recorded'
<1> DEFINE k == req[c].key
<1>1. PutStep(c) /\ CallStep(c)
  BY DEF PutStep, CallStep
<1>2. k \in Keys /\ pc[c] = "place"
  BY CallFacts DEF PlaceObject
<1>3. /\ pc' = [pc EXCEPT ![c] = "meta_stage"]
      /\ UNCHANGED <<req, sent, sidecar>>
  BY DEF PlaceObject
<1>4. pc'[c] = "meta_stage" /\ Hashed(c)' = Hashed(c)
  BY <1>3 DEF IInv, TypeOK, Hashed
<1>5. object' = [object EXCEPT ![k] = Hashed(c)]
  BY <1>2 DEF PlaceObject, IInv, StagingInPlace
<1>6. \A j \in Keys : object'[j] = IF j = k THEN Hashed(c) ELSE object[j]
  BY <1>5 DEF IInv, TypeOK
<1>7. ASSUME NEW d \in Calls, d # c, Settling(d)
      PROVE  object'[req[d].key] = object[req[d].key]
  <2>1. Settling(d)' /\ Settling(c)' /\ req'[d] = req[d] /\ req'[c] = req[c]
    BY <1>1, <1>3, <1>4, <1>7, OthersStay DEF Settling
  <2>2. req[d].key # k
    BY <1>7, <2>1 DEF SettlingApart
  <2>3. req[d].key \in Keys
    BY <1>7, CallFacts DEF Settling
  <2> QED BY <1>6, <2>2, <2>3
<1>8. Due'
  <2>1. object'[req'[c].key] = Hashed(c)'
    BY <1>2, <1>3, <1>4, <1>6
  <2>2. \A d \in Calls : d # c =>
          /\ pc'[d] \in {"meta_stage", "meta_commit"} => object'[req'[d].key] = Hashed(d)'
          /\ pc'[d] = "meta_unlink" => object'[req'[d].key] = None
    BY <1>1, <1>7, OthersDue
  <2> QED BY <1>4, <2>1, <2>2 DEF Due
<1>9. Recorded'
  <2> SUFFICES ASSUME NEW j \in Keys, \A d \in Calls : Settling(d)' => req'[d].key # j
               PROVE  sidecar'[j] = object'[j]
    BY DEF Recorded
  <2>1. j # k
    BY <1>3, <1>4 DEF Settling
  <2>2. \A d \in Calls : Settling(d) => req[d].key # j
    BY <1>1, <2>1, OthersSettle
  <2> QED BY <1>3, <1>6, <2>1, <2>2 DEF Recorded
<1> QED BY <1>8, <1>9

\* An unlink that works leaves no object, whether there was one or not.
LEMMA UnlinkOwes ==
  ASSUME IInv, Due, Recorded, SettlingApart', SidecarFollows,
         NEW c \in Calls, UnlinkObject(c)
  PROVE  Due' /\ Recorded'
<1> DEFINE k == req[c].key
<1>1. DeleteStep(c) /\ CallStep(c)
  BY DEF DeleteStep, CallStep
<1>2. k \in Keys /\ pc[c] = "unlink"
  BY CallFacts DEF UnlinkObject
<1>3. /\ pc' = [pc EXCEPT ![c] = "meta_unlink"]
      /\ UNCHANGED <<req, sent, sidecar>>
  BY DEF UnlinkObject
<1>4. pc'[c] = "meta_unlink"
  BY <1>3 DEF IInv, TypeOK
<1>5. ~Fails("unlink")
  BY DEF SidecarFollows
<1>6. \A j \in Keys : object'[j] = IF j = k THEN None ELSE object[j]
  <2> HIDE DEF Fails
  <2> QED BY <1>2, <1>5 DEF UnlinkObject, IInv, TypeOK
<1>7. ASSUME NEW d \in Calls, d # c, Settling(d)
      PROVE  object'[req[d].key] = object[req[d].key]
  <2>1. Settling(d)' /\ Settling(c)' /\ req'[d] = req[d] /\ req'[c] = req[c]
    BY <1>1, <1>3, <1>4, <1>7, OthersStay DEF Settling
  <2>2. req[d].key # k
    BY <1>7, <2>1 DEF SettlingApart
  <2>3. req[d].key \in Keys
    BY <1>7, CallFacts DEF Settling
  <2> QED BY <1>6, <2>2, <2>3
<1>8. Due'
  <2>1. object'[req'[c].key] = None
    BY <1>2, <1>3, <1>6
  <2>2. \A d \in Calls : d # c =>
          /\ pc'[d] \in {"meta_stage", "meta_commit"} => object'[req'[d].key] = Hashed(d)'
          /\ pc'[d] = "meta_unlink" => object'[req'[d].key] = None
    BY <1>1, <1>7, OthersDue
  <2> QED BY <1>4, <2>1, <2>2 DEF Due
<1>9. Recorded'
  <2> SUFFICES ASSUME NEW j \in Keys, \A d \in Calls : Settling(d)' => req'[d].key # j
               PROVE  sidecar'[j] = object'[j]
    BY DEF Recorded
  <2>1. j # k
    BY <1>3, <1>4 DEF Settling
  <2>2. \A d \in Calls : Settling(d) => req[d].key # j
    BY <1>1, <2>1, OthersSettle
  <2> QED BY <1>3, <1>6, <2>1, <2>2 DEF Recorded
<1> QED BY <1>8, <1>9

\* Staging a sidecar that does not fail brings its call to the rename, nothing else.
LEMMA StageOwes ==
  ASSUME IInv, Due, Recorded, SidecarFollows, NEW c \in Calls, StageSidecar(c)
  PROVE  Due' /\ Recorded'
<1>1. PutStep(c) /\ CallStep(c)
  BY DEF PutStep, CallStep
<1>2. pc' = [pc EXCEPT ![c] = "meta_commit"]
  <2>1. ~Fails("meta_open") /\ ~Fails("meta_write")
    BY DEF SidecarFollows
  <2> HIDE DEF Fails
  <2> QED BY <2>1 DEF StageSidecar
<1>3. pc[c] = "meta_stage" /\ UNCHANGED <<object, sidecar, req, sent>>
  BY DEF StageSidecar
<1>4. pc'[c] = "meta_commit" /\ Hashed(c)' = Hashed(c)
  BY <1>2, <1>3 DEF IInv, TypeOK, Hashed
<1>5. Due'
  <2>1. object'[req'[c].key] = Hashed(c)'
    BY <1>3, <1>4 DEF Due
  <2>2. \A d \in Calls : d # c =>
          /\ pc'[d] \in {"meta_stage", "meta_commit"} => object'[req'[d].key] = Hashed(d)'
          /\ pc'[d] = "meta_unlink" => object'[req'[d].key] = None
    BY <1>1, <1>3, OthersDue
  <2> QED BY <1>4, <2>1, <2>2 DEF Due
<1>6. Recorded'
  <2> SUFFICES ASSUME NEW j \in Keys, \A d \in Calls : Settling(d)' => req'[d].key # j
               PROVE  sidecar'[j] = object'[j]
    BY DEF Recorded
  <2>1. req[c].key # j
    BY <1>3, <1>4 DEF Settling
  <2>2. \A d \in Calls : Settling(d) => req[d].key # j
    BY <1>1, <2>1, OthersSettle
  <2> QED BY <1>3, <2>2 DEF Recorded
<1> QED BY <1>5, <1>6

\* The last step of a put or delete gives the sidecar what the object has.
LEMMA LastStepPays ==
  ASSUME IInv, Due, Recorded, SidecarFollows,
         NEW c \in Calls, CommitSidecar(c) \/ UnlinkSidecar(c)
  PROVE  Due' /\ Recorded'
<1> DEFINE k == req[c].key
<1>1. CallStep(c)
  BY DEF PutStep, DeleteStep, CallStep
<1>2. k \in Keys /\ Settling(c)
  BY CallFacts DEF CommitSidecar, UnlinkSidecar, Settling
<1>3. pc' = [pc EXCEPT ![c] = "done"] /\ UNCHANGED <<object, req>>
  BY DEF CommitSidecar, UnlinkSidecar
<1>4. pc'[c] = "done"
  BY <1>3 DEF IInv, TypeOK
<1>5. ~Fails("unlink") /\ ~Fails("meta_commit")
  BY DEF SidecarFollows
<1>6. \A j \in Keys : sidecar'[j] = IF j = k THEN object[k] ELSE sidecar[j]
  <2> HIDE DEF Fails
  <2>1. CASE CommitSidecar(c)
    <3>1. object[k] = Hashed(c)
      BY <2>1 DEF Due, CommitSidecar
    <3>2. sidecar' = [sidecar EXCEPT ![k] = Hashed(c)]
      BY <1>5, <2>1 DEF CommitSidecar
    <3> QED BY <3>1, <3>2 DEF IInv, TypeOK
  <2>2. CASE UnlinkSidecar(c)
    <3>1. object[k] = None
      BY <2>2 DEF Due, UnlinkSidecar
    <3>2. sidecar' = [sidecar EXCEPT ![k] = None]
      BY <1>5, <2>2 DEF UnlinkSidecar
    <3> QED BY <3>1, <3>2 DEF IInv, TypeOK
  <2> QED BY <2>1, <2>2
<1>7. Due'
  <2>1. \A d \in Calls : d # c =>
          /\ pc'[d] \in {"meta_stage", "meta_commit"} => object'[req'[d].key] = Hashed(d)'
          /\ pc'[d] = "meta_unlink" => object'[req'[d].key] = None
    BY <1>1, <1>3, OthersDue
  <2> QED BY <1>4, <2>1 DEF Due
<1>8. Recorded'
  <2> SUFFICES ASSUME NEW j \in Keys, \A d \in Calls : Settling(d)' => req'[d].key # j
               PROVE  sidecar'[j] = object'[j]
    BY DEF Recorded
  <2>1. CASE j = k
    BY <1>2, <1>3, <1>6, <2>1
  <2>2. CASE j # k
    <3>1. \A d \in Calls : Settling(d) => req[d].key # j
      BY <1>1, <2>2, OthersSettle
    <3> QED BY <1>3, <1>6, <2>2, <3>1 DEF Recorded
  <2> QED BY <2>1, <2>2
<1> QED BY <1>7, <1>8

\* While nobody disturbs, what is due stays due until it is paid.
LEMMA DebtsStay ==
  SidecarFollows /\ IInv /\ Undisturbed' /\ Due /\ Recorded /\ [Next]_vars
    => Due' /\ Recorded'
<1> SUFFICES ASSUME SidecarFollows, IInv, Undisturbed', Due, Recorded, [Next]_vars
             PROVE  Due' /\ Recorded'
  OBVIOUS
<1>1. SettlingApart' /\ crashes' = 0
  BY DEF Undisturbed
<1>2. CASE \E c \in Calls : PlaceObject(c) \/ UnlinkObject(c)
  BY <1>1, <1>2, PlaceOwes, UnlinkOwes
<1>3. CASE \E c \in Calls : StageSidecar(c) \/ CommitSidecar(c) \/ UnlinkSidecar(c)
  BY <1>3, StageOwes, LastStepPays
<1>4. CASE /\ \A c \in Calls : ~PlaceObject(c) /\ ~UnlinkObject(c)
           /\ \A c \in Calls : ~StageSidecar(c) /\ ~CommitSidecar(c) /\ ~UnlinkSidecar(c)
  <2>1. UNCHANGED <<object, sidecar>>
    BY <1>4, ObjectChange, SidecarChange
  <2>2. CASE \E c \in Calls : StartCall(c) \/ CallStep(c) \/ Return(c)
    <3>1. PICK c \in Calls : StartCall(c) \/ CallStep(c) \/ Return(c)
      BY <2>2
    <3>2. ~Settling(c) /\ ~Settling(c)'
      BY <1>4, <3>1, QuietSteps DEF CallStep, DeleteStep
    <3>3. \A d \in Calls : d # c =>
            pc'[d] = pc[d] /\ req'[d] = req[d] /\ Hashed(d)' = Hashed(d)
      BY <3>1, OthersHash
    <3> QED BY <2>1, <3>2, <3>3, UntouchedStays
  <2>3. CASE Upkeep \/ UNCHANGED vars
    <3>1. \A dead \in SUBSET Calls : ~Crash(dead)
      BY <1>1 DEF Crash, IInv, TypeOK
    <3>2. UNCHANGED <<pc, req, sent>>
      BY <2>3, <3>1 DEF Upkeep, Age, SweepMark, SweepUnlink, Restart, vars
    <3>3. \A d \in Calls : pc'[d] = pc[d] /\ req'[d] = req[d] /\ Hashed(d)' = Hashed(d)
      BY <3>2 DEF Hashed
    <3> QED BY <2>1, <3>3, UntouchedStays
  <2> QED BY <2>2, <2>3 DEF Next
<1> QED BY <1>2, <1>3, <1>4

\* As long as the server lives, the sidecar's own operations work and no two calls are
\* between object and sidecar of the same key, whatever else overlaps or fails, the
\* sidecars describe exactly the stored objects once no call is in flight.
THEOREM SidecarsAreExact ==
  ASSUME SidecarFollows
  PROVE  Spec /\ []Undisturbed => []QuiescentSidecarExact
<1>1. Init => Due /\ Recorded
  BY DEF Init, Due, Recorded, Settling
<1>2. IInv /\ Undisturbed' /\ Due /\ Recorded /\ [Next]_vars => Due' /\ Recorded'
  BY DebtsStay
<1>3. Recorded => QuiescentSidecarExact
  BY DEF Recorded, QuiescentSidecarExact, Quiet, Settling
<1> QED BY <1>1, <1>2, <1>3, Invariance, PTL DEF Spec

\* In particular calls that do not overlap leave the sidecars exact.
THEOREM OneCallAtATime ==
  ASSUME SidecarFollows, \A c, d \in Calls : c = d
  PROVE  Spec /\ [](crashes = 0) => []QuiescentSidecarExact
<1>1. crashes = 0 => Undisturbed
  BY DEF Undisturbed, SettlingApart
<1> QED BY <1>1, SidecarsAreExact, PTL

-----------------------------------------------------------------------------
(* Create-only puts.  Between its check and its rename such a put counts   *)
(* on the key to stay free, which only another put of the key can disturb. *)

\* The put is past its check, if it has one, and not yet in place: it fills its file.
Filling(c) == pc[c] \in {"open", "stream", "place"}

\* No two puts of one key are past their checks at the same time.
WritersApart ==
  \A c, d \in Calls : c # d /\ Filling(c) /\ Filling(d) => req[c].key # req[d].key

\* A create-only put that is past its check has a free key.
KeyIsFree == \A c \in Calls : Filling(c) /\ req[c].create => object[req[c].key] = None

\* A call that begins to write either has no check to pass or begins with it.
LEMMA StartsUnchecked ==
  ASSUME IInv, NEW c \in Calls, StartCall(c), Filling(c)'
  PROVE  ~req'[c].create
<1>1. PICK k \in Keys :
          \/ \E p \in Payloads, create \in BOOLEAN : StartPut(c, k, p, create)
          \/ StartHead(c, k) \/ StartGet(c, k) \/ StartDelete(c, k)
  BY DEF StartCall
<1>2. CASE \E p \in Payloads, create \in BOOLEAN : StartPut(c, k, p, create)
  <2>1. PICK p \in Payloads, create \in BOOLEAN : StartPut(c, k, p, create)
    BY <1>2
  <2>2. pc'[c] = IF create THEN "exists" ELSE "open"
    BY <2>1 DEF StartPut, Start, IInv, TypeOK
  <2>3. ~create
    BY <2>2 DEF Filling
  <2> QED BY <2>1, <2>3 DEF StartPut, Start, IInv, TypeOK
<1>3. CASE StartHead(c, k) \/ StartGet(c, k) \/ StartDelete(c, k)
  BY <1>3 DEF StartHead, StartGet, StartDelete, Start, IInv, TypeOK, Filling
<1> QED BY <1>1, <1>2, <1>3

\* A create-only put that writes after a step wrote before it, or has just been told
\* that there is no object.
LEMMA BeginsToWrite ==
  ASSUME IInv, ~Fails("stat"), NEW c \in Calls, StartCall(c) \/ CallStep(c) \/ Return(c),
         Filling(c)', req'[c].create
  PROVE  /\ req'[c] = req[c]
         /\ Filling(c) \/ (CheckExists(c) /\ object[req[c].key] = None)
<1> USE DEF IInv, TypeOK, Filling
<1>1. ~StartCall(c) /\ ~Return(c)
  <2>1. ~StartCall(c)
    BY StartsUnchecked
  <2>2. ~Return(c)
    BY DEF Return
  <2> QED BY <2>1, <2>2
<1>2. ~HeadStep(c) /\ ~GetStep(c) /\ ~DeleteStep(c)
  BY DEF HeadStep, GetStep, DeleteStep, Stat, ReadSidecar, Rehash, CheckFile, OpenRead,
     UnlinkObject, UnlinkSidecar
<1>3. PutStep(c)
  BY <1>1, <1>2 DEF CallStep
<1>4. CASE CheckExists(c)
  <2>1. object[req[c].key] # None => pc'[c] = "stat"
    <3> HIDE DEF Fails
    <3> QED BY <1>4 DEF CheckExists
  <2>2. UNCHANGED req
    BY <1>4 DEF CheckExists
  <2> QED BY <1>4, <2>1, <2>2
<1>5. CASE OpenStaging(c) \/ WriteChunk(c) \/ SyncStaging(c)
  BY <1>5 DEF OpenStaging, WriteChunk, SyncStaging
<1>6. CASE AbortStream(c) \/ FailPut(c) \/ UnlinkStaging(c)
  BY <1>6 DEF AbortStream, FailPut, UnlinkStaging
<1>7. CASE PlaceObject(c) \/ StageSidecar(c) \/ CommitSidecar(c)
  BY <1>7 DEF PlaceObject, StageSidecar, CommitSidecar
<1> QED BY <1>3, <1>4, <1>5, <1>6, <1>7 DEF PutStep

\* While no two puts write to one key, the keys of create-only puts stay free.
LEMMA KeysStayFree ==
  ASSUME ~Fails("stat"), IInv, WritersApart, WritersApart', KeyIsFree, [Next]_vars
  PROVE  KeyIsFree'
<1> SUFFICES ASSUME NEW c \in Calls, Filling(c)', req'[c].create
             PROVE  object'[req'[c].key] = None
  BY DEF KeyIsFree
<1>1. /\ req'[c] = req[c]
      /\ Filling(c) \/ (CheckExists(c) /\ object[req[c].key] = None)
  <2>1. CASE StartCall(c) \/ CallStep(c) \/ Return(c)
    BY <2>1, BeginsToWrite
  <2>2. CASE \E d \in Calls : d # c /\ (StartCall(d) \/ CallStep(d) \/ Return(d))
    BY <2>2, OthersStay DEF Filling
  <2>3. CASE Upkeep
    <3>1. ASSUME NEW dead \in SUBSET Calls, Crash(dead)
          PROVE  pc'[c] = pc[c] /\ req'[c] = req[c]
      BY <3>1 DEF Crash, Filling
    <3>2. CASE ~\E dead \in SUBSET Calls : Crash(dead)
      BY <2>3, <3>2 DEF Upkeep, Age, SweepMark, SweepUnlink, Restart, Filling
    <3> QED BY <3>1, <3>2 DEF Filling
  <2>4. CASE UNCHANGED vars
    BY <2>4 DEF vars, Filling
  <2> QED BY <2>1, <2>2, <2>3, <2>4 DEF Next
<1>2. object[req[c].key] = None
  BY <1>1 DEF KeyIsFree
<1>3. req[c].key \in Keys
  <2>1. pc[c] # "idle"
    BY <1>1 DEF Filling, CheckExists
  <2> QED BY <2>1, CallFacts
<1>4. ASSUME NEW d \in Calls, PlaceObject(d)
      PROVE  object'[req[c].key] = object[req[c].key]
  <2>1. Filling(d)
    BY <1>4 DEF PlaceObject, Filling
  <2>2. d # c
    BY <1>4 DEF PlaceObject, Filling, IInv, TypeOK
  <2>3. ~CheckExists(c)
    <3>1. pc'[c] = pc[c]
      BY <1>4, <2>2, OthersStay DEF CallStep, PutStep
    <3> QED BY <3>1 DEF CheckExists, Filling
  <2>4. req[d].key # req[c].key
    BY <1>1, <2>1, <2>2, <2>3 DEF WritersApart
  <2> QED BY <1>4, <2>4 DEF PlaceObject, IInv, TypeOK
<1>5. ASSUME NEW d \in Calls, UnlinkObject(d)
      PROVE  object'[req[c].key] = None
  BY <1>2, <1>3, <1>5 DEF UnlinkObject, IInv, TypeOK
<1> QED BY <1>1, <1>2, <1>4, <1>5, ObjectChange

\* Clients that do not let two puts of one key overlap never see a create-only put
\* overwrite, provided that stat works: os.path.exists takes an error for an absence.
THEOREM CreatesKeep ==
  ASSUME ~Fails("stat")
  PROVE  Spec /\ []WritersApart => CreateOnlyNeverOverwrites
<1>1. Init => KeyIsFree
  BY DEF Init, KeyIsFree, Filling
<1>2. IInv /\ WritersApart /\ WritersApart' /\ KeyIsFree /\ [Next]_vars => KeyIsFree'
  BY KeysStayFree
<1>3. KeyIsFree => CreateKeeps
  BY DEF KeyIsFree, CreateKeeps, Filling
<1> QED BY <1>1, <1>2, <1>3, Invariance, PTL DEF Spec, CreateOnlyNeverOverwrites, CreateKeeps

\* For such clients the driver is a linearizable blob store, whatever they write.
THEOREM RefinementForApartWriters ==
  ASSUME ~Fails("stat")
  PROVE  Spec /\ []WritersApart => ImplementsBlobStore
BY CreatesKeep, RefinementUnlessRaced, PTL

=============================================================================
