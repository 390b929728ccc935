---------------------------- MODULE LocalFsDriver ----------------------------
(***************************************************************************)
(* LocalFsBlobDriver (src/drivers/local_fs.py) and the files under its     *)
(* root: objects, JSON sidecars in .meta, staging files in .tmp, and the   *)
(* sweeper of stale staging files (paths.py, main.py).  Every await of     *)
(* asyncio.to_thread is a point where other calls run, so each of them is  *)
(* an action of its own.  The server runs one worker process or several;   *)
(* one or all of them may be killed at any point and are started again     *)
(* with the files as they are.                                             *)
(*                                                                         *)
(* A payload is a value whose length is counted in chunks.  SHA-256 is     *)
(* taken to be injective: the etag of a file is the file itself, i.e. the  *)
(* payload and how much of it was written.                                 *)
(***************************************************************************)
EXTENDS Naturals

CONSTANTS
  Calls,         \* slots for driver calls in flight
  Keys,          \* "bucket/key" names, each a distinct path (no directory conflicts)
  Payloads,      \* contents that clients upload
  Size,          \* [Payloads -> Nat]: length of a payload in chunks
  PayloadsFor,   \* [Keys -> SUBSET Payloads]: what clients upload under a key
  Uuids,         \* names uuid4() hands out for staging files
  Faults,        \* <<operation, errno>> pairs the file system may answer
  EtagLimit,     \* _ETAG_FALLBACK_MAX_BYTES, in chunks
  MaxCrashes,    \* bound on the number of crashes
  None           \* no file, no call, no name

Errnos == {"ENOSPC", "EIO"}
Operations == {"open", "write", "sync", "place", "unlink", "stat", "read",
               "meta_open", "meta_write", "meta_commit", "meta_read", "sweep"}

Files == [payload: Payloads, len: Nat]
Requests == [op: {"put", "head", "get", "delete"}, key: Keys,
             payload: Payloads \cup {None}, create: BOOLEAN]

ASSUME SizeAssumption == Size \in [Payloads -> Nat]
ASSUME PayloadsForAssumption == PayloadsFor \in [Keys -> SUBSET Payloads]
ASSUME FaultsAssumption == Faults \subseteq Operations \X Errnos
ASSUME BoundsAssumption == EtagLimit \in Nat /\ MaxCrashes \in Nat
ASSUME NoneAssumption ==
  None \notin Files \cup Requests \cup Payloads \cup Uuids

VARIABLES
  object,        \* [Keys -> Files \cup {None}]: <root>/<bucket>/<key>
  sidecar,       \* [Keys -> Files \cup {None}]: etag and bytes in .meta/<bucket>/<key>.json
  staging,       \* [Uuids -> Files \cup {None}]: .tmp/<uuid>
  stale,         \* staging files not written to for an hour
  doomed,        \* staging name the sweeper found stale and is about to remove
  metaOrphan,    \* keys with an ownerless <key>.json.<uuid>.tmp beside the sidecar
  up,            \* the server is running
  crashes,       \* number of crashes so far, of the server or of a worker
  pc,            \* where each call is
  req,           \* the request each call serves
  sent,          \* chunks of the body hashed and written so far
  tmp,           \* staging name each put has chosen
  res            \* what the call will answer: status, etag, bytes

files == <<object, sidecar, staging, stale, metaOrphan>>
server == <<up, crashes>>
locals == <<pc, req, sent, tmp, res>>
vars == <<files, doomed, server, locals>>

-----------------------------------------------------------------------------
Whole(p) == [payload |-> p, len |-> Size[p]]
WholeFor(k) == {Whole(p) : p \in PayloadsFor[k]}

\* What the hasher of a put has seen, and so the file its etag stands for.
Hashed(c) == [payload |-> req[c].payload, len |-> sent[c]]

Fails(operation) == \E e \in Errnos : <<operation, e>> \in Faults

\* Mutant of PutError: an error other than a full disk is logged and forgotten.
PutErrorForgotten(e) == IF e = "ENOSPC" THEN "insufficient_storage" ELSE "stored"

\* Only a full disk is told apart from the other errors.
PutError(e) == IF e = "ENOSPC" THEN "insufficient_storage" ELSE "io_error"

PutFailures == {"aborted", "insufficient_storage", "io_error"}

Pending == [status |-> "pending", etag |-> None, bytes |-> 0]

\* Mutant of FreshUuid: staging names are not unique to a call.
FreshUuidShared(u) == doomed # u

\* uuid4 never returns a name that a file, a call or the sweeper still holds.
FreshUuid(u) ==
  /\ staging[u] = None
  /\ doomed # u
  /\ \A c \in Calls : tmp[c] # u

At(c, label) == up /\ pc[c] = label
Goto(c, label) == pc' = [pc EXCEPT ![c] = label]
Answer(c, status, etag, bytes) ==
  res' = [res EXCEPT ![c] = [status |-> status, etag |-> etag, bytes |-> bytes]]
\* An answer without an object: a refusal, an error, "absent", "missing".
Report(c, status) == Answer(c, status, None, 0)

-----------------------------------------------------------------------------
Init ==
  /\ object = [k \in Keys |-> None]
  /\ sidecar = [k \in Keys |-> None]
  /\ staging = [u \in Uuids |-> None]
  /\ stale = {}
  /\ doomed = None
  /\ metaOrphan = {}
  /\ up = TRUE
  /\ crashes = 0
  /\ pc = [c \in Calls |-> "idle"]
  /\ req = [c \in Calls |-> None]
  /\ sent = [c \in Calls |-> 0]
  /\ tmp = [c \in Calls |-> None]
  /\ res = [c \in Calls |-> Pending]

-----------------------------------------------------------------------------
(* Calls into the driver and their return.                                 *)

Start(c, r, label) ==
  /\ At(c, "idle")
  /\ req' = [req EXCEPT ![c] = r]
  /\ Goto(c, label)
  /\ UNCHANGED <<files, doomed, server, sent, tmp, res>>

\* create: the call passes if_none_match="*".
StartPut(c, k, p, create) ==
  /\ p \in PayloadsFor[k]
  /\ Start(c, [op |-> "put", key |-> k, payload |-> p, create |-> create],
           IF create THEN "exists" ELSE "open")

StartHead(c, k) ==
  Start(c, [op |-> "head", key |-> k, payload |-> None, create |-> FALSE], "stat")

StartGet(c, k) ==
  Start(c, [op |-> "get", key |-> k, payload |-> None, create |-> FALSE], "isfile")

StartDelete(c, k) ==
  Start(c, [op |-> "delete", key |-> k, payload |-> None, create |-> FALSE], "unlink")

Return(c) ==
  /\ At(c, "done")
  /\ Goto(c, "idle")
  /\ req' = [req EXCEPT ![c] = None]
  /\ sent' = [sent EXCEPT ![c] = 0]
  /\ res' = [res EXCEPT ![c] = Pending]
  /\ UNCHANGED <<files, doomed, server, tmp>>

-----------------------------------------------------------------------------
(* put                                                                     *)

\* os.path.exists answers False when stat fails.
CheckExists(c) ==
  /\ At(c, "exists")
  /\ \/ /\ object[req[c].key] # None
        /\ Report(c, "exists")
        /\ Goto(c, "stat")
     \/ /\ object[req[c].key] = None \/ Fails("stat")
        /\ Goto(c, "open")
        /\ UNCHANGED res
  /\ UNCHANGED <<files, doomed, server, req, sent, tmp>>

OpenStaging(c) ==
  /\ At(c, "open")
  /\ \E u \in Uuids :
       /\ FreshUuid(u)
       /\ tmp' = [tmp EXCEPT ![c] = u]
       /\ staging' = [staging EXCEPT ![u] = Hashed(c)]
  /\ Goto(c, "stream")
  /\ UNCHANGED <<object, sidecar, stale, metaOrphan, doomed, server, req, sent, res>>

\* The open file outlives its name: a chunk written after the sweeper took the
\* name away goes to an unlinked inode.
WriteChunk(c) ==
  /\ At(c, "stream")
  /\ sent[c] < Size[req[c].payload]
  /\ sent' = [sent EXCEPT ![c] = @ + 1]
  /\ staging' = [staging EXCEPT ![tmp[c]] = IF @ = None THEN None
                                           ELSE [Hashed(c) EXCEPT !.len = @ + 1]]
  /\ stale' = stale \ {tmp[c]}
  /\ UNCHANGED <<object, sidecar, metaOrphan, doomed, server, pc, req, tmp, res>>

\* Mutant of AbortStream: only OSError is cleaned up after.
AbortStreamNoCleanup(c) ==
  /\ At(c, "stream")
  /\ Report(c, "aborted")
  /\ Goto(c, "done")
  /\ tmp' = [tmp EXCEPT ![c] = None]
  /\ UNCHANGED <<files, doomed, server, req, sent>>

\* Mutant of AbortStream: what arrived before the disconnect is put in place.
AbortStreamKeepsPart(c) ==
  /\ At(c, "stream")
  /\ Report(c, "aborted")
  /\ Goto(c, "place")
  /\ UNCHANGED <<files, doomed, server, req, sent, tmp>>

\* The body raises: payload_too_large from counting_stream, or ClientDisconnect.
AbortStream(c) ==
  /\ At(c, "stream")
  /\ Report(c, "aborted")
  /\ Goto(c, "cleanup")
  /\ UNCHANGED <<files, doomed, server, req, sent, tmp>>

\* Mutant of SyncStaging: a short read is taken for the end of the body.
SyncStagingEarly(c) ==
  /\ At(c, "stream")
  /\ Goto(c, "place")
  /\ UNCHANGED <<files, doomed, server, req, sent, tmp, res>>

\* End of the body: flush, fsync, close.
SyncStaging(c) ==
  /\ At(c, "stream")
  /\ sent[c] = Size[req[c].payload]
  /\ Goto(c, "place")
  /\ UNCHANGED <<files, doomed, server, req, sent, tmp, res>>

\* makedirs and rename.
PlaceObject(c) ==
  /\ At(c, "place")
  /\ staging[tmp[c]] # None
  /\ object' = [object EXCEPT ![req[c].key] = staging[tmp[c]]]
  /\ staging' = [staging EXCEPT ![tmp[c]] = None]
  /\ stale' = stale \ {tmp[c]}
  /\ tmp' = [tmp EXCEPT ![c] = None]
  /\ Answer(c, "stored", Hashed(c), sent[c])
  /\ Goto(c, "meta_stage")
  /\ UNCHANGED <<sidecar, metaOrphan, doomed, server, req, sent>>

\* The step of a put that may raise OSError e; the rename does when the sweeper
\* took the staging name.
Raises(c, e) ==
  \/ At(c, "open") /\ <<"open", e>> \in Faults
  \/ /\ At(c, "stream")
     /\ IF sent[c] < Size[req[c].payload] THEN <<"write", e>> \in Faults
                                         ELSE <<"sync", e>> \in Faults
  \/ /\ At(c, "place")
     /\ \/ <<"place", e>> \in Faults
        \/ e = "ENOENT" /\ staging[tmp[c]] = None

\* The except clause.  When open fails the finally clause has nothing to unlink.
FailPut(c) ==
  /\ \E e \in Errnos \cup {"ENOENT"} : Raises(c, e) /\ Report(c, PutError(e))
  /\ Goto(c, IF pc[c] = "open" THEN "done" ELSE "cleanup")
  /\ UNCHANGED <<files, doomed, server, req, sent, tmp>>

\* The finally clause of a put that did not rename; its own failure is ignored.
UnlinkStaging(c) ==
  /\ At(c, "cleanup")
  /\ \/ /\ staging' = [staging EXCEPT ![tmp[c]] = None]
        /\ stale' = stale \ {tmp[c]}
     \/ Fails("unlink") /\ UNCHANGED <<staging, stale>>
  /\ tmp' = [tmp EXCEPT ![c] = None]
  /\ Goto(c, "done")
  /\ UNCHANGED <<object, sidecar, metaOrphan, doomed, server, req, sent, res>>

\* _write_sidecar, first half: makedirs, open and write the staging file.
StageSidecar(c) ==
  /\ At(c, "meta_stage")
  /\ \/ Goto(c, "meta_commit") /\ UNCHANGED metaOrphan
     \/ Fails("meta_open") /\ Goto(c, "done") /\ UNCHANGED metaOrphan
     \/ /\ Fails("meta_write")
        /\ metaOrphan' = metaOrphan \cup {req[c].key}
        /\ Goto(c, "done")
  /\ UNCHANGED <<object, sidecar, staging, stale, doomed, server, req, sent, tmp, res>>

\* Second half: rename over the sidecar.  A failure is swallowed and leaves the
\* staging file where it is.
CommitSidecar(c) ==
  /\ At(c, "meta_commit")
  /\ \/ /\ sidecar' = [sidecar EXCEPT ![req[c].key] = Hashed(c)]
        /\ UNCHANGED metaOrphan
     \/ /\ Fails("meta_commit")
        /\ metaOrphan' = metaOrphan \cup {req[c].key}
        /\ UNCHANGED sidecar
  /\ Goto(c, "done")
  /\ UNCHANGED <<object, staging, stale, doomed, server, req, sent, tmp, res>>

-----------------------------------------------------------------------------
(* head, also called by a create-only put that found the key taken.        *)

Stat(c) ==
  /\ At(c, "stat")
  /\ \/ /\ object[req[c].key] # None
        /\ Answer(c, IF req[c].op = "head" THEN "found" ELSE res[c].status,
                  None, object[req[c].key].len)
        /\ Goto(c, "meta_read")
     \/ /\ object[req[c].key] = None \/ Fails("stat")
        /\ Report(c, IF req[c].op = "head" THEN "missing" ELSE res[c].status)
        /\ Goto(c, "done")
  /\ UNCHANGED <<files, doomed, server, req, sent, tmp>>

\* Mutant of ReadSidecar: an object without a sidecar is taken for an upload under
\* way, and waited for.
ReadSidecarPolls(c) ==
  /\ At(c, "meta_read")
  /\ sidecar[req[c].key] # None
  /\ Answer(c, res[c].status, sidecar[req[c].key], sidecar[req[c].key].len)
  /\ Goto(c, "done")
  /\ UNCHANGED <<files, doomed, server, req, sent, tmp>>

ReadSidecar(c) ==
  /\ At(c, "meta_read")
  /\ \/ /\ sidecar[req[c].key] # None
        /\ Answer(c, res[c].status, sidecar[req[c].key], sidecar[req[c].key].len)
        /\ Goto(c, "done")
     \/ /\ sidecar[req[c].key] = None \/ Fails("meta_read")
        /\ Goto(c, "rehash")
        /\ UNCHANGED res
  /\ UNCHANGED <<files, doomed, server, req, sent, tmp>>

\* The fallback without a sidecar: hash the file that has the name by now, unless
\* the one seen by stat was large.
Rehash(c) ==
  /\ At(c, "rehash")
  /\ \/ /\ res[c].bytes <= EtagLimit
        /\ object[req[c].key] # None
        /\ Answer(c, res[c].status, object[req[c].key], res[c].bytes)
     \/ /\ res[c].bytes > EtagLimit \/ object[req[c].key] = None \/ Fails("read")
        /\ UNCHANGED res
  /\ Goto(c, "done")
  /\ UNCHANGED <<files, doomed, server, req, sent, tmp>>

-----------------------------------------------------------------------------
(* get: the reply begins after isfile; the file is opened when the body is *)
(* first asked for, and then read to its end whatever happens to its name. *)

CheckFile(c) ==
  /\ At(c, "isfile")
  /\ \/ /\ object[req[c].key] # None
        /\ Goto(c, "open_read")
        /\ UNCHANGED res
     \/ /\ object[req[c].key] = None \/ Fails("stat")
        /\ Report(c, "missing")
        /\ Goto(c, "done")
  /\ UNCHANGED <<files, doomed, server, req, sent, tmp>>

OpenRead(c) ==
  /\ At(c, "open_read")
  /\ \/ /\ object[req[c].key] # None
        /\ Answer(c, "sent", object[req[c].key], object[req[c].key].len)
     \/ /\ object[req[c].key] = None \/ Fails("read")
        /\ Report(c, "broken")
  /\ Goto(c, "done")
  /\ UNCHANGED <<files, doomed, server, req, sent, tmp>>

-----------------------------------------------------------------------------
(* delete: unlink the object, then its sidecar; errors count as "absent".  *)

\* Mutant of UnlinkObject: an unlink that failed counts as a removal.
UnlinkObjectOptimist(c) ==
  /\ At(c, "unlink")
  /\ \/ /\ object[req[c].key] # None
        /\ Report(c, "deleted")
        /\ \/ object' = [object EXCEPT ![req[c].key] = None]
           \/ Fails("unlink") /\ UNCHANGED object
     \/ /\ object[req[c].key] = None
        /\ Report(c, "absent")
        /\ UNCHANGED object
  /\ Goto(c, "meta_unlink")
  /\ UNCHANGED <<sidecar, staging, stale, metaOrphan, doomed, server, req, sent, tmp>>

UnlinkObject(c) ==
  /\ At(c, "unlink")
  /\ \/ /\ object[req[c].key] # None
        /\ object' = [object EXCEPT ![req[c].key] = None]
        /\ Report(c, "deleted")
     \/ /\ object[req[c].key] = None \/ Fails("unlink")
        /\ Report(c, "absent")
        /\ UNCHANGED object
  /\ Goto(c, "meta_unlink")
  /\ UNCHANGED <<sidecar, staging, stale, metaOrphan, doomed, server, req, sent, tmp>>

\* Mutant of UnlinkSidecar: the sidecar outlives its object.
UnlinkSidecarForgotten(c) ==
  /\ At(c, "meta_unlink")
  /\ Goto(c, "done")
  /\ UNCHANGED <<files, doomed, server, req, sent, tmp, res>>

UnlinkSidecar(c) ==
  /\ At(c, "meta_unlink")
  /\ \/ sidecar' = [sidecar EXCEPT ![req[c].key] = None]
     \/ Fails("unlink") /\ UNCHANGED sidecar
  /\ Goto(c, "done")
  /\ UNCHANGED <<object, staging, stale, metaOrphan, doomed, server, req, sent, tmp, res>>

-----------------------------------------------------------------------------
(* The sweeper of .tmp, the clock, crash and restart.                      *)

\* An hour goes by without a write to a staging file.
Age(u) ==
  /\ staging[u] # None
  /\ u \notin stale
  /\ stale' = stale \cup {u}
  /\ UNCHANGED <<object, sidecar, staging, metaOrphan, doomed, server, locals>>

\* Mutant of SweepMark: .tmp is swept at start-up only.
SweepMarkNever(u) ==
  /\ up
  /\ doomed = None
  /\ u \in stale \ Uuids
  /\ doomed' = u
  /\ UNCHANGED <<files, server, locals>>

\* One turn of the loop of cleanup_stale_tmp: getmtime, then remove.
SweepMark(u) ==
  /\ up
  /\ doomed = None
  /\ u \in stale
  /\ doomed' = u
  /\ UNCHANGED <<files, server, locals>>

SweepUnlink ==
  /\ up
  /\ doomed # None
  /\ \/ /\ staging' = [staging EXCEPT ![doomed] = None]
        /\ stale' = stale \ {doomed}
     \/ Fails("sweep") /\ UNCHANGED <<staging, stale>>
  /\ doomed' = None
  /\ UNCHANGED <<object, sidecar, metaOrphan, server, locals>>

\* The server dies, or one of several worker processes (WORKERS) and the calls it served;
\* uvicorn starts another worker, whose sweep is one more pass of the sweeper.
Crash(dead) ==
  /\ up
  /\ crashes < MaxCrashes
  /\ crashes' = crashes + 1
  /\ \/ dead = Calls /\ up' = FALSE /\ doomed' = None
     \/ up' = up /\ doomed' \in {doomed, None}
  /\ metaOrphan' = metaOrphan \cup {req[c].key : c \in {d \in dead : pc[d] = "meta_commit"}}
  /\ pc' = [c \in Calls |-> IF c \in dead THEN "idle" ELSE pc[c]]
  /\ req' = [c \in Calls |-> IF c \in dead THEN None ELSE req[c]]
  /\ sent' = [c \in Calls |-> IF c \in dead THEN 0 ELSE sent[c]]
  /\ tmp' = [c \in Calls |-> IF c \in dead THEN None ELSE tmp[c]]
  /\ res' = [c \in Calls |-> IF c \in dead THEN Pending ELSE res[c]]
  /\ UNCHANGED <<object, sidecar, staging, stale>>

\* lifespan sweeps .tmp once before it serves; a file it cannot remove stays.
Restart ==
  /\ ~up
  /\ \E swept \in SUBSET stale :
       /\ swept = stale \/ Fails("sweep")
       /\ staging' = [u \in Uuids |-> IF u \in swept THEN None ELSE staging[u]]
       /\ stale' = stale \ swept
  /\ up' = TRUE
  /\ UNCHANGED <<object, sidecar, metaOrphan, doomed, crashes, locals>>

-----------------------------------------------------------------------------
PutStep(c) ==
  \/ CheckExists(c) \/ OpenStaging(c) \/ WriteChunk(c) \/ AbortStream(c)
  \/ SyncStaging(c) \/ PlaceObject(c) \/ FailPut(c) \/ UnlinkStaging(c)
  \/ StageSidecar(c) \/ CommitSidecar(c)

HeadStep(c) == Stat(c) \/ ReadSidecar(c) \/ Rehash(c)
GetStep(c) == CheckFile(c) \/ OpenRead(c)
DeleteStep(c) == UnlinkObject(c) \/ UnlinkSidecar(c)
CallStep(c) == PutStep(c) \/ HeadStep(c) \/ GetStep(c) \/ DeleteStep(c)

StartCall(c) ==
  \E k \in Keys :
    \/ \E p \in Payloads, create \in BOOLEAN : StartPut(c, k, p, create)
    \/ StartHead(c, k) \/ StartGet(c, k) \/ StartDelete(c, k)

Upkeep ==
  \/ \E u \in Uuids : Age(u) \/ SweepMark(u)
  \/ SweepUnlink
  \/ \E dead \in SUBSET Calls : Crash(dead)
  \/ Restart

Next ==
  \/ \E c \in Calls : StartCall(c) \/ CallStep(c) \/ Return(c)
  \/ Upkeep

Spec == Init /\ [][Next]_vars

(***************************************************************************)
(* Time passes, the container is restarted, and a pass of the sweeper      *)
(* visits every name of .tmp before it sleeps again: hence strong fairness *)
(* for each name.  Nothing is assumed of clients or of calls in flight.    *)
(***************************************************************************)
UpkeepFairness ==
  /\ WF_vars(Restart)
  /\ WF_vars(SweepUnlink)
  /\ \A u \in Uuids : WF_vars(Age(u)) /\ SF_vars(SweepMark(u))

-----------------------------------------------------------------------------
(* Properties.                                                             *)

Labels == {"idle", "exists", "open", "stream", "place", "cleanup", "meta_stage",
           "meta_commit", "stat", "meta_read", "rehash", "isfile", "open_read",
           "unlink", "meta_unlink", "done"}

Statuses == {"pending", "stored", "exists", "found", "missing", "sent", "broken",
             "deleted", "absent"} \cup PutFailures

Replies == [status: Statuses, etag: Files \cup {None}, bytes: Nat]

\* The type of the state.
TypeOK ==
  /\ object \in [Keys -> Files \cup {None}]
  /\ sidecar \in [Keys -> Files \cup {None}]
  /\ staging \in [Uuids -> Files \cup {None}]
  /\ stale \in SUBSET Uuids
  /\ doomed \in Uuids \cup {None}
  /\ metaOrphan \in SUBSET Keys
  /\ up \in BOOLEAN
  /\ crashes \in 0..MaxCrashes
  /\ pc \in [Calls -> Labels]
  /\ req \in [Calls -> Requests \cup {None}]
  /\ sent \in [Calls -> Nat]
  /\ tmp \in [Calls -> Uuids \cup {None}]
  /\ res \in [Calls -> Replies]

\* Whatever calls interleave, the sweeper removes or a crash cuts short, a visible
\* object is a complete payload that some client uploaded under that very key.
NoPartialObject ==
  \A k \in Keys : object[k] # None => object[k] \in WholeFor(k)

\* A sidecar is never the record of an unfinished or misplaced upload: its etag
\* and byte count are those of a complete payload uploaded under its key.
SidecarHonest ==
  \A k \in Keys : sidecar[k] # None => sidecar[k] \in WholeFor(k)

\* No reply of put, head or get carries an etag that no complete upload under the
\* key ever had, even when the object was replaced while the reply was computed.
AnswerHonest ==
  \A c \in Calls : res[c].etag # None => res[c].etag \in WholeFor(req[c].key)

\* Clients that name objects by their content write one payload under each key.
ContentAddressed ==
  \A k \in Keys : \A p, q \in PayloadsFor[k] : p = q

\* Under content-addressed keys the stored etag is that of the stored bytes at
\* every instant, through crashes, failed sidecar writes and racing deletes.
EtagTruthful ==
  ContentAddressed =>
    \A k \in Keys : object[k] # None /\ sidecar[k] # None => sidecar[k] = object[k]

\* Under content-addressed keys the byte count of a reply is the length of the
\* content its etag names, although stat, sidecar and hash are read at three times.
ReplyConsistent ==
  ContentAddressed =>
    \A c \in Calls : res[c].etag # None => res[c].bytes = res[c].etag.len

\* While the process has not crashed and unlink works, every staging file belongs
\* to a put in flight: no failure, refusal or disconnect leaves one behind.
NoStagingLeak ==
  crashes = 0 /\ ~Fails("unlink") =>
    \A u \in Uuids : staging[u] # None => \E c \in Calls : tmp[c] = u

\* A put that answers an error, or has not answered, has not touched the object,
\* and an object once visible goes away only by a delete of its key.
OnlyCallsOnKeyChangeIt ==
  [][\A k \in Keys : object'[k] # object[k] =>
       \E c \in Calls :
         /\ req[c] # None /\ req[c].key = k
         /\ res[c].status = "pending"
         /\ \/ req[c].op = "put" /\ res'[c].status = "stored" /\ object'[k] = res'[c].etag
            \/ req[c].op = "delete" /\ res'[c].status = "deleted" /\ object'[k] = None]_vars

Quiet == \A c \in Calls : pc[c] = "idle"

\* When no call is in flight the sidecar describes exactly the stored object.
QuiescentSidecarExact ==
  Quiet => \A k \in Keys : sidecar[k] = object[k]

\* if_none_match="*" fails if the key exists: a create-only put never replaces
\* the content of an object.
CreateOnlyNeverOverwrites ==
  [][\A c \in Calls :
       pc[c] = "place" /\ pc'[c] = "meta_stage" /\ req[c].create
         => object[req[c].key] \in {None, object'[req[c].key]}]_vars

Orphan(u) == staging[u] # None /\ \A c \in Calls : tmp[c] # u

\* A staging file that a crash or a failed unlink left behind is removed in the end.
OrphanEventuallySwept ==
  \A u \in Uuids : Orphan(u) ~> staging[u] = None

-----------------------------------------------------------------------------
(* The inductive invariant behind the safety properties: what a call at    *)
(* each label has done.  LocalFsDriverProofs proves it.                    *)

\* A call has a request while it runs, and runs only the steps of its verb.  The
\* steps of head also serve a create-only put that found its key taken.
RequestsInPlace ==
  \A c \in Calls :
    /\ pc[c] = "idle" <=> req[c] = None
    /\ pc[c] \in {"exists", "open", "stream", "place", "cleanup", "meta_stage", "meta_commit"}
         => /\ req[c].op = "put"
            /\ req[c].payload \in PayloadsFor[req[c].key]
    /\ pc[c] = "exists" => req[c].create
    /\ pc[c] \in {"stat", "meta_read", "rehash"} => req[c].op \in {"put", "head"}
    /\ pc[c] \in {"isfile", "open_read"} => req[c].op = "get"
    /\ pc[c] \in {"unlink", "meta_unlink"} => req[c].op = "delete"

\* A call answers when it takes effect, not before and not twice.
AnswersInPlace ==
  \A c \in Calls :
    /\ pc[c] \in {"idle", "exists", "open", "stream", "place", "isfile", "open_read", "unlink"}
         => res[c] = Pending
    /\ pc[c] \in {"cleanup", "meta_stage", "meta_commit", "meta_unlink", "done"}
         => res[c].status # "pending"
    /\ pc[c] \in {"meta_read", "rehash"} => res[c].status \in {"exists", "found"}
    /\ pc[c] = "stat" => res[c].status = IF req[c].op = "put" THEN "exists" ELSE "pending"

\* What has been hashed when a put opens, renames and records its file.
HashInPlace ==
  \A c \in Calls :
    /\ pc[c] \in {"idle", "exists", "open"} => sent[c] = 0
    /\ pc[c] \in {"place", "meta_stage", "meta_commit"} => sent[c] = Size[req[c].payload]

\* A put owns its staging name, shares it with no other call, and finds there what
\* it has written so far, unless the sweeper took the file away.
StagingInPlace ==
  \A c \in Calls :
    /\ pc[c] \in {"stream", "place", "cleanup"} <=> tmp[c] # None
    /\ \A d \in Calls : c # d /\ tmp[c] # None => tmp[c] # tmp[d]
    /\ pc[c] \in {"stream", "place", "cleanup"} => staging[tmp[c]] \in {None, Hashed(c)}

\* Under content-addressed keys, the size HEAD has taken from stat is that of the
\* one payload the key can have.
SizeInPlace ==
  ContentAddressed =>
    \A c \in Calls : pc[c] \in {"meta_read", "rehash"} =>
      \E p \in PayloadsFor[req[c].key] : res[c].bytes = Size[p]

IInv ==
  /\ TypeOK
  /\ RequestsInPlace
  /\ AnswersInPlace
  /\ HashInPlace
  /\ StagingInPlace
  /\ NoPartialObject
  /\ SidecarHonest
  /\ AnswerHonest

-----------------------------------------------------------------------------
(* Refinement: the instant at which a call takes effect is the one that    *)
(* sets its status (exists and stat for a refused create and a head, the   *)
(* rename for a put, unlink for a delete, open for a get).                 *)

Visible == [k \in Keys |-> IF object[k] = None THEN None ELSE object[k].payload]

Replied ==
  [c \in Calls |-> [status |-> res[c].status,
                   payload |-> IF res[c].status = "sent" THEN res[c].etag.payload ELSE None]]

Abstract == INSTANCE BlobStore WITH
  store <- Visible, ask <- req, reply <- Replied, DiskMayFail <- Faults # {}

\* The driver is a linearizable blob store: every put, head, get and delete takes
\* effect at one instant, with the answer that the store of BlobStore gives.
ImplementsBlobStore == Abstract!Spec

=============================================================================
