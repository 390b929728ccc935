---------------------------- MODULE DurableWrite ----------------------------
(***************************************************************************)
(* One key of LocalFsBlobDriver (src/drivers/local_fs.py) below the level  *)
(* of names: inodes, what of them has reached the disk, and the directory  *)
(* as it is and as a power loss would leave it.  put fsyncs the object and *)
(* neither the sidecar nor a directory.                                    *)
(*                                                                         *)
(* Errors, the staging sweep and other keys are in LocalFsDriver.  The     *)
(* file system is a journaling one: its directory changes become durable   *)
(* in order and a rename as a whole, but they do not wait for file data.   *)
(***************************************************************************)
EXTENDS Naturals

CONSTANTS
  Puts, Deletes, \* the calls of a behaviour; each runs once
  Payloads,      \* contents that clients upload
  Size,          \* [Payloads -> Nat \ {0}]: length of a payload in chunks
  MaxDeaths,     \* bound on kills and power losses
  None

ASSUME SizeAssumption == Size \in [Payloads -> Nat \ {0}]
ASSUME CallsAssumption == Puts \cap Deletes = {}
ASSUME DeathsAssumption == MaxDeaths \in Nat
ASSUME NoneAssumption == None \notin Payloads \cup (Puts \X {"object", "sidecar"})

Calls == Puts \cup Deletes
Inodes == Puts \X {"object", "sidecar"}
Object == <<"object", None>>
Sidecar == <<"sidecar", None>>
Names == {Object, Sidecar} \cup ({".tmp", ".json.tmp"} \X Puts)

VARIABLES
  inode,         \* [Inodes -> content: payload, length, length on the disk]
  dir,           \* [Names -> Inodes \cup {None}]: the directories as processes see them
  journal,       \* the same, as a power loss would leave them
  pc, payload,   \* where each call is, and what a put uploads
  fd,            \* the inode each put is writing
  sent,          \* chunks of the body written
  reader,        \* the inode a reader of the object has open, or None
  got,           \* what it has read so far: payloads and number of chunks
  eof,           \* it has met the end of the file
  deaths,        \* number of kills and power losses
  lost           \* there was a power loss

disk == <<inode, dir, journal>>
locals == <<pc, payload, fd, sent>>
reading == <<reader, got, eof>>
vars == <<disk, locals, reading, deaths, lost>>

-----------------------------------------------------------------------------
Empty == [payload |-> None, len |-> 0, durable |-> 0]
Nothing == [payloads |-> {}, len |-> 0]

Init ==
  /\ inode = [i \in Inodes |-> Empty]
  /\ dir = [n \in Names |-> None]
  /\ journal = dir
  /\ pc = [c \in Calls |-> "idle"]
  /\ payload = [c \in Puts |-> None]
  /\ fd = [c \in Puts |-> None]
  /\ sent = [c \in Puts |-> 0]
  /\ reader = None
  /\ got = Nothing
  /\ eof = FALSE
  /\ deaths = 0
  /\ lost = FALSE

Goto(c, label) == pc' = [pc EXCEPT ![c] = label]

StartPut(c, p) ==
  /\ pc[c] = "idle"
  /\ payload' = [payload EXCEPT ![c] = p]
  /\ Goto(c, "open")
  /\ UNCHANGED <<disk, fd, sent, reading, deaths, lost>>

StartDelete(c) ==
  /\ pc[c] = "idle"
  /\ Goto(c, "unlink")
  /\ UNCHANGED <<disk, payload, fd, sent, reading, deaths, lost>>

-----------------------------------------------------------------------------
(* put                                                                     *)

\* new_tmp_path: a uuid, so a name of this call only.
StagingName(c) == <<".tmp", c>>

\* Mutant of SidecarStagingName: one staging name for all sidecars of the key.
SidecarStagingNameShared(c) == <<".json.tmp", CHOOSE d \in Puts : TRUE>>

\* "uuid (not PID-only)": the same for the sidecar.
SidecarStagingName(c) == <<".json.tmp", c>>

\* open(name, "w") makes an inode, or truncates the one that has the name.
Open(c, name, kind) ==
  LET i == IF dir[name] = None THEN <<c, kind>> ELSE dir[name] IN
  /\ dir' = [dir EXCEPT ![name] = i]
  /\ inode' = [inode EXCEPT ![i] = Empty]
  /\ fd' = [fd EXCEPT ![c] = i]

Rename(from, to) == dir' = [dir EXCEPT ![to] = dir[from], ![from] = None]

OpenStaging(c) ==
  /\ pc[c] = "open"
  /\ Open(c, StagingName(c), "object")
  /\ Goto(c, "stream")
  /\ UNCHANGED <<journal, payload, sent, reading, deaths, lost>>

WriteChunk(c) ==
  /\ pc[c] = "stream"
  /\ sent[c] < Size[payload[c]]
  /\ sent' = [sent EXCEPT ![c] = @ + 1]
  /\ inode' = [inode EXCEPT ![fd[c]].payload = payload[c], ![fd[c]].len = sent[c] + 1]
  /\ UNCHANGED <<dir, journal, pc, payload, fd, reading, deaths, lost>>

\* Mutant of Sync: the body is not fsynced.
SyncForgotten(c) ==
  /\ pc[c] = "stream"
  /\ sent[c] = Size[payload[c]]
  /\ Goto(c, "place")
  /\ UNCHANGED <<disk, payload, fd, sent, reading, deaths, lost>>

\* flush, fsync and close.
Sync(c) ==
  /\ pc[c] = "stream"
  /\ sent[c] = Size[payload[c]]
  /\ inode' = [inode EXCEPT ![fd[c]].durable = inode[fd[c]].len]
  /\ Goto(c, "place")
  /\ UNCHANGED <<dir, journal, payload, fd, sent, reading, deaths, lost>>

\* Mutant of PlaceObject: the previous object is removed first.
PlaceObjectRemoving(c) ==
  /\ pc[c] = "place"
  /\ IF dir[Object] # None
     THEN dir' = [dir EXCEPT ![Object] = None] /\ UNCHANGED pc
     ELSE Rename(StagingName(c), Object) /\ Goto(c, "meta_open")
  /\ UNCHANGED <<inode, journal, payload, fd, sent, reading, deaths, lost>>

\* makedirs and rename.
PlaceObject(c) ==
  /\ pc[c] = "place"
  /\ Rename(StagingName(c), Object)
  /\ Goto(c, "meta_open")
  /\ UNCHANGED <<inode, journal, payload, fd, sent, reading, deaths, lost>>

\* _atomic_write_text: the text, one chunk of it, is written on close.
OpenSidecar(c) ==
  /\ pc[c] = "meta_open"
  /\ Open(c, SidecarStagingName(c), "sidecar")
  /\ Goto(c, "meta_write")
  /\ UNCHANGED <<journal, payload, sent, reading, deaths, lost>>

WriteSidecar(c) ==
  /\ pc[c] = "meta_write"
  /\ inode' = [inode EXCEPT ![fd[c]].payload = payload[c], ![fd[c]].len = 1]
  /\ Goto(c, "meta_commit")
  /\ UNCHANGED <<dir, journal, payload, fd, sent, reading, deaths, lost>>

\* rename; should the staging file be gone, the error is swallowed.
CommitSidecar(c) ==
  /\ pc[c] = "meta_commit"
  /\ IF dir[SidecarStagingName(c)] = None
     THEN UNCHANGED dir
     ELSE Rename(SidecarStagingName(c), Sidecar)
  /\ Goto(c, "done")
  /\ UNCHANGED <<inode, journal, payload, fd, sent, reading, deaths, lost>>

-----------------------------------------------------------------------------
(* delete                                                                  *)

Unlink(name, c, label) ==
  /\ dir' = [dir EXCEPT ![name] = None]
  /\ Goto(c, label)
  /\ UNCHANGED <<inode, journal, payload, fd, sent, reading, deaths, lost>>

UnlinkObject(c) == pc[c] = "unlink" /\ Unlink(Object, c, "meta_unlink")
UnlinkSidecar(c) == pc[c] = "meta_unlink" /\ Unlink(Sidecar, c, "deleted")

-----------------------------------------------------------------------------
(* head                                                                    *)

Whole(p) == [payload |-> p, len |-> IF p = None THEN 0 ELSE Size[p]]

\* Mutant of Readable: what is there is used, complete or not.
ReadableLax(i) == i # None

\* A sidecar that is cut short is no JSON, and as good as none.
Readable(i) == i # None /\ inode[i].len = 1

\* The file whose hash head answers, of an object below _ETAG_FALLBACK_MAX_BYTES.
HeadEtag ==
  IF Readable(dir[Sidecar]) THEN Whole(inode[dir[Sidecar]].payload)
  ELSE [payload |-> inode[dir[Object]].payload, len |-> inode[dir[Object]].len]

-----------------------------------------------------------------------------
(* A reader of the object: _stream_file, or nginx.                         *)

OpenObject ==
  /\ reader = None
  /\ dir[Object] # None
  /\ reader' = dir[Object]
  /\ got' = Nothing
  /\ eof' = FALSE
  /\ UNCHANGED <<disk, locals, deaths, lost>>

\* Mutant of ReadChunk: the name is looked up again for each chunk.
ReadChunkByName ==
  /\ reader # None
  /\ ~eof
  /\ dir[Object] # None
  /\ IF got.len < inode[dir[Object]].len
     THEN /\ got' = [payloads |-> got.payloads \cup {inode[dir[Object]].payload},
                     len |-> got.len + 1]
          /\ UNCHANGED eof
     ELSE eof' = TRUE /\ UNCHANGED got
  /\ UNCHANGED <<disk, locals, reader, deaths, lost>>

\* It reads on in the inode it has opened, whatever becomes of the name.
ReadChunk ==
  /\ reader # None
  /\ ~eof
  /\ IF got.len < inode[reader].len
     THEN /\ got' = [payloads |-> got.payloads \cup {inode[reader].payload},
                     len |-> got.len + 1]
          /\ UNCHANGED eof
     ELSE eof' = TRUE /\ UNCHANGED got
  /\ UNCHANGED <<disk, locals, reader, deaths, lost>>

CloseObject ==
  /\ eof
  /\ reader' = None
  /\ got' = Nothing
  /\ eof' = FALSE
  /\ UNCHANGED <<disk, locals, deaths, lost>>

-----------------------------------------------------------------------------
(* The disk, and deaths.                                                   *)

\* The kernel writes data back when it likes, with or before or after the names.
Writeback(i) ==
  /\ inode[i].durable < inode[i].len
  /\ inode' = [inode EXCEPT ![i].durable = @ + 1]
  /\ UNCHANGED <<dir, journal, locals, reading, deaths, lost>>

CommitJournal ==
  /\ journal # dir
  /\ journal' = dir
  /\ UNCHANGED <<inode, dir, locals, reading, deaths, lost>>

\* What was in flight ends, and the next process starts.
Restart(untouched) ==
  /\ deaths < MaxDeaths
  /\ deaths' = deaths + 1
  /\ pc' = [c \in Calls |-> IF pc[c] \in untouched THEN pc[c] ELSE "past"]
  /\ reader' = None
  /\ got' = Nothing
  /\ eof' = FALSE
  /\ fd' = [c \in Puts |-> None]
  /\ sent' = [c \in Puts |-> 0]
  /\ UNCHANGED payload

Kill == Restart({"idle", "done", "deleted"}) /\ UNCHANGED <<disk, lost>>

PowerLoss ==
  /\ Restart({"idle"})
  /\ inode' = [i \in Inodes |-> IF inode[i].durable = 0 THEN Empty
                                ELSE [inode[i] EXCEPT !.len = inode[i].durable]]
  /\ dir' = journal
  /\ UNCHANGED journal
  /\ lost' = TRUE

Put(c) ==
  \/ OpenStaging(c) \/ WriteChunk(c) \/ Sync(c) \/ PlaceObject(c)
  \/ OpenSidecar(c) \/ WriteSidecar(c) \/ CommitSidecar(c)

Delete(c) == UnlinkObject(c) \/ UnlinkSidecar(c)

Next ==
  \/ \E c \in Puts : (\E p \in Payloads : StartPut(c, p)) \/ Put(c)
  \/ \E c \in Deletes : StartDelete(c) \/ Delete(c)
  \/ OpenObject \/ ReadChunk \/ CloseObject
  \/ (\E i \in Inodes : Writeback(i)) \/ CommitJournal
  \/ Kill \/ PowerLoss

Spec == Init /\ [][Next]_vars

-----------------------------------------------------------------------------
(* Properties.                                                             *)

Labels == {"idle", "open", "stream", "place", "meta_open", "meta_write", "meta_commit",
           "unlink", "meta_unlink", "done", "deleted", "past"}
Contents == [payload: Payloads \cup {None}, len: Nat, durable: Nat]

TypeOK ==
  /\ inode \in [Inodes -> Contents]
  /\ \A i \in Inodes : inode[i].durable <= inode[i].len
  /\ dir \in [Names -> Inodes \cup {None}]
  /\ journal \in [Names -> Inodes \cup {None}]
  /\ pc \in [Calls -> Labels]
  /\ payload \in [Puts -> Payloads \cup {None}]
  /\ fd \in [Puts -> Inodes \cup {None}]
  /\ sent \in [Puts -> Nat]
  /\ \A c \in Puts : sent[c] > 0 => payload[c] \in Payloads /\ sent[c] <= Size[payload[c]]
  /\ reader \in Inodes \cup {None}
  /\ got \in [payloads: SUBSET Payloads, len: Nat]
  /\ eof \in BOOLEAN
  /\ deaths \in 0..MaxDeaths
  /\ lost \in BOOLEAN

\* What is visible under the key is a complete upload, also after a power loss: the
\* body is on the disk before its name can be.
ObjectWhole ==
  dir[Object] # None =>
    LET file == inode[dir[Object]] IN
    file.payload \in Payloads /\ file.len = Size[file.payload]

\* Whoever reads the object to its end has read one complete upload, however often it
\* was replaced or deleted in the meantime.
ReadsWhole ==
  eof => \E p \in Payloads : got = [payloads |-> {p}, len |-> Size[p]]

\* A sidecar is cut short by a power loss only, never by overlapping puts and never by
\* a kill.
SidecarTornByLossOnly ==
  dir[Sidecar] # None /\ inode[dir[Sidecar]].len = 0 => lost

\* The etag head reports is that of a complete upload, whatever a power loss has left of
\* the object and its sidecar.
HeadNamesAnUpload ==
  dir[Object] # None => HeadEtag \in {Whole(p) : p \in Payloads}

\* Unless somebody deletes it, a key does not vanish again: overwrites leave no gap, and
\* a power loss takes away only uploads that the journal has never held.
NeverVanishes ==
  (\A c \in Deletes : pc[c] = "idle") =>
    ((journal[Object] # None \/ \E c \in Calls : pc[c] = "done") => dir[Object] # None)

=============================================================================
