--------------------------- MODULE DurableWriteProofs ---------------------------
(***************************************************************************)
(* Theorems about DurableWrite, for any number of puts and deletes of a    *)
(* key, contents of any length, and any number of kills and power losses.  *)
(***************************************************************************)
EXTENDS DurableWrite, TLAPS

-----------------------------------------------------------------------------
(* The inductive invariant.                                                *)

Body(c) == <<c, "object">>
Meta(c) == <<c, "sidecar">>
Bodies == Puts \X {"object"}
Metas == Puts \X {"sidecar"}

\* Every name has an inode of its own kind.
Sorted(d) ==
  /\ d[Object] \in Bodies \cup {None}
  /\ d[Sidecar] \in Metas \cup {None}
  /\ \A c \in Puts : /\ d[StagingName(c)] \in {None, Body(c)}
                     /\ d[SidecarStagingName(c)] \in {None, Meta(c)}

NamesSorted ==
  /\ Sorted(dir)
  /\ Sorted(journal)
  /\ reader \in Bodies \cup {None}

Unplaced == {"idle", "open", "stream", "place"}
Unwritten == Unplaced \cup {"meta_open"}
Uncommitted == Unwritten \cup {"meta_write", "meta_commit"}

\* No inode is visible before its call has come to the rename, and none has a name
\* before it was opened.
OwnInodes(c) ==
  /\ pc[c] \in {"idle", "open"} =>
       \A n \in Names : dir[n] # Body(c) /\ journal[n] # Body(c)
  /\ pc[c] \in Unplaced =>
       dir[Object] # Body(c) /\ journal[Object] # Body(c) /\ reader # Body(c)
  /\ pc[c] \in Unwritten =>
       \A n \in Names : dir[n] # Meta(c) /\ journal[n] # Meta(c)
  /\ pc[c] \in Uncommitted =>
       dir[Sidecar] # Meta(c) /\ journal[Sidecar] # Meta(c)

\* An inode is what its call has written so far.
OwnWrites(c) ==
  /\ pc[c] \notin {"idle", "past"} => payload[c] \in Payloads
  /\ pc[c] \in {"idle", "open"} => sent[c] = 0
  /\ pc[c] \in {"stream", "place"} => dir[StagingName(c)] = Body(c)
  /\ pc[c] = "stream" =>
       /\ fd[c] = Body(c)
       /\ inode[Body(c)].len = sent[c]
       /\ sent[c] > 0 => inode[Body(c)].payload = payload[c]
  /\ pc[c] = "place" =>
       /\ inode[Body(c)].payload = payload[c]
       /\ inode[Body(c)].len = Size[payload[c]]
       /\ inode[Body(c)].durable = Size[payload[c]]
  /\ pc[c] \in {"meta_write", "meta_commit"} =>
       fd[c] = Meta(c) /\ dir[SidecarStagingName(c)] = Meta(c)
  /\ pc[c] = "meta_commit" => inode[Meta(c)].len = 1
  /\ inode[Meta(c)].len \in {0, 1}
  /\ inode[Meta(c)].len = 1 => inode[Meta(c)].payload \in Payloads

\* Complete, and on the disk.
WholeInode(i) ==
  /\ inode[i].payload \in Payloads
  /\ inode[i].len = Size[inode[i].payload]
  /\ inode[i].durable = inode[i].len

VisibleWhole ==
  /\ dir[Object] # None => WholeInode(dir[Object])
  /\ journal[Object] # None => WholeInode(journal[Object])
  /\ reader # None => WholeInode(reader)

SidecarsWritten ==
  ~lost => /\ dir[Sidecar] # None => inode[dir[Sidecar]].len = 1
           /\ journal[Sidecar] # None => inode[journal[Sidecar]].len = 1

\* A reader has read from the one inode it has opened.
ReaderInPlace ==
  /\ reader = None => got = Nothing /\ ~eof
  /\ reader # None =>
       /\ got.len <= inode[reader].len
       /\ got.payloads = IF got.len = 0 THEN {} ELSE {inode[reader].payload}
       /\ eof => got.len = inode[reader].len

\* Until somebody deletes, what was placed is there.
PlacedStays ==
  /\ \A c \in Deletes : pc[c] = "idle"
  /\ \/ journal[Object] # None
     \/ \E c \in Puts : pc[c] \in {"meta_open", "meta_write", "meta_commit", "done"}
  => dir[Object] # None

DeletesInPlace ==
  \A c \in Deletes : pc[c] \in {"idle", "unlink", "meta_unlink", "deleted", "past"}

IInv ==
  /\ TypeOK
  /\ NamesSorted
  /\ \A c \in Puts : OwnInodes(c) /\ OwnWrites(c)
  /\ VisibleWhole
  /\ SidecarsWritten
  /\ ReaderInPlace
  /\ PlacedStays
  /\ DeletesInPlace

-----------------------------------------------------------------------------
LEMMA Distinct ==
  ASSUME NEW c \in Puts
  PROVE  /\ {Object, Sidecar, StagingName(c), SidecarStagingName(c)} \subseteq Names
         /\ Body(c) \in Inodes /\ Meta(c) \in Inodes
         /\ Body(c) \in Bodies /\ Meta(c) \in Metas
         /\ Body(c) # None /\ Meta(c) # None
         /\ c \in Calls /\ c \notin Deletes
BY CallsAssumption, NoneAssumption
   DEF Object, Sidecar, StagingName, SidecarStagingName, Names, Body, Meta, Bodies, Metas,
       Inodes, Calls

LEMMA InitInv == Init => IInv
<1> SUFFICES ASSUME Init PROVE IInv
  OBVIOUS
<1> USE DEF Init
<1>1. \A n \in Names : dir[n] = None /\ journal[n] = None
  OBVIOUS
<1>2. \A i \in Inodes : inode[i] = Empty
  OBVIOUS
<1>3. TypeOK
  <2>1. Empty \in Contents /\ Empty.durable <= Empty.len
    BY DEF Empty, Contents
  <2>2. inode \in [Inodes -> Contents] /\ \A i \in Inodes : inode[i].durable <= inode[i].len
    BY <1>2, <2>1
  <2>3. Nothing \in [payloads: SUBSET Payloads, len: Nat]
    BY DEF Nothing
  <2>4. \A c \in Puts : sent[c] > 0 => payload[c] \in Payloads /\ sent[c] <= Size[payload[c]]
    OBVIOUS
  <2>5. deaths \in 0..MaxDeaths /\ "idle" \in Labels
    BY DeathsAssumption DEF Labels
  <2>6. dir \in [Names -> Inodes \cup {None}] /\ journal \in [Names -> Inodes \cup {None}]
    OBVIOUS
  <2>7. /\ pc \in [Calls -> Labels] /\ payload \in [Puts -> Payloads \cup {None}]
        /\ fd \in [Puts -> Inodes \cup {None}] /\ sent \in [Puts -> Nat]
    BY <2>5
  <2>8. reader \in Inodes \cup {None} /\ eof \in BOOLEAN /\ lost \in BOOLEAN
    OBVIOUS
  <2>9. got \in [payloads: SUBSET Payloads, len: Nat]
    BY <2>3
  <2> QED BY <2>2, <2>4, <2>5, <2>6, <2>7, <2>8, <2>9 DEF TypeOK
<1>4. NamesSorted
  BY <1>1, Distinct DEF NamesSorted, Sorted, Object, Sidecar, Names
<1>5. ASSUME NEW c \in Puts PROVE OwnInodes(c) /\ OwnWrites(c)
  BY <1>1, <1>2, Distinct DEF OwnInodes, OwnWrites, Empty
<1>6. VisibleWhole /\ SidecarsWritten /\ PlacedStays
  BY <1>1, Distinct DEF VisibleWhole, SidecarsWritten, PlacedStays, Object, Sidecar, Names, Calls
<1>7. ReaderInPlace /\ DeletesInPlace
  BY DEF ReaderInPlace, DeletesInPlace, Calls
<1> QED BY <1>3, <1>4, <1>5, <1>6, <1>7 DEF IInv

-----------------------------------------------------------------------------
(* Steps of a put.                                                         *)

\* What the step of one put leaves of another.
LEMMA OtherPut ==
  ASSUME IInv, NEW c \in Puts, NEW d \in Puts, d # c,
         pc'[d] = pc[d], payload'[d] = payload[d], sent'[d] = sent[d], fd'[d] = fd[d],
         inode'[Body(d)] = inode[Body(d)], inode'[Meta(d)] = inode[Meta(d)],
         dir'[StagingName(d)] = dir[StagingName(d)],
         dir'[SidecarStagingName(d)] = dir[SidecarStagingName(d)],
         \A n \in Names : dir'[n] \in {dir[n], None, Body(c), Meta(c)} \/ \E m \in Names : dir'[n] = dir[m],
         dir'[Object] \in {dir[Object], None, Body(c)},
         dir'[Sidecar] \in {dir[Sidecar], None, Meta(c)},
         UNCHANGED <<journal, reader>>
  PROVE  OwnInodes(d)' /\ OwnWrites(d)'
<1>1. /\ Body(d) # Body(c) /\ Body(d) # Meta(c) /\ Body(d) # None
      /\ Meta(d) # Body(c) /\ Meta(d) # Meta(c) /\ Meta(d) # None
  BY Distinct DEF Body, Meta
<1>2. OwnInodes(d) /\ OwnWrites(d)
  BY DEF IInv
<1>3. OwnInodes(d)'
  BY <1>1, <1>2 DEF OwnInodes
<1>4. OwnWrites(d)'
  BY <1>2 DEF OwnWrites
<1> QED BY <1>3, <1>4

\* What a put does to its body before the rename is seen by nobody.
LEMMA UnplacedInvisible ==
  ASSUME IInv, NEW c \in Puts, pc[c] \in Unplaced,
         \A i \in Inodes : i # Body(c) => inode'[i] = inode[i],
         dir'[Object] = dir[Object], dir'[Sidecar] = dir[Sidecar],
         UNCHANGED <<journal, reader, got, eof, lost>>
  PROVE  VisibleWhole' /\ SidecarsWritten' /\ ReaderInPlace'
<1>1. dir[Object] # Body(c) /\ journal[Object] # Body(c) /\ reader # Body(c)
  BY DEF IInv, OwnInodes
<1>2. dir[Sidecar] # Body(c) /\ journal[Sidecar] # Body(c)
  <2>1. {dir[Sidecar], journal[Sidecar]} \subseteq Metas \cup {None}
    BY DEF IInv, NamesSorted, Sorted
  <2>2. Body(c) \notin Metas \cup {None}
    BY Distinct DEF Metas, Body
  <2> QED BY <2>1, <2>2
<1>3. {dir[Object], journal[Object], reader, dir[Sidecar], journal[Sidecar]} \subseteq Inodes \cup {None}
  BY Distinct DEF IInv, TypeOK, Object, Sidecar, Names
<1> QED BY <1>1, <1>2, <1>3
        DEF IInv, VisibleWhole, WholeInode, SidecarsWritten, ReaderInPlace

\* Nor is what it does to its sidecar before that has its name.
LEMMA UncommittedInvisible ==
  ASSUME IInv, NEW c \in Puts, pc[c] \in Uncommitted,
         \A i \in Inodes : i # Meta(c) => inode'[i] = inode[i],
         dir'[Object] = dir[Object], dir'[Sidecar] = dir[Sidecar],
         UNCHANGED <<journal, reader, got, eof, lost>>
  PROVE  VisibleWhole' /\ SidecarsWritten' /\ ReaderInPlace'
<1>1. dir[Sidecar] # Meta(c) /\ journal[Sidecar] # Meta(c)
  BY DEF IInv, OwnInodes
<1>2. dir[Object] # Meta(c) /\ journal[Object] # Meta(c) /\ reader # Meta(c)
  BY Distinct DEF IInv, NamesSorted, Sorted, Bodies, Meta
<1>3. {dir[Object], journal[Object], reader, dir[Sidecar], journal[Sidecar]} \subseteq Inodes \cup {None}
  BY Distinct DEF IInv, TypeOK, Object, Sidecar, Names
<1> QED BY <1>1, <1>2, <1>3
        DEF IInv, VisibleWhole, WholeInode, SidecarsWritten, ReaderInPlace

\* A content is its three fields.
LEMMA Rewritten ==
  ASSUME NEW x \in Contents, NEW p \in Payloads, NEW n \in Nat
  PROVE  [x EXCEPT !.payload = p, !.len = n] = [payload |-> p, len |-> n, durable |-> x.durable]
<1> DEFINE y == [x EXCEPT !.payload = p, !.len = n]
<1>1. y \in Contents
  BY DEF Contents
<1>2. y.payload = p /\ y.len = n /\ y.durable = x.durable
  BY DEF Contents
<1> HIDE DEF y
<1>3. y = [payload |-> y.payload, len |-> y.len, durable |-> y.durable]
  BY <1>1 DEF Contents
<1>4. y = [payload |-> p, len |-> n, durable |-> x.durable]
  BY <1>2, <1>3
<1> QED BY <1>4 DEF y

LEMMA StartPutInv ==
  ASSUME IInv, NEW c \in Puts, NEW p \in Payloads, StartPut(c, p)
  PROVE  IInv'
<1>1. /\ pc[c] = "idle" /\ pc' = [pc EXCEPT ![c] = "open"]
      /\ payload' = [payload EXCEPT ![c] = p]
      /\ UNCHANGED <<inode, dir, journal, fd, sent, reader, got, eof, deaths, lost>>
  BY DEF StartPut, Goto, disk, reading
<1>2. TypeOK'
  <2>1. \A d \in Puts : sent'[d] > 0 => payload'[d] \in Payloads /\ sent'[d] <= Size[payload'[d]]
    BY <1>1 DEF IInv, TypeOK, OwnWrites
  <2>2. pc' \in [Calls -> Labels] /\ payload' \in [Puts -> Payloads \cup {None}]
    BY <1>1 DEF IInv, TypeOK, Labels
  <2> QED BY <1>1, <2>1, <2>2 DEF IInv, TypeOK
<1>3. OwnInodes(c)' /\ OwnWrites(c)'
  BY <1>1, Distinct DEF IInv, TypeOK, OwnInodes, OwnWrites, Unplaced, Unwritten, Uncommitted
<1>4. ASSUME NEW d \in Puts, d # c PROVE OwnInodes(d)' /\ OwnWrites(d)'
  BY <1>1, <1>4, Distinct, OtherPut DEF IInv, TypeOK
<1>5. NamesSorted' /\ VisibleWhole' /\ SidecarsWritten' /\ ReaderInPlace'
  BY <1>1 DEF IInv, NamesSorted, Sorted, VisibleWhole, WholeInode, SidecarsWritten, ReaderInPlace
<1>6. PlacedStays' /\ DeletesInPlace'
  BY <1>1, Distinct DEF IInv, TypeOK, PlacedStays, DeletesInPlace, Calls
<1> QED BY <1>2, <1>3, <1>4, <1>5, <1>6 DEF IInv

LEMMA OpenStagingInv ==
  ASSUME IInv, NEW c \in Puts, OpenStaging(c)
  PROVE  IInv'
<1>1. dir[StagingName(c)] = None
  BY Distinct DEF OpenStaging, IInv, NamesSorted, Sorted, OwnInodes
<1>2. /\ pc[c] = "open" /\ pc' = [pc EXCEPT ![c] = "stream"]
      /\ dir' = [dir EXCEPT ![StagingName(c)] = Body(c)]
      /\ inode' = [inode EXCEPT ![Body(c)] = Empty]
      /\ fd' = [fd EXCEPT ![c] = Body(c)]
      /\ UNCHANGED <<journal, payload, sent, reader, got, eof, deaths, lost>>
  BY <1>1 DEF OpenStaging, Open, Goto, reading, Body
<1>3. Empty \in Contents /\ Empty.durable <= Empty.len /\ Empty.len = 0
  BY DEF Empty, Contents
<1>4. TypeOK'
  BY <1>2, <1>3, Distinct DEF IInv, TypeOK, Labels
<1>5. dir'[Object] = dir[Object] /\ dir'[Sidecar] = dir[Sidecar]
  BY <1>2, Distinct DEF Object, Sidecar, StagingName
<1>6. OwnInodes(c)' /\ OwnWrites(c)'
  <2>1. inode'[Body(c)] = Empty /\ inode'[Meta(c)] = inode[Meta(c)]
    BY <1>2, Distinct DEF IInv, TypeOK, Body, Meta
  <2>2. pc'[c] = "stream" /\ fd'[c] = Body(c) /\ dir'[StagingName(c)] = Body(c)
    BY <1>2, Distinct DEF IInv, TypeOK
  <2>3. OwnInodes(c) /\ OwnWrites(c)
    BY DEF IInv
  <2>4. OwnInodes(c)'
    BY <1>2, <1>5, <2>2, <2>3, Distinct DEF OwnInodes, Unplaced, Unwritten, Uncommitted, IInv, TypeOK, Body, Meta
  <2>5. OwnWrites(c)'
    BY <1>2, <1>3, <2>1, <2>2, <2>3 DEF OwnWrites
  <2> QED BY <2>4, <2>5
<1>7. ASSUME NEW d \in Puts, d # c PROVE OwnInodes(d)' /\ OwnWrites(d)'
  <2>1. /\ inode'[Body(d)] = inode[Body(d)] /\ inode'[Meta(d)] = inode[Meta(d)]
        /\ dir'[StagingName(d)] = dir[StagingName(d)]
        /\ dir'[SidecarStagingName(d)] = dir[SidecarStagingName(d)]
        /\ pc'[d] = pc[d] /\ fd'[d] = fd[d]
    BY <1>2, <1>7, Distinct DEF IInv, TypeOK, Body, Meta, StagingName, SidecarStagingName
  <2>2. \A n \in Names : dir'[n] \in {dir[n], None, Body(c), Meta(c)}
    BY <1>2 DEF IInv, TypeOK
  <2> QED BY <1>2, <1>5, <1>7, <2>1, <2>2, OtherPut
<1>8. NamesSorted'
  BY <1>2, <1>5, Distinct DEF IInv, TypeOK, NamesSorted, Sorted, StagingName, SidecarStagingName
<1>9. \A i \in Inodes : i # Body(c) => inode'[i] = inode[i]
  BY <1>2 DEF IInv, TypeOK
<1>10. VisibleWhole' /\ SidecarsWritten' /\ ReaderInPlace'
  BY <1>2, <1>5, <1>9, UnplacedInvisible DEF Unplaced
<1>11. PlacedStays' /\ DeletesInPlace'
  BY <1>2, <1>5, Distinct DEF IInv, TypeOK, PlacedStays, DeletesInPlace, Calls
<1> QED BY <1>4, <1>6, <1>7, <1>8, <1>10, <1>11 DEF IInv

LEMMA WriteChunkInv ==
  ASSUME IInv, NEW c \in Puts, WriteChunk(c)
  PROVE  IInv'
<1>1. /\ pc[c] = "stream" /\ sent[c] < Size[payload[c]] /\ payload[c] \in Payloads
      /\ fd[c] = Body(c) /\ sent' = [sent EXCEPT ![c] = sent[c] + 1]
      /\ inode' = [inode EXCEPT ![Body(c)].payload = payload[c], ![Body(c)].len = sent[c] + 1]
      /\ UNCHANGED <<pc, dir, fd, journal, payload, reader, got, eof, deaths, lost>>
  BY DEF WriteChunk, reading, IInv, OwnWrites
<1>2. sent[c] \in Nat /\ Size[payload[c]] \in Nat /\ inode[Body(c)] \in Contents
      /\ inode[Body(c)].len = sent[c] /\ inode[Body(c)].durable <= inode[Body(c)].len
  BY <1>1, Distinct, SizeAssumption DEF IInv, TypeOK, OwnWrites
<1> DEFINE file == [payload |-> payload[c], len |-> sent[c] + 1, durable |-> inode[Body(c)].durable]
<1>3. file \in Contents /\ file.durable <= file.len
  BY <1>1, <1>2 DEF Contents
<1>4. inode' = [inode EXCEPT ![Body(c)] = file]
  <2>1. [inode[Body(c)] EXCEPT !.payload = payload[c], !.len = sent[c] + 1] = file
    <3>1. sent[c] + 1 \in Nat
      BY <1>2
    <3> QED BY <1>1, <1>2, <3>1, Rewritten
  <2>2. inode' = [inode EXCEPT ![Body(c)] = [inode[Body(c)] EXCEPT !.payload = payload[c], !.len = sent[c] + 1]]
    BY <1>1
  <2> QED BY <2>1, <2>2
<1>5. file.payload = payload[c] /\ file.len = sent[c] + 1
  OBVIOUS
<1> HIDE DEF file
<1>6. TypeOK'
  <2>1. inode' \in [Inodes -> Contents] /\ \A i \in Inodes : inode'[i].durable <= inode'[i].len
    BY <1>3, <1>4 DEF IInv, TypeOK
  <2>2. /\ sent' \in [Puts -> Nat]
        /\ \A d \in Puts : sent'[d] > 0 => payload[d] \in Payloads /\ sent'[d] <= Size[payload[d]]
    BY <1>1, <1>2 DEF IInv, TypeOK
  <2> QED BY <1>1, <2>1, <2>2 DEF IInv, TypeOK
<1>7. OwnInodes(c)' /\ OwnWrites(c)'
  <2>1. inode'[Body(c)] = file /\ inode'[Meta(c)] = inode[Meta(c)] /\ sent'[c] = sent[c] + 1
    BY <1>1, <1>4, Distinct DEF IInv, TypeOK, Body, Meta
  <2>2. OwnInodes(c) /\ OwnWrites(c)
    BY DEF IInv
  <2> QED BY <1>1, <1>5, <2>1, <2>2 DEF OwnInodes, OwnWrites
<1>8. ASSUME NEW d \in Puts, d # c PROVE OwnInodes(d)' /\ OwnWrites(d)'
  <2>1. /\ inode'[Body(d)] = inode[Body(d)] /\ inode'[Meta(d)] = inode[Meta(d)]
        /\ sent'[d] = sent[d]
    BY <1>1, <1>4, <1>8, Distinct DEF IInv, TypeOK, Body, Meta
  <2> QED BY <1>1, <1>8, <2>1, OtherPut
<1>9. \A i \in Inodes : i # Body(c) => inode'[i] = inode[i]
  BY <1>4 DEF IInv, TypeOK
<1>10. VisibleWhole' /\ SidecarsWritten' /\ ReaderInPlace'
  BY <1>1, <1>9, UnplacedInvisible DEF Unplaced
<1>11. NamesSorted' /\ PlacedStays' /\ DeletesInPlace'
  BY <1>1 DEF IInv, NamesSorted, Sorted, PlacedStays, DeletesInPlace
<1> QED BY <1>6, <1>7, <1>8, <1>10, <1>11 DEF IInv

LEMMA SyncInv ==
  ASSUME IInv, NEW c \in Puts, Sync(c)
  PROVE  IInv'
<1>1. /\ pc[c] = "stream" /\ sent[c] = Size[payload[c]] /\ payload[c] \in Payloads
      /\ pc' = [pc EXCEPT ![c] = "place"]
      /\ inode' = [inode EXCEPT ![Body(c)].durable = inode[Body(c)].len]
      /\ UNCHANGED <<dir, journal, payload, fd, sent, reader, got, eof, deaths, lost>>
  BY DEF Sync, Goto, reading, IInv, OwnWrites
<1>2. /\ Size[payload[c]] \in Nat \ {0} /\ inode[Body(c)] \in Contents
      /\ inode[Body(c)].len = Size[payload[c]] /\ inode[Body(c)].payload = payload[c]
  BY <1>1, Distinct, SizeAssumption DEF IInv, TypeOK, OwnWrites
<1> DEFINE file == [payload |-> payload[c], len |-> Size[payload[c]], durable |-> Size[payload[c]]]
<1>3. file \in Contents /\ file.durable <= file.len
  BY <1>1, <1>2 DEF Contents
<1>4. inode' = [inode EXCEPT ![Body(c)] = file]
  <2>1. [inode[Body(c)] EXCEPT !.durable = inode[Body(c)].len] = file
    BY <1>2 DEF Contents
  <2> QED BY <1>1, <2>1
<1>5. file.payload = payload[c] /\ file.len = Size[payload[c]] /\ file.durable = Size[payload[c]]
  OBVIOUS
<1> HIDE DEF file
<1>6. TypeOK'
  <2>1. inode' \in [Inodes -> Contents] /\ \A i \in Inodes : inode'[i].durable <= inode'[i].len
    BY <1>3, <1>4 DEF IInv, TypeOK
  <2> QED BY <1>1, <2>1 DEF IInv, TypeOK, Labels
<1>7. OwnInodes(c)' /\ OwnWrites(c)'
  <2>1. inode'[Body(c)] = file /\ inode'[Meta(c)] = inode[Meta(c)] /\ pc'[c] = "place"
    BY <1>1, <1>4, Distinct DEF IInv, TypeOK, Body, Meta
  <2>2. OwnInodes(c) /\ OwnWrites(c)
    BY DEF IInv
  <2> QED BY <1>1, <1>5, <2>1, <2>2 DEF OwnInodes, OwnWrites, Unplaced, Unwritten, Uncommitted
<1>8. ASSUME NEW d \in Puts, d # c PROVE OwnInodes(d)' /\ OwnWrites(d)'
  <2>1. /\ inode'[Body(d)] = inode[Body(d)] /\ inode'[Meta(d)] = inode[Meta(d)]
        /\ pc'[d] = pc[d]
    BY <1>1, <1>4, <1>8, Distinct DEF IInv, TypeOK, Body, Meta
  <2> QED BY <1>1, <1>8, <2>1, OtherPut
<1>9. \A i \in Inodes : i # Body(c) => inode'[i] = inode[i]
  BY <1>4 DEF IInv, TypeOK
<1>10. VisibleWhole' /\ SidecarsWritten' /\ ReaderInPlace'
  BY <1>1, <1>9, UnplacedInvisible DEF Unplaced
<1>11. NamesSorted' /\ PlacedStays' /\ DeletesInPlace'
  BY <1>1, Distinct DEF IInv, TypeOK, Calls, NamesSorted, Sorted, PlacedStays, DeletesInPlace
<1> QED BY <1>6, <1>7, <1>8, <1>10, <1>11 DEF IInv

\* The rename makes a whole body visible, and it alone.
LEMMA PlaceObjectInv ==
  ASSUME IInv, NEW c \in Puts, PlaceObject(c)
  PROVE  IInv'
<1>1. /\ pc[c] = "place" /\ pc' = [pc EXCEPT ![c] = "meta_open"]
      /\ dir' = [dir EXCEPT ![Object] = Body(c), ![StagingName(c)] = None]
      /\ UNCHANGED <<inode, journal, payload, fd, sent, reader, got, eof, deaths, lost>>
  BY DEF PlaceObject, Rename, Goto, reading, IInv, OwnWrites
<1>2. /\ dir'[Object] = Body(c) /\ dir'[StagingName(c)] = None
      /\ \A n \in Names \ {Object, StagingName(c)} : dir'[n] = dir[n]
  BY <1>1, Distinct DEF IInv, TypeOK, Object, StagingName
<1>3. Object # Sidecar /\ Sidecar # StagingName(c) /\ SidecarStagingName(c) \notin {Object, StagingName(c)}
  BY DEF Object, Sidecar, StagingName, SidecarStagingName
<1>4. TypeOK'
  BY <1>1, Distinct DEF IInv, TypeOK, Labels
<1>5. OwnInodes(c)' /\ OwnWrites(c)'
  <2>1. pc'[c] = "meta_open" /\ Body(c) # Meta(c) /\ None # Meta(c)
    BY <1>1, Distinct DEF IInv, TypeOK, Body, Meta
  <2>2. OwnInodes(c) /\ OwnWrites(c)
    BY DEF IInv
  <2>3. OwnInodes(c)'
    BY <1>1, <1>2, <1>3, <2>1, <2>2, Distinct DEF OwnInodes, Unplaced, Unwritten, Uncommitted
  <2>4. OwnWrites(c)'
    BY <1>1, <2>1, <2>2 DEF OwnWrites
  <2> QED BY <2>3, <2>4
<1>6. ASSUME NEW d \in Puts, d # c PROVE OwnInodes(d)' /\ OwnWrites(d)'
  <2>1. /\ StagingName(d) \in Names \ {Object, StagingName(c)}
        /\ SidecarStagingName(d) \in Names \ {Object, StagingName(c)}
        /\ pc'[d] = pc[d]
    BY <1>1, <1>6, Distinct DEF IInv, TypeOK, StagingName, SidecarStagingName, Object
  <2>2. \A n \in Names : dir'[n] \in {dir[n], None, Body(c), Meta(c)}
    BY <1>2
  <2> QED BY <1>1, <1>2, <1>3, <1>6, <2>1, <2>2, Distinct, OtherPut
<1>7. NamesSorted'
  <2>1. ASSUME NEW d \in Puts
        PROVE  /\ dir'[StagingName(d)] \in {None, Body(d)}
               /\ dir'[SidecarStagingName(d)] \in {None, Meta(d)}
    <3>1. SidecarStagingName(d) \in Names \ {Object, StagingName(c)}
      BY Distinct DEF StagingName, SidecarStagingName, Object
    <3>2. StagingName(d) \in Names \ {Object}
      BY Distinct DEF StagingName, Object
    <3> QED BY <1>2, <3>1, <3>2 DEF IInv, NamesSorted, Sorted
  <2>2. dir'[Sidecar] = dir[Sidecar]
    BY <1>2, <1>3, Distinct
  <2> QED BY <1>1, <1>2, <2>1, <2>2, Distinct DEF IInv, NamesSorted, Sorted
<1>8. VisibleWhole' /\ SidecarsWritten' /\ ReaderInPlace'
  <2>1. WholeInode(Body(c))'
    BY <1>1 DEF IInv, OwnWrites, WholeInode
  <2>2. dir'[Sidecar] = dir[Sidecar]
    BY <1>2, <1>3, Distinct
  <2> QED BY <1>1, <1>2, <2>1, <2>2
          DEF IInv, VisibleWhole, WholeInode, SidecarsWritten, ReaderInPlace
<1>9. PlacedStays' /\ DeletesInPlace'
  BY <1>1, <1>2, Distinct DEF IInv, TypeOK, PlacedStays, DeletesInPlace, Calls
<1> QED BY <1>4, <1>5, <1>6, <1>7, <1>8, <1>9 DEF IInv

LEMMA OpenSidecarInv ==
  ASSUME IInv, NEW c \in Puts, OpenSidecar(c)
  PROVE  IInv'
<1>1. dir[SidecarStagingName(c)] = None
  BY Distinct DEF OpenSidecar, IInv, NamesSorted, Sorted, OwnInodes, Unwritten
<1>2. /\ pc[c] = "meta_open" /\ pc' = [pc EXCEPT ![c] = "meta_write"]
      /\ dir' = [dir EXCEPT ![SidecarStagingName(c)] = Meta(c)]
      /\ inode' = [inode EXCEPT ![Meta(c)] = Empty]
      /\ fd' = [fd EXCEPT ![c] = Meta(c)]
      /\ UNCHANGED <<journal, payload, sent, reader, got, eof, deaths, lost>>
  BY <1>1 DEF OpenSidecar, Open, Goto, reading, Meta
<1>3. Empty \in Contents /\ Empty.durable <= Empty.len /\ Empty.len = 0
  BY DEF Empty, Contents
<1>4. TypeOK'
  BY <1>2, <1>3, Distinct DEF IInv, TypeOK, Labels
<1>5. dir'[Object] = dir[Object] /\ dir'[Sidecar] = dir[Sidecar]
  BY <1>2, Distinct DEF Object, Sidecar, SidecarStagingName
<1>6. OwnInodes(c)' /\ OwnWrites(c)'
  <2>1. inode'[Meta(c)] = Empty /\ pc'[c] = "meta_write" /\ fd'[c] = Meta(c)
        /\ dir'[SidecarStagingName(c)] = Meta(c)
    BY <1>2, Distinct DEF IInv, TypeOK
  <2>2. OwnInodes(c) /\ OwnWrites(c)
    BY DEF IInv
  <2>3. OwnInodes(c)'
    BY <1>2, <1>5, <2>1, <2>2 DEF OwnInodes, Unplaced, Unwritten, Uncommitted
  <2>4. OwnWrites(c)'
    BY <1>2, <1>3, <2>1, <2>2 DEF OwnWrites
  <2> QED BY <2>3, <2>4
<1>7. ASSUME NEW d \in Puts, d # c PROVE OwnInodes(d)' /\ OwnWrites(d)'
  <2>1. /\ inode'[Body(d)] = inode[Body(d)] /\ inode'[Meta(d)] = inode[Meta(d)]
        /\ dir'[StagingName(d)] = dir[StagingName(d)]
        /\ dir'[SidecarStagingName(d)] = dir[SidecarStagingName(d)]
        /\ pc'[d] = pc[d] /\ fd'[d] = fd[d]
    BY <1>2, <1>7, Distinct DEF IInv, TypeOK, Body, Meta, StagingName, SidecarStagingName
  <2>2. \A n \in Names : dir'[n] \in {dir[n], None, Body(c), Meta(c)}
    BY <1>2 DEF IInv, TypeOK
  <2> QED BY <1>2, <1>5, <1>7, <2>1, <2>2, OtherPut
<1>8. NamesSorted'
  BY <1>2, <1>5, Distinct DEF IInv, TypeOK, NamesSorted, Sorted, StagingName, SidecarStagingName
<1>9. VisibleWhole' /\ SidecarsWritten' /\ ReaderInPlace'
  BY <1>2, <1>5, UncommittedInvisible DEF Uncommitted, Unwritten, IInv, TypeOK
<1>10. PlacedStays' /\ DeletesInPlace'
  BY <1>2, <1>5, Distinct DEF IInv, TypeOK, PlacedStays, DeletesInPlace, Calls
<1> QED BY <1>4, <1>6, <1>7, <1>8, <1>9, <1>10 DEF IInv

LEMMA WriteSidecarInv ==
  ASSUME IInv, NEW c \in Puts, WriteSidecar(c)
  PROVE  IInv'
<1>1. /\ pc[c] = "meta_write" /\ payload[c] \in Payloads /\ pc' = [pc EXCEPT ![c] = "meta_commit"]
      /\ inode' = [inode EXCEPT ![Meta(c)].payload = payload[c], ![Meta(c)].len = 1]
      /\ UNCHANGED <<dir, fd, sent, journal, payload, reader, got, eof, deaths, lost>>
  BY DEF WriteSidecar, Goto, reading, IInv, OwnWrites
<1>2. /\ inode[Meta(c)] \in Contents /\ inode[Meta(c)].len \in {0, 1}
      /\ inode[Meta(c)].durable <= inode[Meta(c)].len
  BY Distinct DEF IInv, TypeOK, OwnWrites
<1> DEFINE file == [payload |-> payload[c], len |-> 1, durable |-> inode[Meta(c)].durable]
<1>3. file \in Contents /\ file.durable <= file.len
  BY <1>1, <1>2 DEF Contents
<1>4. inode' = [inode EXCEPT ![Meta(c)] = file]
  <2>1. [inode[Meta(c)] EXCEPT !.payload = payload[c], !.len = 1] = file
    BY <1>1, <1>2, Rewritten
  <2>2. inode' = [inode EXCEPT ![Meta(c)] = [inode[Meta(c)] EXCEPT !.payload = payload[c], !.len = 1]]
    BY <1>1
  <2> QED BY <2>1, <2>2
<1>5. file.payload = payload[c] /\ file.len = 1
  OBVIOUS
<1> HIDE DEF file
<1>6. TypeOK'
  <2>1. inode' \in [Inodes -> Contents] /\ \A i \in Inodes : inode'[i].durable <= inode'[i].len
    BY <1>3, <1>4 DEF IInv, TypeOK
  <2> QED BY <1>1, <2>1 DEF IInv, TypeOK, Labels
<1>7. OwnInodes(c)' /\ OwnWrites(c)'
  <2>1. inode'[Meta(c)] = file /\ inode'[Body(c)] = inode[Body(c)] /\ pc'[c] = "meta_commit"
    BY <1>1, <1>4, Distinct DEF IInv, TypeOK, Body, Meta
  <2>2. OwnInodes(c) /\ OwnWrites(c)
    BY DEF IInv
  <2> QED BY <1>1, <1>5, <2>1, <2>2 DEF OwnInodes, OwnWrites, Unplaced, Unwritten, Uncommitted
<1>8. ASSUME NEW d \in Puts, d # c PROVE OwnInodes(d)' /\ OwnWrites(d)'
  <2>1. /\ inode'[Body(d)] = inode[Body(d)] /\ inode'[Meta(d)] = inode[Meta(d)]
        /\ pc'[d] = pc[d]
    BY <1>1, <1>4, <1>8, Distinct DEF IInv, TypeOK, Body, Meta
  <2> QED BY <1>1, <1>8, <2>1, OtherPut
<1>9. VisibleWhole' /\ SidecarsWritten' /\ ReaderInPlace'
  BY <1>1, <1>4, UncommittedInvisible DEF Uncommitted, Unwritten, IInv, TypeOK
<1>10. NamesSorted' /\ PlacedStays' /\ DeletesInPlace'
  BY <1>1, Distinct DEF IInv, TypeOK, Calls, NamesSorted, Sorted, PlacedStays, DeletesInPlace
<1> QED BY <1>6, <1>7, <1>8, <1>9, <1>10 DEF IInv

LEMMA CommitSidecarInv ==
  ASSUME IInv, NEW c \in Puts, CommitSidecar(c)
  PROVE  IInv'
<1>1. /\ pc[c] = "meta_commit" /\ pc' = [pc EXCEPT ![c] = "done"]
      /\ dir' = [dir EXCEPT ![Sidecar] = Meta(c), ![SidecarStagingName(c)] = None]
      /\ UNCHANGED <<inode, journal, payload, fd, sent, reader, got, eof, deaths, lost>>
  BY Distinct DEF CommitSidecar, Rename, Goto, reading, IInv, OwnWrites
<1>2. /\ dir'[Sidecar] = Meta(c) /\ dir'[SidecarStagingName(c)] = None
      /\ \A n \in Names \ {Sidecar, SidecarStagingName(c)} : dir'[n] = dir[n]
  BY <1>1, Distinct DEF IInv, TypeOK, Sidecar, SidecarStagingName
<1>3. Object # Sidecar /\ StagingName(c) \notin {Sidecar, SidecarStagingName(c)}
      /\ Object # SidecarStagingName(c)
  BY DEF Object, Sidecar, StagingName, SidecarStagingName
<1>4. dir'[Object] = dir[Object]
  BY <1>2, <1>3, Distinct
<1>5. TypeOK'
  BY <1>1, Distinct DEF IInv, TypeOK, Labels
<1>6. OwnInodes(c)' /\ OwnWrites(c)'
  <2>1. pc'[c] = "done"
    BY <1>1, Distinct DEF IInv, TypeOK
  <2>2. OwnInodes(c) /\ OwnWrites(c)
    BY DEF IInv
  <2> QED BY <1>1, <2>1, <2>2 DEF OwnInodes, OwnWrites, Unplaced, Unwritten, Uncommitted
<1>7. ASSUME NEW d \in Puts, d # c PROVE OwnInodes(d)' /\ OwnWrites(d)'
  <2>1. /\ StagingName(d) \in Names \ {Sidecar, SidecarStagingName(c)}
        /\ SidecarStagingName(d) \in Names \ {Sidecar, SidecarStagingName(c)}
        /\ pc'[d] = pc[d]
    BY <1>1, <1>7, Distinct DEF IInv, TypeOK, StagingName, SidecarStagingName, Sidecar
  <2>2. \A n \in Names : dir'[n] \in {dir[n], None, Body(c), Meta(c)}
    BY <1>2
  <2> QED BY <1>1, <1>2, <1>4, <1>7, <2>1, <2>2, OtherPut
<1>8. NamesSorted'
  <2>1. ASSUME NEW d \in Puts
        PROVE  /\ dir'[StagingName(d)] \in {None, Body(d)}
               /\ dir'[SidecarStagingName(d)] \in {None, Meta(d)}
    <3>1. StagingName(d) \in Names \ {Sidecar, SidecarStagingName(c)}
      BY Distinct DEF StagingName, SidecarStagingName, Sidecar
    <3>2. SidecarStagingName(d) \in Names \ {Sidecar}
      BY Distinct DEF SidecarStagingName, Sidecar
    <3> QED BY <1>2, <3>1, <3>2 DEF IInv, NamesSorted, Sorted
  <2> QED BY <1>1, <1>2, <1>4, <2>1, Distinct DEF IInv, NamesSorted, Sorted
<1>9. VisibleWhole' /\ SidecarsWritten' /\ ReaderInPlace'
  <2>1. inode'[Meta(c)].len = 1
    BY <1>1 DEF IInv, OwnWrites
  <2>2. SidecarsWritten'
    BY <1>1, <1>2, <2>1 DEF IInv, SidecarsWritten
  <2> QED BY <1>1, <1>4, <2>2 DEF IInv, VisibleWhole, WholeInode, ReaderInPlace
<1>10. PlacedStays' /\ DeletesInPlace'
  BY <1>1, <1>4, Distinct DEF IInv, TypeOK, PlacedStays, DeletesInPlace, Calls
<1> QED BY <1>5, <1>6, <1>7, <1>8, <1>9, <1>10 DEF IInv

-----------------------------------------------------------------------------
(* Steps of a delete.                                                      *)

\* A delete does nothing to a put but take its names away.
LEMMA DeleteInv ==
  ASSUME IInv, NEW c \in Deletes, NEW n \in {Object, Sidecar},
         pc'[c] \in {"unlink", "meta_unlink", "deleted"}, pc' = [pc EXCEPT ![c] = pc'[c]],
         dir' = dir \/ dir' = [dir EXCEPT ![n] = None],
         UNCHANGED <<inode, journal, payload, fd, sent, reading, deaths, lost>>
  PROVE  IInv'
<1>1. c \in Calls /\ c \notin Puts
  BY CallsAssumption DEF Calls
<1>2. TypeOK'
  <2>1. pc' \in [Calls -> Labels]
    BY <1>1 DEF IInv, TypeOK, Labels
  <2>2. dir' \in [Names -> Inodes \cup {None}]
    BY DEF IInv, TypeOK
  <2> QED BY <2>1, <2>2 DEF IInv, TypeOK, reading
<1>3. \A m \in Names : dir'[m] = dir[m] \/ (m = n /\ dir'[m] = None)
  <2>1. dir \in [Names -> Inodes \cup {None}]
    BY DEF IInv, TypeOK
  <2>2. CASE dir' = dir
    BY <2>2
  <2>3. CASE dir' = [dir EXCEPT ![n] = None]
    BY <2>1, <2>3
  <2> QED BY <2>2, <2>3
<1>4. \A d \in Puts : pc'[d] = pc[d]
  BY <1>1 DEF IInv, TypeOK, Calls
<1>5. ASSUME NEW d \in Puts PROVE OwnInodes(d)' /\ OwnWrites(d)'
  <2>1. /\ StagingName(d) \notin {Object, Sidecar} /\ SidecarStagingName(d) \notin {Object, Sidecar}
        /\ Body(d) # None /\ Meta(d) # None
    BY Distinct DEF StagingName, SidecarStagingName, Object, Sidecar
  <2>2. OwnInodes(d) /\ OwnWrites(d)
    BY DEF IInv
  <2>3. dir'[StagingName(d)] = dir[StagingName(d)] /\ dir'[SidecarStagingName(d)] = dir[SidecarStagingName(d)]
    BY <1>3, <2>1, Distinct
  <2>4. OwnInodes(d)'
    BY <1>3, <1>4, <2>1, <2>2, Distinct DEF OwnInodes, reading
  <2>5. OwnWrites(d)'
    BY <1>4, <2>2, <2>3 DEF OwnWrites
  <2> QED BY <2>4, <2>5
<1>6. NamesSorted'
  BY <1>3, Distinct DEF IInv, NamesSorted, Sorted, reading, Object, Sidecar, Names
<1>7. VisibleWhole' /\ SidecarsWritten' /\ ReaderInPlace'
  BY <1>3 DEF IInv, VisibleWhole, WholeInode, SidecarsWritten, ReaderInPlace, reading, Object, Sidecar, Names
<1>8. PlacedStays' /\ DeletesInPlace'
  <2>1. pc'[c] # "idle"
    OBVIOUS
  <2>2. DeletesInPlace'
    BY <1>1 DEF IInv, TypeOK, DeletesInPlace, Calls
  <2> QED BY <2>1, <2>2 DEF PlacedStays
<1> QED BY <1>2, <1>5, <1>6, <1>7, <1>8 DEF IInv

LEMMA DeleteStepInv ==
  ASSUME IInv, NEW c \in Deletes, StartDelete(c) \/ Delete(c)
  PROVE  IInv'
<1>1. c \in Calls /\ pc \in [Calls -> Labels]
  BY DEF Calls, IInv, TypeOK
<1>2. CASE StartDelete(c)
  BY <1>1, <1>2, DeleteInv DEF StartDelete, Goto, disk
<1>3. CASE UnlinkObject(c)
  BY <1>1, <1>3, DeleteInv DEF UnlinkObject, Unlink, Goto
<1>4. CASE UnlinkSidecar(c)
  BY <1>1, <1>4, DeleteInv DEF UnlinkSidecar, Unlink, Goto
<1> QED BY <1>2, <1>3, <1>4 DEF Delete

-----------------------------------------------------------------------------
(* Steps of a reader.                                                      *)

LEMMA ReadingInv ==
  ASSUME IInv, OpenObject \/ ReadChunk \/ CloseObject
  PROVE  IInv'
<1>1. UNCHANGED <<inode, dir, journal, pc, payload, fd, sent, deaths, lost>>
  BY DEF OpenObject, ReadChunk, CloseObject, disk, locals
<1>2. Nothing \in [payloads: SUBSET Payloads, len: Nat] /\ Nothing.len = 0 /\ Nothing.payloads = {}
  BY DEF Nothing
<1>3. dir[Object] \in Bodies \cup {None} /\ Object \in Names
  BY DEF IInv, NamesSorted, Sorted, Object, Names
<1>4. /\ reader' \in Bodies \cup {None} /\ reader' \in Inodes \cup {None}
      /\ got' \in [payloads: SUBSET Payloads, len: Nat] /\ eof' \in BOOLEAN
      /\ reader' \in {reader, None, dir[Object]}
      /\ ReaderInPlace'
  <2>1. CASE OpenObject
    <3>1. /\ reader' = dir[Object] /\ dir[Object] # None /\ got' = Nothing /\ eof' = FALSE
          /\ inode' = inode
      BY <2>1, <1>1 DEF OpenObject
    <3>2. dir[Object] \in Inodes /\ inode[dir[Object]].len \in Nat
      BY <1>3, <3>1 DEF IInv, TypeOK, Contents
    <3>3. ReaderInPlace'
      BY <1>2, <3>1, <3>2 DEF ReaderInPlace
    <3> QED BY <1>2, <1>3, <3>1, <3>2, <3>3
  <2>2. CASE ReadChunk
    <3>1. reader # None /\ ~eof /\ reader' = reader
      BY <2>2 DEF ReadChunk
    <3>2. reader \in Bodies /\ reader \in Inodes /\ inode[reader].len \in Nat
          /\ got.len \in Nat /\ got.payloads \in SUBSET Payloads
      BY <3>1 DEF IInv, TypeOK, NamesSorted, Contents
    <3>3. inode[reader].payload \in Payloads
      BY <3>1 DEF IInv, VisibleWhole, WholeInode
    <3>4. /\ got.len <= inode[reader].len
          /\ got.payloads = IF got.len = 0 THEN {} ELSE {inode[reader].payload}
      BY <3>1 DEF IInv, ReaderInPlace
    <3>5. CASE got.len < inode[reader].len
      <4>1. /\ got' = [payloads |-> got.payloads \cup {inode[reader].payload}, len |-> got.len + 1]
            /\ eof' = eof
        BY <2>2, <3>5 DEF ReadChunk
      <4>2. got.payloads \cup {inode[reader].payload} = {inode[reader].payload}
        BY <3>4
      <4>3. got'.len = got.len + 1 /\ got'.payloads = {inode[reader].payload}
        BY <4>1, <4>2
      <4>4. got' \in [payloads: SUBSET Payloads, len: Nat]
        BY <3>2, <3>3, <4>1, <4>2
      <4>5. ReaderInPlace'
        BY <1>1, <3>1, <3>2, <3>5, <4>1, <4>3 DEF ReaderInPlace
      <4>6. eof' \in BOOLEAN
        BY <4>1 DEF IInv, TypeOK
      <4> QED BY <3>1, <3>2, <4>4, <4>5, <4>6
    <3>6. CASE ~(got.len < inode[reader].len)
      <4>1. eof' = TRUE /\ got' = got
        BY <2>2, <3>6 DEF ReadChunk
      <4>2. got.len = inode[reader].len
        BY <3>2, <3>4, <3>6
      <4>3. ReaderInPlace'
        BY <1>1, <3>1, <3>4, <4>1, <4>2 DEF ReaderInPlace
      <4> QED BY <3>1, <3>2, <4>1, <4>3 DEF IInv, TypeOK
    <3> QED BY <3>5, <3>6
  <2>3. CASE CloseObject
    <3>1. reader' = None /\ got' = Nothing /\ eof' = FALSE
      BY <2>3 DEF CloseObject
    <3> QED BY <1>2, <3>1 DEF ReaderInPlace
  <2> QED BY <2>1, <2>2, <2>3
<1>5. TypeOK'
  BY <1>1, <1>4 DEF IInv, TypeOK
<1>6. NamesSorted'
  BY <1>1, <1>4 DEF IInv, NamesSorted, Sorted
<1>7. ASSUME NEW c \in Puts PROVE OwnInodes(c)' /\ OwnWrites(c)'
  BY <1>1, <1>4, Distinct DEF IInv, OwnInodes, OwnWrites
<1>8. VisibleWhole' /\ SidecarsWritten'
  BY <1>1, <1>4 DEF IInv, VisibleWhole, WholeInode, SidecarsWritten
<1>9. PlacedStays' /\ DeletesInPlace'
  BY <1>1 DEF IInv, PlacedStays, DeletesInPlace
<1> QED BY <1>4, <1>5, <1>6, <1>7, <1>8, <1>9 DEF IInv

-----------------------------------------------------------------------------
(* The disk, and deaths.                                                   *)

\* What is complete on the disk is not written back any more.
LEMMA WritebackInv ==
  ASSUME IInv, NEW i \in Inodes, Writeback(i)
  PROVE  IInv'
<1>1. /\ inode[i].durable < inode[i].len
      /\ inode' = [inode EXCEPT ![i] = [inode[i] EXCEPT !.durable = inode[i].durable + 1]]
      /\ UNCHANGED <<dir, journal, pc, payload, fd, sent, reader, got, eof, deaths, lost>>
  BY DEF Writeback, locals, reading
<1>2. inode[i] \in Contents /\ inode \in [Inodes -> Contents]
  BY DEF IInv, TypeOK
<1> DEFINE file == [inode[i] EXCEPT !.durable = inode[i].durable + 1]
<1>3. /\ file \in Contents /\ file.payload = inode[i].payload /\ file.len = inode[i].len
      /\ file.durable <= file.len
  <2>1. inode[i].durable \in Nat /\ inode[i].len \in Nat
    BY <1>2 DEF Contents
  <2>2. /\ file.payload = inode[i].payload /\ file.len = inode[i].len
        /\ file.durable = inode[i].durable + 1
    BY <1>2 DEF Contents
  <2>3. file \in Contents
    BY <1>2, <2>1 DEF Contents
  <2> QED BY <1>1, <2>1, <2>2, <2>3
<1> HIDE DEF file
<1>4. inode' = [inode EXCEPT ![i] = file]
  BY <1>1 DEF file
<1>5. \A j \in Inodes : /\ inode'[j].payload = inode[j].payload
                        /\ inode'[j].len = inode[j].len
                        /\ inode[j].durable = inode[j].len => inode'[j] = inode[j]
  <2>1. inode[i].durable # inode[i].len
    BY <1>1, <1>2 DEF Contents
  <2> QED BY <1>2, <1>3, <1>4, <2>1
<1>6. TypeOK'
  <2>1. inode' \in [Inodes -> Contents] /\ \A j \in Inodes : inode'[j].durable <= inode'[j].len
    BY <1>3, <1>4 DEF IInv, TypeOK
  <2> QED BY <1>1, <2>1 DEF IInv, TypeOK
<1>7. ASSUME NEW c \in Puts PROVE OwnInodes(c)' /\ OwnWrites(c)'
  <2>1. OwnInodes(c) /\ OwnWrites(c) /\ Body(c) \in Inodes /\ Meta(c) \in Inodes
    BY Distinct DEF IInv
  <2>2. OwnInodes(c)'
    BY <1>1, <2>1 DEF OwnInodes
  <2>3. OwnWrites(c)'
    BY <1>1, <1>5, <2>1 DEF OwnWrites
  <2> QED BY <2>2, <2>3
<1>8. VisibleWhole' /\ SidecarsWritten' /\ ReaderInPlace'
  <2>1. {dir[Object], journal[Object], reader, dir[Sidecar], journal[Sidecar]} \subseteq Inodes \cup {None}
    BY DEF IInv, TypeOK, Object, Sidecar, Names
  <2>2. VisibleWhole'
    <3>1. ASSUME NEW j \in Inodes, WholeInode(j) PROVE WholeInode(j)'
      BY <1>5, <3>1 DEF WholeInode
    <3> QED BY <1>1, <2>1, <3>1 DEF IInv, VisibleWhole
  <2>3. SidecarsWritten'
    BY <1>1, <1>5, <2>1 DEF IInv, SidecarsWritten
  <2>4. ReaderInPlace'
    BY <1>1, <1>5, <2>1 DEF IInv, ReaderInPlace
  <2> QED BY <2>2, <2>3, <2>4
<1>9. NamesSorted' /\ PlacedStays' /\ DeletesInPlace'
  BY <1>1 DEF IInv, NamesSorted, Sorted, PlacedStays, DeletesInPlace
<1> QED BY <1>6, <1>7, <1>8, <1>9 DEF IInv

LEMMA CommitJournalInv ==
  ASSUME IInv, CommitJournal
  PROVE  IInv'
<1>1. /\ journal' = dir
      /\ UNCHANGED <<inode, dir, pc, payload, fd, sent, reader, got, eof, deaths, lost>>
  BY DEF CommitJournal, locals, reading
<1>2. TypeOK' /\ NamesSorted'
  BY <1>1 DEF IInv, TypeOK, NamesSorted, Sorted
<1>3. ASSUME NEW c \in Puts PROVE OwnInodes(c)' /\ OwnWrites(c)'
  BY <1>1 DEF IInv, OwnInodes, OwnWrites
<1>4. VisibleWhole' /\ SidecarsWritten' /\ ReaderInPlace' /\ PlacedStays' /\ DeletesInPlace'
  BY <1>1 DEF IInv, VisibleWhole, WholeInode, SidecarsWritten, ReaderInPlace, PlacedStays,
     DeletesInPlace
<1> QED BY <1>2, <1>3, <1>4 DEF IInv

\* What Kill and PowerLoss have in common: all that was local to the process.
LEMMA RestartTypes ==
  ASSUME IInv, NEW untouched \in SUBSET {"idle", "done", "deleted"}, Restart(untouched)
  PROVE  /\ pc' \in [Calls -> Labels] /\ fd' \in [Puts -> Inodes \cup {None}]
         /\ sent' \in [Puts -> Nat] /\ \A c \in Puts : sent'[c] = 0
         /\ got' \in [payloads: SUBSET Payloads, len: Nat]
         /\ reader' = None /\ ~eof' /\ eof' \in BOOLEAN /\ got' = Nothing
         /\ deaths' \in 0..MaxDeaths /\ payload' = payload
         /\ \A c \in Calls : /\ pc'[c] \in untouched \cup {"past"}
                             /\ pc'[c] # "past" => pc'[c] = pc[c]
<1>1. /\ deaths < MaxDeaths /\ deaths' = deaths + 1
      /\ pc' = [c \in Calls |-> IF pc[c] \in untouched THEN pc[c] ELSE "past"]
      /\ reader' = None /\ got' = Nothing /\ eof' = FALSE
      /\ fd' = [c \in Puts |-> None] /\ sent' = [c \in Puts |-> 0] /\ payload' = payload
  BY DEF Restart
<1>2. \A c \in Calls : /\ pc'[c] \in untouched \cup {"past"}
                      /\ pc'[c] # "past" => pc'[c] = pc[c]
  BY <1>1
<1>3. pc' \in [Calls -> Labels]
  BY <1>1 DEF IInv, TypeOK, Labels
<1>4. Nothing \in [payloads: SUBSET Payloads, len: Nat]
  BY DEF Nothing
<1>5. deaths' \in 0..MaxDeaths
  BY <1>1, DeathsAssumption DEF IInv, TypeOK
<1> QED BY <1>1, <1>2, <1>3, <1>4, <1>5

LEMMA KillInv ==
  ASSUME IInv, Kill
  PROVE  IInv'
<1>1. UNCHANGED <<inode, dir, journal, lost>> /\ Restart({"idle", "done", "deleted"})
  BY DEF Kill, disk
<1>2. /\ pc' \in [Calls -> Labels] /\ fd' \in [Puts -> Inodes \cup {None}]
      /\ sent' \in [Puts -> Nat] /\ \A c \in Puts : sent'[c] = 0
      /\ got' \in [payloads: SUBSET Payloads, len: Nat]
      /\ reader' = None /\ ~eof' /\ eof' \in BOOLEAN /\ got' = Nothing
      /\ deaths' \in 0..MaxDeaths /\ payload' = payload
      /\ \A c \in Calls : /\ pc'[c] \in {"idle", "done", "deleted", "past"}
                          /\ pc'[c] # "past" => pc'[c] = pc[c]
  BY <1>1, RestartTypes
<1>3. TypeOK'
  BY <1>1, <1>2 DEF IInv, TypeOK
<1>4. ASSUME NEW c \in Puts PROVE OwnInodes(c)' /\ OwnWrites(c)'
  <2>1. OwnInodes(c) /\ OwnWrites(c) /\ c \in Calls /\ Body(c) # None
    BY Distinct DEF IInv
  <2>2. OwnInodes(c)'
    BY <1>1, <1>2, <2>1 DEF OwnInodes, Unplaced, Unwritten, Uncommitted
  <2>3. OwnWrites(c)'
    BY <1>1, <1>2, <2>1 DEF OwnWrites
  <2> QED BY <2>2, <2>3
<1>5. NamesSorted' /\ VisibleWhole' /\ SidecarsWritten' /\ ReaderInPlace'
  BY <1>1, <1>2 DEF IInv, NamesSorted, Sorted, VisibleWhole, WholeInode, SidecarsWritten,
     ReaderInPlace
<1>6. PlacedStays' /\ DeletesInPlace'
  BY <1>1, <1>2 DEF IInv, PlacedStays, DeletesInPlace, Calls
<1> QED BY <1>3, <1>4, <1>5, <1>6 DEF IInv

\* A power loss cuts no file that is complete on the disk.
LEMMA PowerLossInv ==
  ASSUME IInv, PowerLoss
  PROVE  IInv'
<1>1. /\ inode' = [i \in Inodes |-> IF inode[i].durable = 0 THEN Empty
                                    ELSE [inode[i] EXCEPT !.len = inode[i].durable]]
      /\ dir' = journal /\ journal' = journal /\ lost' = TRUE
      /\ Restart({"idle"})
  BY DEF PowerLoss
<1>2. /\ pc' \in [Calls -> Labels] /\ fd' \in [Puts -> Inodes \cup {None}]
      /\ sent' \in [Puts -> Nat] /\ \A c \in Puts : sent'[c] = 0
      /\ got' \in [payloads: SUBSET Payloads, len: Nat]
      /\ reader' = None /\ ~eof' /\ eof' \in BOOLEAN /\ got' = Nothing
      /\ deaths' \in 0..MaxDeaths /\ payload' = payload
      /\ \A c \in Calls : /\ pc'[c] \in {"idle", "past"}
                          /\ pc'[c] # "past" => pc'[c] = pc[c]
  BY <1>1, RestartTypes
<1>3. ASSUME NEW i \in Inodes
      PROVE  /\ inode'[i] \in Contents /\ inode'[i].durable <= inode'[i].len
             /\ inode'[i].len = inode[i].durable
             /\ inode[i].durable # 0 => inode'[i].payload = inode[i].payload
             /\ inode'[i].durable = inode[i].durable
  <2>1. inode[i] \in Contents /\ inode[i].durable \in Nat
    BY DEF IInv, TypeOK, Contents
  <2>2. CASE inode[i].durable = 0
    <3>1. inode'[i] = Empty
      BY <1>1, <2>2
    <3> QED BY <2>2, <3>1 DEF Empty, Contents
  <2>3. CASE inode[i].durable # 0
    <3>1. inode'[i] = [inode[i] EXCEPT !.len = inode[i].durable]
      BY <1>1, <2>3
    <3>2. /\ inode'[i].len = inode[i].durable /\ inode'[i].durable = inode[i].durable
          /\ inode'[i].payload = inode[i].payload /\ inode'[i] \in Contents
      BY <2>1, <3>1 DEF Contents
    <3> QED BY <2>1, <3>2
  <2> QED BY <2>2, <2>3
<1>4. TypeOK'
  <2>1. inode' \in [Inodes -> Contents] /\ \A i \in Inodes : inode'[i].durable <= inode'[i].len
    BY <1>1, <1>3
  <2> QED BY <1>1, <1>2, <2>1 DEF IInv, TypeOK
<1>5. ASSUME NEW c \in Puts PROVE OwnInodes(c)' /\ OwnWrites(c)'
  <2>1. OwnInodes(c) /\ OwnWrites(c) /\ c \in Calls /\ Body(c) # None /\ Meta(c) \in Inodes
    BY Distinct DEF IInv
  <2>2. OwnInodes(c)'
    BY <1>1, <1>2, <2>1 DEF OwnInodes, Unplaced, Unwritten, Uncommitted
  <2>3. /\ inode'[Meta(c)].len \in {0, 1}
        /\ inode'[Meta(c)].len = 1 => inode'[Meta(c)].payload \in Payloads
    <3>1. /\ inode[Meta(c)].len \in {0, 1} /\ inode[Meta(c)].durable \in Nat
          /\ inode[Meta(c)].durable <= inode[Meta(c)].len
      BY <2>1 DEF IInv, TypeOK, Contents, OwnWrites
    <3> QED BY <1>3, <2>1, <3>1 DEF OwnWrites
  <2>4. OwnWrites(c)'
    BY <1>2, <2>1, <2>3 DEF OwnWrites
  <2> QED BY <2>2, <2>4
<1>6. VisibleWhole'
  <2>1. ASSUME journal[Object] # None PROVE WholeInode(journal[Object])'
    <3> DEFINE i == journal[Object]
    <3>1. i \in Inodes /\ WholeInode(i)
      BY <2>1 DEF IInv, TypeOK, VisibleWhole, Object, Names
    <3>2. inode[i].durable # 0 /\ inode[i].durable = Size[inode[i].payload]
      BY <3>1, SizeAssumption DEF WholeInode
    <3> QED BY <1>1, <1>3, <3>1, <3>2 DEF WholeInode
  <2> QED BY <1>1, <1>2, <2>1 DEF VisibleWhole
<1>7. NamesSorted' /\ SidecarsWritten' /\ ReaderInPlace'
  BY <1>1, <1>2 DEF IInv, NamesSorted, Sorted, SidecarsWritten, ReaderInPlace
<1>8. PlacedStays' /\ DeletesInPlace'
  BY <1>1, <1>2 DEF PlacedStays, DeletesInPlace, Calls
<1> QED BY <1>4, <1>5, <1>6, <1>7, <1>8 DEF IInv

-----------------------------------------------------------------------------
LEMMA StepInv == IInv /\ [Next]_vars => IInv'
<1> SUFFICES ASSUME IInv, [Next]_vars PROVE IInv'
  OBVIOUS
<1>1. ASSUME NEW c \in Puts, NEW p \in Payloads, StartPut(c, p) PROVE IInv'
  BY <1>1, StartPutInv
<1>2. ASSUME NEW c \in Puts, Put(c) PROVE IInv'
  BY <1>2, OpenStagingInv, WriteChunkInv, SyncInv, PlaceObjectInv, OpenSidecarInv,
     WriteSidecarInv, CommitSidecarInv DEF Put
<1>3. ASSUME NEW c \in Deletes, StartDelete(c) \/ Delete(c) PROVE IInv'
  BY <1>3, DeleteStepInv
<1>4. CASE OpenObject \/ ReadChunk \/ CloseObject
  BY <1>4, ReadingInv
<1>5. CASE (\E i \in Inodes : Writeback(i)) \/ CommitJournal
  BY <1>5, WritebackInv, CommitJournalInv
<1>6. CASE Kill \/ PowerLoss
  BY <1>6, KillInv, PowerLossInv
<1>7. CASE UNCHANGED vars
  BY <1>7 DEF vars, disk, locals, reading, IInv, TypeOK, NamesSorted, Sorted, OwnInodes, OwnWrites,
     VisibleWhole, WholeInode, SidecarsWritten, ReaderInPlace, PlacedStays, DeletesInPlace
<1> QED BY <1>1, <1>2, <1>3, <1>4, <1>5, <1>6, <1>7 DEF Next

LEMMA ObjectFromInv == IInv => ObjectWhole
BY DEF IInv, VisibleWhole, WholeInode, ObjectWhole

LEMMA ReadsFromInv == IInv => ReadsWhole
<1> SUFFICES ASSUME IInv, eof PROVE \E p \in Payloads : got = [payloads |-> {p}, len |-> Size[p]]
  BY DEF ReadsWhole
<1>1. reader # None /\ got.len = inode[reader].len
      /\ got.payloads = IF got.len = 0 THEN {} ELSE {inode[reader].payload}
  BY DEF IInv, ReaderInPlace
<1>2. inode[reader].payload \in Payloads /\ inode[reader].len = Size[inode[reader].payload]
  BY <1>1 DEF IInv, VisibleWhole, WholeInode
<1>3. got.len = Size[inode[reader].payload] /\ got.payloads = {inode[reader].payload}
  BY <1>1, <1>2, SizeAssumption
<1>4. got = [payloads |-> got.payloads, len |-> got.len]
  BY DEF IInv, TypeOK
<1> QED BY <1>2, <1>3, <1>4

LEMMA SidecarFromInv == IInv => SidecarTornByLossOnly
BY DEF IInv, SidecarsWritten, SidecarTornByLossOnly

LEMMA HeadFromInv == IInv => HeadNamesAnUpload
<1> SUFFICES ASSUME IInv, dir[Object] # None PROVE HeadEtag \in {Whole(p) : p \in Payloads}
  BY DEF HeadNamesAnUpload
<1>1. \A p \in Payloads : Whole(p) = [payload |-> p, len |-> Size[p]]
  BY NoneAssumption DEF Whole
<1>2. CASE Readable(dir[Sidecar])
  <2>1. PICK c \in Puts : dir[Sidecar] = Meta(c)
    BY <1>2 DEF Readable, IInv, NamesSorted, Sorted, Metas, Meta
  <2>2. inode[dir[Sidecar]].payload \in Payloads
    BY <1>2, <2>1 DEF Readable, IInv, OwnWrites
  <2> QED BY <1>2, <2>2 DEF HeadEtag
<1>3. CASE ~Readable(dir[Sidecar])
  <2>1. /\ inode[dir[Object]].payload \in Payloads
        /\ inode[dir[Object]].len = Size[inode[dir[Object]].payload]
    BY DEF IInv, VisibleWhole, WholeInode
  <2>2. HeadEtag = Whole(inode[dir[Object]].payload)
    BY <1>1, <1>3, <2>1 DEF HeadEtag
  <2> QED BY <2>1, <2>2
<1> QED BY <1>2, <1>3

LEMMA StaysFromInv == IInv => NeverVanishes
BY DEF IInv, PlacedStays, DeletesInPlace, NeverVanishes, Calls

-----------------------------------------------------------------------------
(* Theorems.                                                               *)

\* The strengthening is an invariant of every behaviour.
THEOREM Invariance == Spec => []IInv
<1>1. IInv /\ [Next]_vars => IInv'
  BY StepInv
<1> QED BY InitInv, <1>1, PTL DEF Spec

\* put, delete and their interruptions keep every variable in its range; in particular a
\* file is never longer than the upload it came from.
THEOREM TypeCorrect == Spec => []TypeOK
<1>1. IInv => TypeOK
  BY DEF IInv
<1> QED BY Invariance, <1>1, PTL

\* The fsync before the rename makes every visible object a complete upload, however
\* puts, deletes, kills and power losses follow each other.
THEOREM ObjectsAreWhole == Spec => []ObjectWhole
BY Invariance, ObjectFromInv, PTL

\* A reader that reaches the end has one complete upload, since names are replaced and
\* files are not.
THEOREM ReadsAreWhole == Spec => []ReadsWhole
BY Invariance, ReadsFromInv, PTL

\* _atomic_write_text leaves a truncated sidecar after a power loss only.
THEOREM SidecarsTornByLossOnly == Spec => []SidecarTornByLossOnly
BY Invariance, SidecarFromInv, PTL

\* head reports the hash of a complete upload in every state of object and sidecar.
THEOREM HeadsNameUploads == Spec => []HeadNamesAnUpload
BY Invariance, HeadFromInv, PTL

\* Without a delete, a key that was acknowledged, or that the journal holds, stays.
THEOREM KeysNeverVanish == Spec => []NeverVanishes
BY Invariance, StaysFromInv, PTL
=============================================================================
