------------------------------- MODULE KeyTree -------------------------------
(***************************************************************************)
(* Keys as paths that share directories (src/drivers/local_fs.py).  A key  *)
(* may be the directory of another ("a.x", "a.x/b.x"), the sidecar of one  *)
(* may be the directory of another's sidecar ("a.x" keeps its sidecar at   *)
(* .meta/a.x.json, "a.x.json/b.x" needs a directory there), and nothing    *)
(* ever removes a directory.  list walks and pages over the same tree      *)
(* while puts and deletes go on.                                           *)
(*                                                                         *)
(* Conflicts of names and names that are too long are the only causes of   *)
(* errors here; staging, contents and other failures are in LocalFsDriver. *)
(***************************************************************************)
EXTENDS Naturals, FiniteSets

CONSTANTS
  Calls,         \* slots for puts and deletes in flight
  Paths,         \* names of files and directories below the storage root
  Dirs,          \* [Paths -> SUBSET Paths]: the directories a path lies in
  Roots,         \* <bucket> and .meta/<bucket>, made by ensure_layout
  Bucket,        \* the root of the objects
  Keys,          \* paths of objects
  Sidecar,       \* [Keys -> Paths]: .meta/<bucket>/<key>.json
  TooLong,       \* keys whose "<name>.json.<uuid>.tmp" exceeds the limit of a name
  Rank,          \* the place of a key in the order of texts, from 1
  Prefixed,      \* keys that begin with the prefix list is called with
  Limit,         \* the limit list is called with
  None

ASSUME DirsAssumption ==
  /\ Dirs \in [Paths -> SUBSET Paths]
  /\ \A p \in Paths : p \notin Dirs[p] /\ \A d \in Dirs[p] : Dirs[d] \subseteq Dirs[p]
  /\ \A p \in Paths : \A d \in Dirs[p] :   \* d's entry on the way to p
       \E e \in Dirs[p] \cup {p} : Dirs[e] = Dirs[d] \cup {d}
ASSUME RootsAssumption ==
  /\ Bucket \in Roots
  /\ Roots \subseteq Paths
  /\ \A r \in Roots : Dirs[r] = {}
ASSUME KeysAssumption ==
  /\ Keys \subseteq Paths \ Roots
  /\ IsFiniteSet(Keys)
  /\ \A k \in Keys : Bucket \in Dirs[k]
  /\ TooLong \subseteq Keys
  /\ Prefixed \subseteq Keys
  /\ Sidecar \in [Keys -> Paths \ (Keys \cup Roots)]
ASSUME RankAssumption ==
  /\ Rank \in [Keys -> 1..Cardinality(Keys)]
  /\ \A j, k \in Keys : Rank[j] = Rank[k] => j = k
ASSUME LimitAssumption == Limit \in Nat \ {0}
ASSUME NoneAssumption == None \notin Keys

VARIABLES
  tree,          \* [Paths -> {"none", "file", "dir"}]
  orphans,       \* keys with an ownerless sidecar staging file
  pc, key,       \* where each call is, and its key
  res,           \* what each call will answer
  lister,        \* where the pager is
  todo,          \* directories os.walk has still to read
  walked,        \* keys it has found
  page,          \* keys of the page that head has still to look at
  cursor,        \* rank of the last key of the previous page, 0 before the first
  more,          \* the page has a next_cursor
  hits,          \* [Keys -> Nat]: how often the pages have returned a key
  steady         \* of the keys with the prefix, those stored ever since the first page
                 \* was asked for; serves PagingExact only

calls == <<pc, key, res>>
paging == <<lister, todo, walked, page, cursor, more, hits>>
vars == <<tree, orphans, calls, paging, steady>>

-----------------------------------------------------------------------------
Stored == {k \in Keys : tree[k] = "file"}

Init ==
  /\ tree = [p \in Paths |-> IF p \in Roots THEN "dir" ELSE "none"]
  /\ orphans = {}
  /\ pc = [c \in Calls |-> "idle"]
  /\ key = [c \in Calls |-> None]
  /\ res = [c \in Calls |-> "pending"]
  /\ lister = "idle"
  /\ todo = {}
  /\ walked = {}
  /\ page = {}
  /\ cursor = 0
  /\ more = FALSE
  /\ hits = [k \in Keys |-> 0]
  /\ steady = {}

Goto(c, label) == pc' = [pc EXCEPT ![c] = label]
Answer(c, status) == res' = [res EXCEPT ![c] = status]

\* The only way the tree changes; what is no longer stored has not been all the time.
Turn(p, kind) ==
  /\ tree' = [tree EXCEPT ![p] = kind]
  /\ steady' = IF kind = "file" THEN steady ELSE steady \ {p}

Start(c, k, label) ==
  /\ pc[c] = "idle"
  /\ key' = [key EXCEPT ![c] = k]
  /\ Goto(c, label)
  /\ UNCHANGED <<tree, orphans, res, paging, steady>>

\* create: if_none_match="*".
StartPut(c, k, create) == Start(c, k, IF create THEN "exists" ELSE "dirs")
StartDelete(c, k) == Start(c, k, "unlink")

Return(c) ==
  /\ pc[c] = "done"
  /\ Goto(c, "idle")
  /\ key' = [key EXCEPT ![c] = None]
  /\ Answer(c, "pending")
  /\ UNCHANGED <<tree, orphans, paging, steady>>

-----------------------------------------------------------------------------
(* put                                                                     *)

\* What NotADirectoryError, FileExistsError and IsADirectoryError become.
Raised == "io_error"

\* os.path.exists holds for a directory, too.
CheckExists(c) ==
  /\ pc[c] = "exists"
  /\ IF tree[key[c]] # "none"
     THEN Answer(c, "exists") /\ Goto(c, "done")
     ELSE Goto(c, "dirs") /\ UNCHANGED res
  /\ UNCHANGED <<tree, orphans, key, paging, steady>>

Blocked(p) == \E d \in Dirs[p] : tree[d] = "file"
Missing(p) == {d \in Dirs[p] : tree[d] = "none"}

\* Mutant of MakeDir: a file that is in the way is taken for left-over.
MakeDirOver(p) ==
  \E d \in Dirs[p] :
    /\ tree[d] # "dir"
    /\ \A e \in Dirs[d] : tree[e] = "dir"
    /\ Turn(d, "dir")

\* One mkdir of makedirs(dirname(p), exist_ok=True), which goes from the top down.
MakeDir(p) ==
  /\ ~Blocked(p)
  /\ \E d \in Missing(p) :
       /\ Dirs[d] \cap Missing(p) = {}
       /\ Turn(d, "dir")

MakeObjectDir(c) ==
  /\ pc[c] = "dirs"
  /\ MakeDir(key[c])
  /\ UNCHANGED <<orphans, calls, paging>>

\* makedirs is through, or raises because a file is in its way.
ObjectDirsDone(c) ==
  /\ pc[c] = "dirs"
  /\ \/ /\ Blocked(key[c])
        /\ Answer(c, Raised)
        /\ Goto(c, "done")
     \/ /\ \A d \in Dirs[key[c]] : tree[d] = "dir"
        /\ Goto(c, "place")
        /\ UNCHANGED res
  /\ UNCHANGED <<tree, orphans, key, paging, steady>>

\* A file is not renamed over a directory, not even an empty one.
PlaceObject(c) ==
  /\ pc[c] = "place"
  /\ IF tree[key[c]] = "dir"
     THEN Answer(c, Raised) /\ Goto(c, "done") /\ UNCHANGED <<tree, steady>>
     ELSE Turn(key[c], "file") /\ Answer(c, "stored") /\ Goto(c, "meta_dirs")
  /\ UNCHANGED <<orphans, key, paging>>

MakeSidecarDir(c) ==
  /\ pc[c] = "meta_dirs"
  /\ MakeDir(Sidecar[key[c]])
  /\ UNCHANGED <<orphans, calls, paging>>

\* Best effort: a put whose sidecar has no place, or whose staging name is too long
\* to be opened, is done.
SidecarDirsDone(c) ==
  /\ pc[c] = "meta_dirs"
  /\ \/ Blocked(Sidecar[key[c]]) /\ Goto(c, "done")
     \/ /\ \A d \in Dirs[Sidecar[key[c]]] : tree[d] = "dir"
        /\ Goto(c, IF key[c] \in TooLong THEN "done" ELSE "commit")
  /\ UNCHANGED <<tree, orphans, key, res, paging, steady>>

\* Mutant of CommitSidecar: a sidecar that is there is left as it is.
CommitSidecarOnce(c) ==
  /\ pc[c] = "commit"
  /\ IF tree[Sidecar[key[c]]] # "none"
     THEN orphans' = orphans \cup {key[c]} /\ UNCHANGED <<tree, steady>>
     ELSE Turn(Sidecar[key[c]], "file") /\ UNCHANGED orphans
  /\ Goto(c, "done")
  /\ UNCHANGED <<key, res, paging>>

\* _atomic_write_text: the staging file is written beside the sidecar; when its
\* rename meets a directory it stays there.
CommitSidecar(c) ==
  /\ pc[c] = "commit"
  /\ IF tree[Sidecar[key[c]]] = "dir"
     THEN orphans' = orphans \cup {key[c]} /\ UNCHANGED <<tree, steady>>
     ELSE Turn(Sidecar[key[c]], "file") /\ UNCHANGED orphans
  /\ Goto(c, "done")
  /\ UNCHANGED <<key, res, paging>>

-----------------------------------------------------------------------------
(* delete: a directory is not removed, and counts as absent.               *)

\* Mutant of UnlinkObject: a directory that the delete has emptied goes with it.
UnlinkObjectPruning(c) ==
  /\ pc[c] = "unlink"
  /\ IF tree[key[c]] = "file"
     THEN /\ tree' = [p \in Paths |->
                IF \/ p = key[c]
                   \/ /\ p \in Dirs[key[c]] \ Roots
                      /\ \A q \in Paths : p \in Dirs[q] /\ tree[q] # "none" => q = key[c]
                THEN "none" ELSE tree[p]]
          /\ steady' = steady \ {key[c]}
          /\ Answer(c, "deleted")
     ELSE Answer(c, "absent") /\ UNCHANGED <<tree, steady>>
  /\ Goto(c, "meta_unlink")
  /\ UNCHANGED <<orphans, key, paging>>

UnlinkObject(c) ==
  /\ pc[c] = "unlink"
  /\ IF tree[key[c]] = "file"
     THEN Turn(key[c], "none") /\ Answer(c, "deleted")
     ELSE Answer(c, "absent") /\ UNCHANGED <<tree, steady>>
  /\ Goto(c, "meta_unlink")
  /\ UNCHANGED <<orphans, key, paging>>

UnlinkSidecar(c) ==
  /\ pc[c] = "meta_unlink"
  /\ IF tree[Sidecar[key[c]]] = "file"
     THEN Turn(Sidecar[key[c]], "none")
     ELSE UNCHANGED <<tree, steady>>
  /\ Goto(c, "done")
  /\ UNCHANGED <<orphans, key, res, paging>>

-----------------------------------------------------------------------------
(* list: a client asks for page after page until there is no next_cursor.  *)

served == <<tree, orphans, calls>>

AskFirstPage ==
  /\ lister = "idle"
  /\ lister' = "walk"
  /\ todo' = {Bucket}
  /\ steady' = Stored \cap Prefixed
  /\ UNCHANGED <<served, walked, page, cursor, more, hits>>

\* os.walk reads one directory, keeps its files and descends into the directories
\* it has seen there.
ReadDir ==
  /\ lister = "walk"
  /\ \E d \in todo :
       LET entries == {p \in Paths : Dirs[p] = Dirs[d] \cup {d}} IN
       /\ walked' = walked \cup (entries \cap Stored \cap Prefixed)
       /\ todo' = (todo \ {d}) \cup {p \in entries : tree[p] = "dir"}
  /\ UNCHANGED <<served, lister, page, cursor, more, hits, steady>>

\* Mutant of After: the key of the cursor is on the next page again.
AfterIncluding(keys) == {k \in keys : Rank[k] >= cursor}

After(keys) == {k \in keys : Rank[k] > cursor}

\* The first n keys in the order of their texts.
First(keys, n) == {k \in keys : Cardinality({j \in keys : Rank[j] <= Rank[k]}) <= n}

\* Sorted, from the cursor on, cut at the limit.  next_cursor is the last key of the
\* page, even if head will find that it is gone.
CutPage ==
  /\ lister = "walk"
  /\ todo = {}
  /\ page' = First(After(walked), Limit)
  /\ more' = (Cardinality(After(walked)) > Limit)
  /\ cursor' = IF \E k \in page' : TRUE
               THEN CHOOSE r \in {Rank[k] : k \in page'} : \A k \in page' : Rank[k] <= r
               ELSE cursor
  /\ walked' = {}
  /\ lister' = "heads"
  /\ UNCHANGED <<served, todo, hits, steady>>

\* One head per key of the page, in order; what it does not find is left out.
HeadKey ==
  /\ lister = "heads"
  /\ \E k \in First(page, 1) :
       /\ hits' = IF k \in Stored THEN [hits EXCEPT ![k] = @ + 1] ELSE hits
       /\ page' = page \ {k}
  /\ UNCHANGED <<served, lister, todo, walked, cursor, more, steady>>

AskNextPage ==
  /\ lister = "heads"
  /\ page = {}
  /\ IF more
     THEN lister' = "walk" /\ todo' = {Bucket}
     ELSE lister' = "end" /\ UNCHANGED todo
  /\ UNCHANGED <<served, walked, page, cursor, more, hits, steady>>

-----------------------------------------------------------------------------
CallStep(c) ==
  \/ CheckExists(c)
  \/ MakeObjectDir(c) \/ ObjectDirsDone(c) \/ PlaceObject(c)
  \/ MakeSidecarDir(c) \/ SidecarDirsDone(c) \/ CommitSidecar(c)
  \/ UnlinkObject(c) \/ UnlinkSidecar(c)

StartCall(c) ==
  \E k \in Keys : StartDelete(c, k) \/ \E create \in BOOLEAN : StartPut(c, k, create)

ListStep == AskFirstPage \/ ReadDir \/ CutPage \/ HeadKey \/ AskNextPage

Next == (\E c \in Calls : StartCall(c) \/ CallStep(c) \/ Return(c)) \/ ListStep

Spec == Init /\ [][Next]_vars

-----------------------------------------------------------------------------
(* Properties.                                                             *)

Labels == {"idle", "exists", "dirs", "place", "meta_dirs", "commit", "unlink",
           "meta_unlink", "done"}

TypeOK ==
  /\ tree \in [Paths -> {"none", "file", "dir"}]
  /\ orphans \subseteq Keys
  /\ pc \in [Calls -> Labels]
  /\ key \in [Calls -> Keys \cup {None}]
  /\ \A c \in Calls : pc[c] = "idle" <=> key[c] = None
  /\ res \in [Calls -> {"pending", "exists", "stored", "io_error", "deleted", "absent"}]
  /\ lister \in {"idle", "walk", "heads", "end"}
  /\ todo \subseteq Paths
  /\ walked \subseteq Prefixed
  /\ page \subseteq Prefixed
  /\ cursor \in Nat
  /\ more \in BOOLEAN
  /\ hits \in [Keys -> Nat]
  /\ steady \subseteq Prefixed

\* Between makedirs and rename nobody, no delete above all, takes the directory away:
\* both renames of a put find the place they were promised.
RenameHasItsDirs ==
  \A c \in Calls :
    /\ pc[c] = "place" => \A d \in Dirs[key[c]] : tree[d] = "dir"
    /\ pc[c] = "commit" => \A d \in Dirs[Sidecar[key[c]]] : tree[d] = "dir"

\* However keys nest, an object disappears only by a delete of its own key: neither a
\* put below it nor the sidecar of another key takes its place.
OnlyItsDeleteRemovesAKey ==
  [][\A k \in Keys : tree[k] = "file" /\ tree'[k] # "file" =>
       \E c \in Calls : key[c] = k /\ res[c] = "pending" /\ res'[c] = "deleted"]_vars

\* Without disk errors and crashes a sidecar's staging file is left behind for one
\* reason only: the name of the sidecar has become a directory, for good.
OrphansExplained ==
  \A k \in orphans : tree[Sidecar[k]] = "dir"

\* The pages of a listing return no key twice, and each key that was stored all along
\* once, although every page walks the tree anew while puts and deletes go on.
PagingExact ==
  /\ \A k \in Keys : hits[k] <= 1
  /\ lister = "end" => \A k \in steady : hits[k] = 1

=============================================================================
