----------------------------- MODULE KeyTreeProofs -----------------------------
(***************************************************************************)
(* Theorems about KeyTree, for any number of puts and deletes in flight    *)
(* and any nesting of keys and sidecars.                                   *)
(***************************************************************************)
EXTENDS KeyTree, FiniteSetTheorems, WellFoundedInduction, TLAPS

-----------------------------------------------------------------------------
(* The inductive invariant.                                                *)

\* A call has an answer only once it has earned it.
AnswersPending ==
  \A c \in Calls : pc[c] \in {"idle", "exists", "dirs", "place", "unlink"} =>
    res[c] = "pending"

\* No object hangs in the air.
ObjectsHaveDirs ==
  \A k \in Keys : tree[k] = "file" => \A d \in Dirs[k] : tree[d] = "dir"

\* What the pager knows of the key k.
KeyInPlace(k) ==
  /\ k \in page => Rank[k] <= cursor /\ hits[k] = 0
  /\ hits[k] <= 1
  /\ hits[k] > 0 => Rank[k] <= cursor
  /\ k \in steady =>
       /\ tree[k] = "file"
       /\ Rank[k] <= cursor => hits[k] = 1 \/ k \in page
       /\ lister = "walk" => k \in walked \/ \E d \in todo : d \in Dirs[k]
       /\ lister = "end" \/ (lister = "heads" /\ ~more) => Rank[k] <= cursor

PagesInPlace ==
  /\ lister # "heads" => page = {}
  /\ lister # "walk" => todo = {} /\ walked = {}
  /\ lister = "idle" => cursor = 0
  /\ \A k \in Keys : KeyInPlace(k)

IInv ==
  /\ TypeOK
  /\ AnswersPending
  /\ RenameHasItsDirs
  /\ OrphansExplained
  /\ ObjectsHaveDirs
  /\ PagesInPlace

LEMMA InitInv == Init => IInv
<1> SUFFICES ASSUME Init PROVE IInv
  OBVIOUS
<1>1. TypeOK
  BY DEF Init, TypeOK, Labels
<1>2. AnswersPending /\ RenameHasItsDirs /\ OrphansExplained
  BY DEF Init, AnswersPending, RenameHasItsDirs, OrphansExplained
<1>3. ObjectsHaveDirs
  BY KeysAssumption DEF Init, ObjectsHaveDirs
<1>4. PagesInPlace
  BY DEF Init, PagesInPlace, KeyInPlace
<1> QED BY <1>1, <1>2, <1>3, <1>4 DEF IInv

-----------------------------------------------------------------------------
(* The tree.                                                               *)

\* Where a call is, its key is a key.
LEMMA KeyIsKey ==
  ASSUME TypeOK, NEW c \in Calls, pc[c] # "idle"
  PROVE  key[c] \in Keys /\ key[c] \in Paths /\ Sidecar[key[c]] \in Paths \ Keys
BY KeysAssumption DEF TypeOK

\* The ways in which the tree changes.
LEMMA TreeChange ==
  ASSUME TypeOK, [Next]_vars, tree' # tree
  PROVE  \E p \in Paths, kind \in {"none", "file", "dir"}, c \in Calls :
           /\ Turn(p, kind)
           /\ paging' = paging
           /\ \/ kind = "dir" /\ tree[p] = "none"
                 /\ pc[c] \in {"dirs", "meta_dirs"} /\ UNCHANGED <<orphans, calls>>
              \/ kind = "file" /\ tree[p] # "dir" /\ pc[c] # "idle"
                 /\ \/ PlaceObject(c) /\ p = key[c]
                    \/ CommitSidecar(c) /\ p = Sidecar[key[c]]
              \/ kind = "none" /\ tree[p] = "file"
                 /\ \/ UnlinkObject(c) /\ p = key[c]
                    \/ UnlinkSidecar(c) /\ p = Sidecar[key[c]]
<1>1. ~ListStep /\ ~UNCHANGED vars
  BY DEF ListStep, AskFirstPage, ReadDir, CutPage, HeadKey, AskNextPage, served, vars
<1>2. PICK c \in Calls : CallStep(c)
  BY <1>1 DEF Next, StartCall, StartPut, StartDelete, Start, Return
<1>3. pc[c] # "idle"
  BY <1>2 DEF CallStep, CheckExists, MakeObjectDir, ObjectDirsDone, PlaceObject, MakeSidecarDir,
              SidecarDirsDone, CommitSidecar, UnlinkObject, UnlinkSidecar
<1>4. key[c] \in Keys /\ key[c] \in Paths /\ Sidecar[key[c]] \in Paths
  BY <1>3, KeyIsKey
<1>5. ASSUME NEW q \in Paths, MakeDir(q)
      PROVE  \E p \in Paths : tree[p] = "none" /\ Turn(p, "dir")
  BY <1>5, DirsAssumption DEF MakeDir, Missing
<1>6. CASE MakeObjectDir(c) \/ MakeSidecarDir(c)
  BY <1>4, <1>5, <1>6 DEF MakeObjectDir, MakeSidecarDir
<1>7. CASE PlaceObject(c)
  <2>1. Turn(key[c], "file") /\ paging' = paging /\ tree[key[c]] # "dir"
    BY <1>7 DEF PlaceObject
  <2> QED BY <1>3, <1>4, <1>7, <2>1
<1>8. CASE CommitSidecar(c)
  BY <1>3, <1>4, <1>8 DEF CommitSidecar
<1>9. CASE UnlinkObject(c) \/ UnlinkSidecar(c)
  <2>1. CASE UnlinkObject(c)
    <3>1. Turn(key[c], "none") /\ paging' = paging /\ tree[key[c]] = "file"
      BY <2>1 DEF UnlinkObject
    <3> QED BY <1>4, <2>1, <3>1
  <2>2. CASE UnlinkSidecar(c)
    <3>1. Turn(Sidecar[key[c]], "none") /\ paging' = paging /\ tree[Sidecar[key[c]]] = "file"
      BY <2>2 DEF UnlinkSidecar
    <3> QED BY <1>4, <2>2, <3>1
  <2> QED BY <1>9, <2>1, <2>2
<1> QED BY <1>2, <1>6, <1>7, <1>8, <1>9 DEF CallStep, CheckExists, ObjectDirsDone, SidecarDirsDone

\* Nobody ever removes a directory.
LEMMA DirsStay ==
  ASSUME TypeOK, [Next]_vars, NEW p \in Paths, tree[p] = "dir"
  PROVE  tree'[p] = "dir"
<1>1. CASE tree' # tree
  <2>1. PICK q \in Paths, kind \in {"none", "file", "dir"} :
          Turn(q, kind) /\ (kind = "dir" \/ tree[q] # "dir")
    BY <1>1, TreeChange
  <2> QED BY <2>1 DEF Turn, TypeOK
<1> QED BY <1>1

\* A put that has come to a label has come there from the one before.
LEMMA Arrivals ==
  ASSUME TypeOK, [Next]_vars, NEW c \in Calls
  PROVE  /\ pc'[c] = "place" => /\ UNCHANGED key[c]
                                /\ pc[c] = "place" \/ \A d \in Dirs[key[c]] : tree[d] = "dir"
         /\ pc'[c] = "commit" =>
              /\ UNCHANGED key[c]
              /\ pc[c] = "commit" \/ \A d \in Dirs[Sidecar[key[c]]] : tree[d] = "dir"
<1>1. CASE UNCHANGED calls
  BY <1>1 DEF calls
<1>2. CASE ListStep
  BY <1>2 DEF ListStep, AskFirstPage, ReadDir, CutPage, HeadKey, AskNextPage, served, calls
<1>3. ASSUME NEW b \in Calls, StartCall(b) \/ Return(b)
      PROVE  pc'[c] \notin {"place", "commit"} \/ (pc'[c] = pc[c] /\ key'[c] = key[c])
  BY <1>3 DEF StartCall, StartPut, StartDelete, Start, Return, Goto, TypeOK
<1>4. ASSUME NEW b \in Calls, CallStep(b), b # c
      PROVE  pc'[c] = pc[c] /\ key'[c] = key[c]
  BY <1>4 DEF CallStep, CheckExists, MakeObjectDir, ObjectDirsDone, PlaceObject, MakeSidecarDir,
              SidecarDirsDone, CommitSidecar, UnlinkObject, UnlinkSidecar, Goto, calls, TypeOK
<1>5. CASE CallStep(c)
  <2>1. CASE ObjectDirsDone(c)
    BY <2>1 DEF ObjectDirsDone, Goto, TypeOK
  <2>2. CASE SidecarDirsDone(c)
    BY <2>2 DEF SidecarDirsDone, Goto, TypeOK
  <2>3. CASE MakeObjectDir(c) \/ MakeSidecarDir(c)
    BY <2>3 DEF MakeObjectDir, MakeSidecarDir, calls
  <2>4. CASE CheckExists(c) \/ PlaceObject(c) \/ CommitSidecar(c) \/ UnlinkObject(c) \/ UnlinkSidecar(c)
    BY <2>4 DEF CheckExists, PlaceObject, CommitSidecar, UnlinkObject, UnlinkSidecar, Goto, TypeOK
  <2> QED BY <1>5, <2>1, <2>2, <2>3, <2>4 DEF CallStep
<1> QED BY <1>1, <1>2, <1>3, <1>4, <1>5 DEF Next, vars

LEMMA RenameStep ==
  ASSUME IInv, TypeOK', [Next]_vars
  PROVE  RenameHasItsDirs'
<1> SUFFICES ASSUME NEW c \in Calls
             PROVE  /\ pc'[c] = "place" => \A d \in Dirs[key'[c]] : tree'[d] = "dir"
                    /\ pc'[c] = "commit" => \A d \in Dirs[Sidecar[key'[c]]] : tree'[d] = "dir"
  BY DEF RenameHasItsDirs
<1>1. TypeOK
  BY DEF IInv
<1>2. ASSUME pc'[c] = "place", NEW d \in Dirs[key'[c]] PROVE tree'[d] = "dir"
  <2>1. key'[c] \in Paths
    BY <1>2, KeysAssumption DEF TypeOK
  <2>2. d \in Paths
    BY <2>1, DirsAssumption
  <2>3. tree[d] = "dir"
    BY <1>1, <1>2, Arrivals DEF IInv, RenameHasItsDirs
  <2> QED BY <1>1, <2>2, <2>3, DirsStay
<1>3. ASSUME pc'[c] = "commit", NEW d \in Dirs[Sidecar[key'[c]]] PROVE tree'[d] = "dir"
  <2>1. Sidecar[key'[c]] \in Paths
    BY <1>3, KeysAssumption DEF TypeOK
  <2>2. d \in Paths
    BY <2>1, DirsAssumption
  <2>3. tree[d] = "dir"
    BY <1>1, <1>3, Arrivals DEF IInv, RenameHasItsDirs
  <2> QED BY <1>1, <2>2, <2>3, DirsStay
<1> QED BY <1>2, <1>3

\* Committing a sidecar is the only way to an orphan.
LEMMA OrphanStep ==
  ASSUME IInv, TypeOK', [Next]_vars
  PROVE  OrphansExplained'
<1> SUFFICES ASSUME NEW k \in orphans' PROVE tree'[Sidecar[k]] = "dir"
  BY DEF OrphansExplained
<1>1. TypeOK /\ k \in Keys /\ Sidecar[k] \in Paths
  BY KeysAssumption DEF IInv, TypeOK
<1>2. tree[Sidecar[k]] = "dir"
  <2>1. CASE k \in orphans
    BY <2>1 DEF IInv, OrphansExplained
  <2>2. ASSUME NEW c \in Calls, CommitSidecar(c) PROVE tree[Sidecar[k]] = "dir"
    BY <2>1, <2>2 DEF CommitSidecar
  <2>3. CASE UNCHANGED orphans
    BY <2>1, <2>3
  <2> QED
    BY <2>2, <2>3
       DEF Next, vars, StartCall, StartPut, StartDelete, Start, Return, CallStep, CheckExists,
           MakeObjectDir, ObjectDirsDone, PlaceObject, MakeSidecarDir, SidecarDirsDone,
           UnlinkObject, UnlinkSidecar, ListStep, AskFirstPage, ReadDir, CutPage, HeadKey,
           AskNextPage, served
<1> QED BY <1>1, <1>2, DirsStay

LEMMA ObjectsStep ==
  ASSUME IInv, TypeOK', [Next]_vars
  PROVE  ObjectsHaveDirs'
<1> SUFFICES ASSUME NEW k \in Keys, tree'[k] = "file", NEW d \in Dirs[k]
             PROVE  tree'[d] = "dir"
  BY DEF ObjectsHaveDirs
<1>1. TypeOK /\ k \in Paths /\ d \in Paths
  BY KeysAssumption, DirsAssumption DEF IInv
<1>2. tree[d] = "dir"
  <2>1. CASE tree[k] = "file"
    BY <2>1 DEF IInv, ObjectsHaveDirs
  <2>2. CASE tree[k] # "file"
    <3>1. PICK p \in Paths, kind \in {"none", "file", "dir"}, c \in Calls :
            /\ Turn(p, kind)
            /\ kind = "file" => \/ PlaceObject(c) /\ p = key[c]
                                \/ pc[c] # "idle" /\ p = Sidecar[key[c]]
      BY <1>1, <2>2, TreeChange
    <3>2. p = k /\ kind = "file"
      BY <1>1, <2>2, <3>1 DEF Turn, TypeOK
    <3>3. PlaceObject(c) /\ k = key[c]
      BY <1>1, <3>1, <3>2, KeyIsKey
    <3> QED BY <3>3 DEF PlaceObject, IInv, RenameHasItsDirs
  <2> QED BY <2>1, <2>2
<1> QED BY <1>1, <1>2, DirsStay

-----------------------------------------------------------------------------
(* Calls.                                                                  *)

LEMMA AnswersStep ==
  ASSUME IInv, TypeOK', [Next]_vars
  PROVE  AnswersPending'
<1> SUFFICES ASSUME NEW c \in Calls, pc'[c] \in {"idle", "exists", "dirs", "place", "unlink"}
             PROVE  res'[c] = "pending"
  BY DEF AnswersPending
<1>0. TypeOK /\ AnswersPending
  BY DEF IInv
<1>1. CASE UNCHANGED calls
  BY <1>0, <1>1 DEF calls, AnswersPending
<1>2. ASSUME NEW b \in Calls, StartCall(b) PROVE res'[c] = "pending"
  BY <1>0, <1>2 DEF StartCall, StartPut, StartDelete, Start, Goto, TypeOK, AnswersPending
<1>3. ASSUME NEW b \in Calls, Return(b) PROVE res'[c] = "pending"
  BY <1>0, <1>3 DEF Return, Goto, Answer, TypeOK, AnswersPending
<1>4. ASSUME NEW b \in Calls, CheckExists(b) \/ ObjectDirsDone(b) PROVE res'[c] = "pending"
  BY <1>0, <1>4 DEF CheckExists, ObjectDirsDone, Goto, Answer, TypeOK, AnswersPending
<1>5. ASSUME NEW b \in Calls, PlaceObject(b) \/ SidecarDirsDone(b) PROVE res'[c] = "pending"
  BY <1>0, <1>5 DEF PlaceObject, SidecarDirsDone, Goto, Answer, TypeOK, AnswersPending
<1>6. ASSUME NEW b \in Calls, CommitSidecar(b) \/ UnlinkObject(b) \/ UnlinkSidecar(b)
      PROVE  res'[c] = "pending"
  BY <1>0, <1>6 DEF CommitSidecar, UnlinkObject, UnlinkSidecar, Goto, Answer, TypeOK, AnswersPending
<1> QED
  BY <1>1, <1>2, <1>3, <1>4, <1>5, <1>6
     DEF Next, vars, CallStep, MakeObjectDir, MakeSidecarDir, ListStep, AskFirstPage, ReadDir,
         CutPage, HeadKey, AskNextPage, served, calls

\* The steps of calls keep the types, and leave the pager alone.
LEMMA CallTypes ==
  ASSUME TypeOK, NEW c \in Calls, StartCall(c) \/ CallStep(c) \/ Return(c)
  PROVE  TypeOK' /\ UNCHANGED paging /\ steady' \subseteq steady
<1>1. UNCHANGED paging
  BY DEF StartCall, StartPut, StartDelete, Start, Return, CallStep, CheckExists, MakeObjectDir,
         ObjectDirsDone, PlaceObject, MakeSidecarDir, SidecarDirsDone, CommitSidecar,
         UnlinkObject, UnlinkSidecar
<1>2. steady' \subseteq steady
  BY DEF StartCall, StartPut, StartDelete, Start, Return, CallStep, CheckExists, MakeObjectDir,
         ObjectDirsDone, PlaceObject, MakeSidecarDir, SidecarDirsDone, CommitSidecar,
         UnlinkObject, UnlinkSidecar, MakeDir, Turn
<1>3. tree' \in [Paths -> {"none", "file", "dir"}]
  BY DEF StartCall, StartPut, StartDelete, Start, Return, CallStep, CheckExists, MakeObjectDir,
         ObjectDirsDone, PlaceObject, MakeSidecarDir, SidecarDirsDone, CommitSidecar,
         UnlinkObject, UnlinkSidecar, MakeDir, Turn, TypeOK
<1>4. /\ pc' \in [Calls -> Labels]
      /\ res' \in [Calls -> {"pending", "exists", "stored", "io_error", "deleted", "absent"}]
  BY DEF StartCall, StartPut, StartDelete, Start, Return, CallStep, CheckExists, MakeObjectDir,
         ObjectDirsDone, PlaceObject, MakeSidecarDir, SidecarDirsDone, CommitSidecar,
         UnlinkObject, UnlinkSidecar, Goto, Answer, Raised, calls, Labels, TypeOK
<1>5. /\ key' \in [Calls -> Keys \cup {None}]
      /\ \A b \in Calls : pc'[b] = "idle" <=> key'[b] = None
  <2>1. CASE StartCall(c) \/ Return(c)
    BY <2>1, NoneAssumption DEF StartCall, StartPut, StartDelete, Start, Return, Goto, TypeOK
  <2>2. CASE CallStep(c)
    BY <2>2 DEF CallStep, CheckExists, MakeObjectDir,
         ObjectDirsDone, PlaceObject, MakeSidecarDir, SidecarDirsDone, CommitSidecar,
         UnlinkObject, UnlinkSidecar, Goto, calls, TypeOK
  <2> QED BY <2>1, <2>2
<1>6. orphans' \subseteq Keys
  <2>1. CASE CommitSidecar(c)
    BY <2>1, KeyIsKey DEF CommitSidecar, TypeOK
  <2>2. CASE ~CommitSidecar(c)
    BY <2>2 DEF StartCall, StartPut, StartDelete, Start, Return, CallStep, CheckExists, MakeObjectDir,
         ObjectDirsDone, PlaceObject, MakeSidecarDir, SidecarDirsDone,
         UnlinkObject, UnlinkSidecar, TypeOK
  <2> QED BY <2>1, <2>2
<1>7. /\ lister' \in {"idle", "walk", "heads", "end"} /\ todo' \subseteq Paths
      /\ walked' \subseteq Prefixed /\ page' \subseteq Prefixed /\ cursor' \in Nat
      /\ more' \in BOOLEAN /\ hits' \in [Keys -> Nat] /\ steady' \subseteq Prefixed
  BY <1>1, <1>2 DEF paging, TypeOK
<1> QED BY <1>1, <1>2, <1>3, <1>4, <1>5, <1>6, <1>7 DEF TypeOK

-----------------------------------------------------------------------------
(* Pages.                                                                  *)

LEMMA RanksAreNumbers ==
  /\ Cardinality(Keys) \in Nat
  /\ \A k \in Keys : Rank[k] \in Nat /\ Rank[k] \in 1..Cardinality(Keys)
<1>1. Cardinality(Keys) \in Nat
  BY KeysAssumption, FS_CardinalityType
<1> QED BY <1>1, RankAssumption

\* Numbers with a bound have a greatest one.
LEMMA GreatestNumber ==
  ASSUME NEW n \in Nat, NEW S \in SUBSET (1..n), S # {}
  PROVE  \E r \in S : \A s \in S : s <= r
<1> DEFINE U == {m \in Nat : \A s \in S : s <= m}
<1>1. n \in U
  OBVIOUS
<1>2. PICK m \in U : \A y \in U : <<y, m>> \notin OpToRel(<, Nat)
  BY <1>1, NatLessThanWellFounded, WFMin
<1>3. \A y \in U : ~(y < m)
  BY <1>2 DEF OpToRel
<1>4. PICK t \in S : TRUE
  OBVIOUS
<1>5. CASE m \notin S
  <2>1. t \in Nat /\ 1 <= t /\ t <= m /\ m \in Nat
    BY <1>4
  <2>2. m - 1 \in Nat
    BY <2>1
  <2>3. \A s \in S : s \in Nat /\ s <= m /\ s # m
    BY <1>5
  <2>4. m - 1 \in U
    BY <2>1, <2>2, <2>3
  <2> QED BY <1>3, <2>1, <2>4
<1> QED BY <1>5

\* A page holds the lowest keys, and all of them if there are no more than fit.
LEMMA FirstIsLowest ==
  ASSUME NEW A \in SUBSET Keys, NEW n \in Nat
  PROVE  /\ First(A, n) \subseteq A
         /\ \A k \in A \ First(A, n), j \in First(A, n) : Rank[j] < Rank[k]
         /\ Cardinality(A) <= n => First(A, n) = A
<1> DEFINE Upto(k) == {i \in A : Rank[i] <= Rank[k]}
<1>1. \A k \in A : Rank[k] \in Nat
  BY RanksAreNumbers
<1>2. IsFiniteSet(A) /\ Cardinality(A) \in Nat
  BY KeysAssumption, FS_Subset, FS_CardinalityType
<1>3. ASSUME NEW k \in A
      PROVE  /\ IsFiniteSet(Upto(k)) /\ Cardinality(Upto(k)) \in Nat
             /\ Cardinality(Upto(k)) <= Cardinality(A)
  <2>1. Upto(k) \in SUBSET A
    OBVIOUS
  <2> HIDE DEF Upto
  <2> QED BY <1>2, <2>1, FS_Subset, FS_CardinalityType
<1>4. ASSUME NEW k \in A \ First(A, n), NEW j \in First(A, n), ~(Rank[j] < Rank[k])
      PROVE  FALSE
  <2>1. j \in A /\ Rank[k] <= Rank[j]
    BY <1>1, <1>4 DEF First
  <2>2. Upto(k) \in SUBSET Upto(j)
    BY <1>1, <2>1
  <2>3. Cardinality(Upto(j)) <= n /\ ~(Cardinality(Upto(k)) <= n)
    BY <1>4 DEF First
  <2> HIDE DEF Upto
  <2>4. Cardinality(Upto(k)) <= Cardinality(Upto(j))
    BY <1>3, <2>1, <2>2, FS_Subset
  <2> QED BY <1>3, <2>1, <2>3, <2>4
<1>5. ASSUME Cardinality(A) <= n, NEW k \in A
      PROVE  k \in First(A, n)
  <2>1. Cardinality(Upto(k)) <= n
    <3>1. /\ Cardinality(Upto(k)) \in Nat
          /\ Cardinality(Upto(k)) <= Cardinality(A)
      BY <1>3, <1>5
    <3> HIDE DEF Upto
    <3> QED BY <1>2, <1>5, <3>1
  <2> QED BY <2>1 DEF First
<1> QED BY <1>4, <1>5 DEF First

\* The cursor goes on to the last key of the page, or stays.
LEMMA CursorFacts ==
  ASSUME IInv, CutPage
  PROVE  /\ page' = First(After(walked), Limit) /\ page' \subseteq After(walked)
         /\ After(walked) \in SUBSET Keys
         /\ cursor' \in Nat /\ cursor <= cursor'
         /\ \A k \in page' : Rank[k] <= cursor'
         /\ cursor' = cursor \/ \E k \in page' : cursor' = Rank[k]
<1>1. walked \subseteq Keys /\ cursor \in Nat
  BY KeysAssumption DEF IInv, TypeOK
<1>2. After(walked) \in SUBSET Keys
  BY <1>1 DEF After
<1>3. page' = First(After(walked), Limit) /\ page' \subseteq After(walked)
  BY <1>2, LimitAssumption, FirstIsLowest DEF CutPage
<1>4. CASE page' = {}
  BY <1>1, <1>2, <1>3, <1>4 DEF CutPage
<1>5. CASE page' # {}
  <2> DEFINE S == {Rank[k] : k \in page'}
  <2>1. S # {} /\ S \in SUBSET (1..Cardinality(Keys))
    BY <1>2, <1>3, <1>5, RanksAreNumbers
  <2>2. \E r \in S : \A s \in S : s <= r
    BY <2>1, RanksAreNumbers, GreatestNumber
  <2>3. \E r \in S : \A k \in page' : Rank[k] <= r
    BY <2>2
  <2>4. cursor' = CHOOSE r \in S : \A k \in page' : Rank[k] <= r
    BY <1>5 DEF CutPage
  <2>5. cursor' \in S /\ \A k \in page' : Rank[k] <= cursor'
    BY <2>3, <2>4
  <2>6. PICK j \in page' : cursor' = Rank[j]
    BY <2>5
  <2>7. cursor < Rank[j] /\ Rank[j] \in Nat
    BY <1>2, <1>3, <2>6, RanksAreNumbers DEF After
  <2> QED BY <1>1, <1>2, <1>3, <2>5, <2>6, <2>7
<1> QED BY <1>4, <1>5

LEMMA ListTypes ==
  ASSUME IInv, ListStep
  PROVE  TypeOK'
<1>1. TypeOK
  BY DEF IInv
<1>2. CASE AskFirstPage
  BY <1>1, <1>2, RootsAssumption DEF AskFirstPage, served, calls, TypeOK
<1>3. CASE ReadDir
  BY <1>1, <1>3 DEF ReadDir, served, calls, TypeOK
<1>4. CASE CutPage
  <2>1. cursor' \in Nat /\ page' \subseteq walked
    BY <1>4, CursorFacts DEF After
  <2> QED BY <1>1, <1>4, <2>1 DEF CutPage, served, calls, TypeOK
<1>5. CASE HeadKey
  <2>1. PICK k : /\ hits' = IF k \in Stored THEN [hits EXCEPT ![k] = @ + 1] ELSE hits
                 /\ page' = page \ {k}
    BY <1>5 DEF HeadKey
  <2>2. hits' \in [Keys -> Nat]
    BY <1>1, <2>1 DEF Stored, TypeOK
  <2> QED BY <1>1, <1>5, <2>1, <2>2 DEF HeadKey, served, calls, TypeOK
<1>6. CASE AskNextPage
  BY <1>1, <1>6, RootsAssumption DEF AskNextPage, served, calls, TypeOK
<1> QED BY <1>2, <1>3, <1>4, <1>5, <1>6 DEF ListStep

\* While calls run, the pager loses only keys that are no longer steady.
LEMMA CallPages ==
  ASSUME IInv, [Next]_vars, UNCHANGED paging, steady' \subseteq steady, TypeOK'
  PROVE  PagesInPlace'
<1>1. ASSUME NEW k \in Keys, k \in steady' PROVE tree'[k] = "file"
  <2>1. tree[k] = "file"
    BY <1>1 DEF IInv, PagesInPlace, KeyInPlace
  <2>2. CASE tree' # tree
    <3>1. PICK p \in Paths, kind \in {"none", "file", "dir"} : Turn(p, kind) /\ (kind = "dir" => tree[p] = "none")
      BY <2>2, TreeChange DEF IInv
    <3>2. k \in Paths
      BY KeysAssumption
    <3> QED BY <1>1, <2>1, <3>1, <3>2 DEF Turn, IInv, TypeOK
  <2> QED BY <2>1, <2>2
<1>2. ASSUME NEW k \in Keys PROVE KeyInPlace(k)'
  BY <1>1 DEF IInv, PagesInPlace, KeyInPlace, paging
<1> QED BY <1>2 DEF IInv, PagesInPlace, paging

LEMMA AskPages ==
  ASSUME IInv, AskFirstPage \/ AskNextPage
  PROVE  PagesInPlace'
<1>1. \A k \in Keys : Bucket \in Dirs[k] /\ Rank[k] \in Nat /\ 1 <= Rank[k]
  BY KeysAssumption, RanksAreNumbers
<1>2. CASE AskFirstPage
  <2>1. cursor = 0 /\ page = {} /\ cursor' = 0 /\ page' = {} /\ lister' = "walk" /\ todo' = {Bucket}
    BY <1>2 DEF IInv, PagesInPlace, AskFirstPage
  <2>2. hits' = hits /\ tree' = tree /\ steady' \subseteq Stored
    BY <1>2 DEF AskFirstPage, served
  <2>3. ASSUME NEW k \in Keys PROVE KeyInPlace(k)'
    BY <1>1, <2>1, <2>2 DEF IInv, PagesInPlace, KeyInPlace, Stored
  <2> QED BY <2>1, <2>3 DEF PagesInPlace
<1>3. CASE AskNextPage /\ more
  <2>1. page = {} /\ page' = {} /\ lister = "heads" /\ lister' = "walk" /\ todo' = {Bucket}
    BY <1>3 DEF AskNextPage
  <2>2. hits' = hits /\ tree' = tree /\ steady' = steady /\ cursor' = cursor
    BY <1>3 DEF AskNextPage, served
  <2>3. ASSUME NEW k \in Keys PROVE KeyInPlace(k)'
    BY <1>1, <2>1, <2>2 DEF IInv, PagesInPlace, KeyInPlace
  <2> QED BY <2>1, <2>3 DEF PagesInPlace
<1>4. CASE AskNextPage /\ ~more
  <2>1. page = {} /\ page' = {} /\ lister = "heads" /\ lister' = "end" /\ todo' = todo /\ walked' = walked
    BY <1>4 DEF AskNextPage
  <2>2. hits' = hits /\ tree' = tree /\ steady' = steady /\ cursor' = cursor
    BY <1>4 DEF AskNextPage, served
  <2>3. ASSUME NEW k \in Keys PROVE KeyInPlace(k)'
    BY <1>4, <2>1, <2>2 DEF IInv, PagesInPlace, KeyInPlace
  <2> QED BY <2>1, <2>2, <2>3 DEF IInv, PagesInPlace
<1> QED BY <1>2, <1>3, <1>4

\* A directory that is read hands each steady key below it on, to the keys found or to
\* the directory on the way to it.
LEMMA ReadPages ==
  ASSUME IInv, ReadDir
  PROVE  PagesInPlace'
<1>1. PICK d \in todo :
        LET entries == {p \in Paths : Dirs[p] = Dirs[d] \cup {d}} IN
        /\ walked' = walked \cup (entries \cap Stored \cap Prefixed)
        /\ todo' = (todo \ {d}) \cup {p \in entries : tree[p] = "dir"}
  BY DEF ReadDir
<1>2. /\ lister = "walk" /\ page = {} /\ UNCHANGED <<tree, page, cursor, hits, steady, lister, more>>
  BY DEF ReadDir, IInv, PagesInPlace, served
<1>3. ASSUME NEW k \in Keys, k \in steady PROVE k \in walked' \/ \E e \in todo' : e \in Dirs[k]
  <2>1. tree[k] = "file" /\ k \in Paths /\ k \in Prefixed
    BY <1>3, KeysAssumption DEF IInv, PagesInPlace, KeyInPlace, TypeOK
  <2>2. CASE k \in walked \/ \E e \in todo \ {d} : e \in Dirs[k]
    BY <1>1, <2>2
  <2>3. CASE d \in Dirs[k]
    <3>1. PICK e \in Dirs[k] \cup {k} : Dirs[e] = Dirs[d] \cup {d}
      BY <2>1, <2>3, DirsAssumption
    <3>2. CASE e = k
      BY <1>1, <2>1, <3>1, <3>2 DEF Stored
    <3>3. CASE e \in Dirs[k]
      <4>1. tree[e] = "dir" /\ e \in Paths
        BY <2>1, <3>3, DirsAssumption DEF IInv, ObjectsHaveDirs
      <4> QED BY <1>1, <3>1, <3>3, <4>1
    <3> QED BY <3>1, <3>2, <3>3
  <2> QED BY <1>2, <1>3, <2>2, <2>3 DEF IInv, PagesInPlace, KeyInPlace
<1>4. ASSUME NEW k \in Keys PROVE KeyInPlace(k)'
  BY <1>2, <1>3 DEF IInv, PagesInPlace, KeyInPlace
<1> QED BY <1>2, <1>4 DEF PagesInPlace

\* What the cut leaves for later pages lies beyond the new cursor.
LEMMA CutPages ==
  ASSUME IInv, CutPage
  PROVE  PagesInPlace'
<1> DEFINE A == After(walked)
<1>1. /\ page' = First(A, Limit) /\ page' \subseteq A /\ A \in SUBSET Keys
      /\ cursor \in Nat /\ cursor' \in Nat /\ cursor <= cursor'
      /\ \A k \in page' : Rank[k] <= cursor'
      /\ cursor' = cursor \/ \E k \in page' : cursor' = Rank[k]
  BY CursorFacts DEF IInv, TypeOK
<1>2. /\ lister = "walk" /\ lister' = "heads" /\ page = {} /\ todo = {} /\ todo' = {} /\ walked' = {}
      /\ UNCHANGED <<tree, hits, steady>>
      /\ more' = (Cardinality(A) > Limit)
  BY DEF CutPage, IInv, PagesInPlace, served
<1>3. ASSUME NEW k \in Keys PROVE KeyInPlace(k)'
  <2>1. /\ Rank[k] \in Nat /\ hits[k] \in Nat /\ hits[k] <= 1
        /\ hits[k] > 0 => Rank[k] <= cursor
        /\ k \in steady => tree[k] = "file" /\ (Rank[k] <= cursor => hits[k] = 1) /\ k \in walked
    BY <1>2, RanksAreNumbers DEF IInv, TypeOK, PagesInPlace, KeyInPlace
  <2>2. k \in page' => Rank[k] <= cursor' /\ hits[k] = 0
    BY <1>1, <2>1 DEF After
  <2>3. hits[k] > 0 => Rank[k] <= cursor'
    BY <1>1, <2>1
  <2>4. ASSUME k \in steady, Rank[k] <= cursor' PROVE hits[k] = 1 \/ k \in page'
    <3>1. CASE Rank[k] > cursor /\ k \notin page'
      <4>1. k \in A
        BY <2>1, <2>4, <3>1 DEF After
      <4>2. \A j \in page' : Rank[j] < Rank[k]
        BY <1>1, <3>1, <4>1, LimitAssumption, FirstIsLowest
      <4>3. \A j \in page' : Rank[j] \in Nat
        BY <1>1, RanksAreNumbers
      <4> QED BY <1>1, <2>1, <2>4, <3>1, <4>2, <4>3
    <3> QED BY <1>1, <2>1, <2>4, <3>1
  <2>5. ASSUME k \in steady, ~more' PROVE Rank[k] <= cursor'
    <3>1. CASE Rank[k] > cursor
      <4>1. k \in A
        BY <2>1, <2>5, <3>1 DEF After
      <4>2. IsFiniteSet(A)
        BY <1>1, KeysAssumption, FS_Subset
      <4>3. Cardinality(A) \in Nat
        BY <4>2, FS_CardinalityType
      <4>4. Cardinality(A) <= Limit
        <5>1. ~(Cardinality(A) > Limit)
          BY <1>2, <2>5, Zenon
        <5> QED BY <4>3, <5>1, LimitAssumption
      <4>5. page' = A
        BY <1>1, <4>4, LimitAssumption, FirstIsLowest
      <4> QED BY <1>1, <4>1, <4>5
    <3> QED BY <1>1, <2>1, <3>1
  <2> QED BY <1>2, <2>1, <2>2, <2>3, <2>4, <2>5 DEF KeyInPlace
<1> QED BY <1>2, <1>3 DEF PagesInPlace

LEMMA HeadPages ==
  ASSUME IInv, HeadKey
  PROVE  PagesInPlace'
<1>1. PICK k \in First(page, 1) :
        /\ hits' = IF k \in Stored THEN [hits EXCEPT ![k] = @ + 1] ELSE hits
        /\ page' = page \ {k}
  BY DEF HeadKey
<1>2. lister = "heads" /\ UNCHANGED <<tree, cursor, steady, lister, more, todo, walked>>
  BY DEF HeadKey, served
<1>3. page \subseteq Keys /\ k \in page /\ k \in Keys
  BY <1>1, KeysAssumption DEF First, IInv, TypeOK
<1>4. hits[k] = 0 /\ Rank[k] <= cursor /\ (k \in steady => k \in Stored)
  BY <1>3 DEF IInv, PagesInPlace, KeyInPlace, Stored
<1>5. ASSUME NEW j \in Keys PROVE KeyInPlace(j)'
  <2>1. hits \in [Keys -> Nat] /\ KeyInPlace(j)
    BY DEF IInv, TypeOK, PagesInPlace
  <2>2. CASE j = k
    BY <1>1, <1>2, <1>3, <1>4, <2>1, <2>2 DEF KeyInPlace
  <2>3. CASE j # k
    <3>1. hits'[j] = hits[j] /\ (j \in page' <=> j \in page)
      BY <1>1, <2>1, <2>3
    <3> QED BY <1>2, <2>1, <3>1 DEF KeyInPlace
  <2> QED BY <2>2, <2>3
<1> QED BY <1>1, <1>2, <1>5 DEF IInv, PagesInPlace

-----------------------------------------------------------------------------
LEMMA StepInv == IInv /\ [Next]_vars => IInv'
<1> SUFFICES ASSUME IInv, [Next]_vars PROVE IInv'
  OBVIOUS
<1>1. ASSUME NEW c \in Calls, StartCall(c) \/ CallStep(c) \/ Return(c)
      PROVE  TypeOK' /\ PagesInPlace'
  <2>1. TypeOK' /\ UNCHANGED paging /\ steady' \subseteq steady
    BY <1>1, CallTypes DEF IInv
  <2> QED BY <2>1, CallPages
<1>2. ASSUME ListStep PROVE TypeOK' /\ PagesInPlace'
  BY <1>2, ListTypes, AskPages, ReadPages, CutPages, HeadPages DEF ListStep
<1>3. ASSUME UNCHANGED vars PROVE TypeOK' /\ PagesInPlace'
  BY <1>3 DEF IInv, TypeOK, PagesInPlace, KeyInPlace, vars, calls, paging
<1>4. TypeOK' /\ PagesInPlace'
  BY <1>1, <1>2, <1>3 DEF Next
<1> QED BY <1>4, RenameStep, OrphanStep, ObjectsStep, AnswersStep DEF IInv

\* The invariant from which the theorems below follow.
THEOREM Invariance == Spec => []IInv
BY InitInv, StepInv, PTL DEF Spec

-----------------------------------------------------------------------------
(* What keys may rely on.                                                  *)

\* The state is well typed.
THEOREM TypeCorrect == Spec => []TypeOK
<1>1. IInv => TypeOK
  BY DEF IInv
<1> QED BY <1>1, Invariance, PTL

\* However many puts and deletes share directories, both renames of a put find theirs.
THEOREM RenamesFindTheirDirs == Spec => []RenameHasItsDirs
<1>1. IInv => RenameHasItsDirs
  BY DEF IInv
<1> QED BY <1>1, Invariance, PTL

\* Without errors of the disk, a sidecar's staging file stays behind only where the
\* sidecar's name is that of a directory.
THEOREM OrphansAreExplained == Spec => []OrphansExplained
<1>1. IInv => OrphansExplained
  BY DEF IInv
<1> QED BY <1>1, Invariance, PTL

\* For any number of pages and any puts and deletes between and during them: no key is
\* listed twice, and one that stays is listed.
THEOREM ListingIsExact == Spec => []PagingExact
<1>1. IInv => PagingExact
  <2> SUFFICES ASSUME IInv PROVE PagingExact
    OBVIOUS
  <2>1. \A k \in Keys : hits[k] <= 1
    BY DEF IInv, PagesInPlace, KeyInPlace
  <2>2. ASSUME lister = "end", NEW k \in steady PROVE hits[k] = 1
    <3>1. k \in Keys /\ page = {}
      BY <2>2, KeysAssumption DEF IInv, TypeOK, PagesInPlace
    <3> QED BY <2>2, <3>1 DEF IInv, PagesInPlace, KeyInPlace
  <2> QED BY <2>1, <2>2 DEF PagingExact
<1> QED BY <1>1, Invariance, PTL

\* An object disappears only by a delete of its own key, whatever keys lie below it or
\* share its name in the sidecar tree.
THEOREM OnlyDeletesRemove == Spec => OnlyItsDeleteRemovesAKey
<1>1. ASSUME IInv, [Next]_vars
      PROVE  [\A k \in Keys : tree[k] = "file" /\ tree'[k] # "file" =>
                \E c \in Calls : key[c] = k /\ res[c] = "pending" /\ res'[c] = "deleted"]_vars
  <2>1. ASSUME NEW k \in Keys, tree[k] = "file", tree'[k] # "file"
        PROVE  \E c \in Calls : key[c] = k /\ res[c] = "pending" /\ res'[c] = "deleted"
    <3>1. PICK p \in Paths, kind \in {"none", "file", "dir"}, c \in Calls :
            /\ Turn(p, kind)
            /\ \/ kind = "dir" /\ tree[p] = "none"
               \/ kind = "file"
               \/ kind = "none" /\ UnlinkObject(c) /\ p = key[c]
               \/ kind = "none" /\ UnlinkSidecar(c) /\ p = Sidecar[key[c]]
      BY <1>1, <2>1, TreeChange DEF IInv
    <3>2. p = k /\ kind # "file" /\ tree[p] # "none"
      BY <1>1, <2>1, <3>1, KeysAssumption DEF Turn, IInv, TypeOK
    <3>3. UnlinkObject(c) /\ k = key[c]
      <4>1. CASE UnlinkSidecar(c) /\ p = Sidecar[key[c]]
        <5>1. pc[c] # "idle"
          BY <4>1 DEF UnlinkSidecar
        <5> QED BY <1>1, <3>2, <4>1, <5>1, KeyIsKey DEF IInv
      <4> QED BY <3>1, <3>2, <4>1
    <3>4. res[c] = "pending"
      BY <1>1, <3>3 DEF UnlinkObject, IInv, AnswersPending
    <3>5. res'[c] = "deleted"
      BY <1>1, <2>1, <3>3 DEF UnlinkObject, Answer, IInv, TypeOK
    <3> QED BY <3>3, <3>4, <3>5
  <2> QED BY <2>1
<1> QED BY <1>1, Invariance, PTL DEF Spec, OnlyItsDeleteRemovesAKey
=============================================================================
