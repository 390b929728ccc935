------------------------------ MODULE MCKeyTree ------------------------------
(* Values for the constants of KeyTree in its TLC run.  A path is the      *)
(* sequence of its names, beginning with its root.                         *)
EXTENDS KeyTree, SequencesExt, TLC

CONSTANTS c1, c2

Objects == <<"bucket">>
Metas == <<"meta">>

\* a.x may be the directory of a.x/b.x, and the sidecar of a.x that of another.
FileA == Objects \o <<"a.x">>
FileBelowA == FileA \o <<"b.x">>
FileInJson == Objects \o <<"a.x.json", "b.x">>

AllKeys == {FileA, FileBelowA, FileInJson}

\* In the order of texts "." comes before "/".
Order == FileA :> 1 @@ FileInJson :> 2 @@ FileBelowA :> 3

JsonOf == "a.x" :> "a.x.json" @@ "b.x" :> "b.x.json"
SidecarOf == [k \in AllKeys |-> Metas \o SubSeq(k, 2, Len(k) - 1) \o <<JsonOf[Last(k)]>>]

ProperPrefixes(p) == {SubSeq(p, 1, i) : i \in 1..(Len(p) - 1)}
AllPaths ==
  LET files == AllKeys \cup {SidecarOf[k] : k \in AllKeys} IN
  files \cup UNION {ProperPrefixes(p) : p \in files}
DirsOf == [p \in AllPaths |-> ProperPrefixes(p)]
BothRoots == {Objects, Metas}
LongNames == {FileBelowA}

CallSymmetry == Permutations(Calls)
=============================================================================
