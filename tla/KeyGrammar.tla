----------------------------- MODULE KeyGrammar -----------------------------
(***************************************************************************)
(* Which keys are accepted (validation/key_grammar.py), which files they   *)
(* name (drivers/paths.py, os.path.join and realpath), and which of them   *)
(* the write policy keeps from users (check_user_writable).  The policy    *)
(* compares text, the disk resolves names: they must not disagree.         *)
(***************************************************************************)
EXTENDS Texts

CONSTANTS
  Letters,       \* characters that stand for [A-Za-z0-9_-]
  MaxKeyLen,     \* MAX_KEY_LEN
  MaxSegmentLen, \* MAX_SEGMENT_LEN
  StorageRoot,   \* the path of STORAGE_ROOT, as a sequence of names
  Bucket,        \* a name of STORAGE_BUCKETS
  ServiceOnly    \* an entry of STORAGE_SERVICE_ONLY_PREFIXES

ASSUME LettersAssumption ==
  Letters \subseteq Characters /\ {".", "/", "@"} \subseteq Characters \ Letters
ASSUME LengthsAssumption == MaxKeyLen \in Nat /\ MaxSegmentLen \in Nat

\* A name that a directory can have.
IsName(name) ==
  /\ name \in Seq(Characters) \ {<<>>, <<".">>, <<".", ".">>}
  /\ "/" \notin CharactersOf(name)

\* realpath(STORAGE_ROOT), and a bucket that _BUCKET_RE matches.
ASSUME RootAssumption ==
  /\ StorageRoot \in Seq(Seq(Characters)) /\ IsName(Bucket)
  /\ \A i \in DOMAIN StorageRoot : IsName(StorageRoot[i])

-----------------------------------------------------------------------------
\* key.split("/")
Split(key) ==
  FoldLeft(LAMBDA segments, char :
             IF char = "/" THEN Append(segments, <<>>)
             ELSE [segments EXCEPT ![Len(segments)] = Append(@, char)],
           <<<<>>>>, key)

\* The entry is written as keys are: names between single "/".
ASSUME ServiceOnlyAssumption ==
  LET names == Split(ServiceOnly)
  IN  /\ ServiceOnly \in Seq(Characters)
      /\ \A i \in DOMAIN names : IsName(names[i]) \/ (i = Len(names) /\ names[i] = <<>>)

\* Mutant of SegmentOk: the name of the parent directory is a legal segment.
SegmentOkDots(segment, allowAt) ==
  /\ segment \notin {<<>>, <<".">>}
  /\ Len(segment) <= MaxSegmentLen
  /\ CharactersOf(segment) \subseteq Letters \cup {"."} \cup IF allowAt THEN {"@"} ELSE {}

\* Mutant of SegmentOk: empty segments and "." are skipped, not refused.
SegmentOkEmpty(segment, allowAt) ==
  /\ segment # <<".", ".">>
  /\ Len(segment) <= MaxSegmentLen
  /\ CharactersOf(segment) \subseteq Letters \cup {"."} \cup IF allowAt THEN {"@"} ELSE {}

SegmentOk(segment, allowAt) ==
  /\ segment \notin {<<>>, <<".">>, <<".", ".">>}
  /\ Len(segment) <= MaxSegmentLen
  /\ CharactersOf(segment) \subseteq Letters \cup {"."} \cup IF allowAt THEN {"@"} ELSE {}

\* "." in last and last.rsplit(".", 1)[1] != ""
HasExtension(segment) == "." \in CharactersOf(segment) /\ Last(segment) # "."

\* validate_key; the characters it looks for first ("\", "%", controls) are outside the
\* charset of every segment.
Valid(k, allowAt) ==
  /\ Len(k) \in 1..MaxKeyLen
  /\ k[1] # "/"
  /\ \A i \in DOMAIN Split(k) : SegmentOk(Split(k)[i], allowAt)
  /\ HasExtension(Last(Split(k)))

\* check_user_writable
UserWritable(k) == ~StartsWith(k, ServiceOnly)

-----------------------------------------------------------------------------
(* Paths.  An absolute path is the sequence of its names from "/"; there   *)
(* are no symbolic links below the storage root.                           *)

\* What the operating system makes of "", "." and "..".
Resolve(names) ==
  FoldLeft(LAMBDA path, name :
             IF name \in {<<>>, <<".">>} THEN path
             ELSE IF name = <<".", ".">> THEN (IF path = <<>> THEN path ELSE Front(path))
             ELSE Append(path, name),
           <<>>, names)

\* os.path.join starts over at an absolute component.
Join(root, key) == IF StartsWith(key, <<"/">>) THEN Split(key) ELSE root \o Split(key)

Spelled(path) == FoldLeft(LAMBDA t, name : t \o <<"/">> \o name, <<>>, path)

\* Mutant of Within: the separator is left out of the comparison.
WithinText(root, path) == StartsWith(Spelled(path), Spelled(root))

\* _assert_within compares resolved paths as text.
Within(root, path) == path = root \/ StartsWith(Spelled(path), Spelled(root) \o <<"/">>)

BucketRoot == Append(StorageRoot, Bucket)

\* The file object_path(root, bucket, key) names, if the assertion holds.
ObjectFile(k) == Resolve(Join(BucketRoot, k))
AssertionHolds(k) == Within(BucketRoot, ObjectFile(k))

-----------------------------------------------------------------------------
(* Properties.                                                             *)

\* An accepted key is the exact path of its file below the bucket, so two keys never
\* share a file and the driver's own assertion never fires on one.
AcceptedIsCanonical ==
  Valid(text, TRUE) => ObjectFile(text) = BucketRoot \o Split(text) /\ AssertionHolds(text)

\* The check of the driver, meant for keys that passed no grammar, lets through the
\* bucket and what is below it, and nothing beside it.
AssertionIsExact ==
  AssertionHolds(text) <=> IsPrefix(BucketRoot, ObjectFile(text))

\* A file below the service-only directory cannot be named by a key that the policy
\* takes for one that users may write.
PolicyBindsFiles ==
  Valid(text, FALSE) /\ UserWritable(text) =>
    ~IsStrictPrefix(Resolve(BucketRoot \o Split(ServiceOnly)), ObjectFile(text))
=============================================================================
