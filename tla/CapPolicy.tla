------------------------------ MODULE CapPolicy ------------------------------
(***************************************************************************)
(* The byte caps of uploads: resolve_s2s_cap (validation/size_caps.py) and *)
(* resolve_user_cap (validation/prefix_policy.py) walk a configured map in *)
(* its order and keep the longest entry the key or the content type starts *)
(* with.                                                                   *)
(***************************************************************************)
EXTENDS Texts

CONSTANTS
  Lower,         \* lower-case characters of content types
  UpperOf,       \* [Lower -> Characters]: their upper-case forms
  Entries,       \* prefixes that may be configured, "" among them
  CapOf,         \* [Entries -> Nat]: the caps configured for them
  Default,       \* STORAGE_MAX_OBJECT_BYTES
  Refused        \* 415

Upper == {UpperOf[char] : char \in Lower}

ASSUME CaseAssumption ==
  /\ {" ", ";"} \cup Lower \cup Upper \subseteq Characters
  /\ Lower \cap Upper = {} /\ {" ", ";"} \cap (Lower \cup Upper) = {}
ASSUME EntriesAssumption ==
  /\ Entries \subseteq Seq(Characters) /\ IsFiniteSet(Entries) /\ "none" \notin Characters
  /\ CapOf \in [Entries -> Nat] /\ Default \in Nat /\ Refused \notin Nat

\* A map as the settings parse it: its keys, in the order in which they were written.
CapMaps == SetToAllKPermutations(Entries)

-----------------------------------------------------------------------------
\* No entry has matched yet.
NoEntry == <<"none">>

\* Mutant of Better: the last entry that matches wins.
BetterLast(entry, best) == TRUE

Better(entry, best) == best = NoEntry \/ Len(entry) > Len(best)

\* The loop over the map.
Longest(caps, t) ==
  FoldLeft(LAMBDA best, entry :
             IF StartsWith(t, entry) /\ Better(entry, best) THEN entry ELSE best,
           NoEntry, caps)

ServiceCap(caps, key) ==
  IF Longest(caps, key) = NoEntry THEN Default ELSE CapOf[Longest(caps, key)]

\* (content_type or "").split(";", 1)[0].strip().lower()
BaseOf(t) ==
  LET cuts == {i \in DOMAIN t : t[i] = ";"}
  IN IF cuts = {} THEN t ELSE SubSeq(t, 1, Min(cuts) - 1)

Strip(t) ==
  LET inked == {i \in DOMAIN t : t[i] # " "}
  IN IF inked = {} THEN <<>> ELSE SubSeq(t, Min(inked), Max(inked))

LowerOf(char) ==
  IF char \in Upper THEN CHOOSE low \in Lower : UpperOf[low] = char ELSE char

\* Mutant of Normal: the type is compared as it was sent.
NormalAsSent(t) == BaseOf(t)

Normal(t) ==
  LET stripped == Strip(BaseOf(t)) IN [i \in DOMAIN stripped |-> LowerOf(stripped[i])]

\* The empty type stands for a missing header too.
UserCap(caps, t) ==
  LET type == Normal(t)
      entry == Longest(caps, type)
  IN IF type = <<>> \/ entry = NoEntry THEN Refused ELSE CapOf[entry]

-----------------------------------------------------------------------------
(* Properties.                                                             *)

Matches(caps, t) == {caps[i] : i \in {j \in DOMAIN caps : StartsWith(t, caps[j])}}

\* Texts over the characters of content types; what else a text holds is all one here.
IsType(t) == CharactersOf(t) \subseteq Lower \cup Upper \cup {" ", ";"}

\* The order in which the map was written does not matter: of the entries that match
\* a text the longest gives its cap, and the default applies if there is none.
LongestEntryWins ==
  IsType(text) => \A caps \in CapMaps :
    IF Matches(caps, text) = {} THEN ServiceCap(caps, text) = Default
    ELSE \E entry \in Matches(caps, text) :
           /\ ServiceCap(caps, text) = CapOf[entry]
           /\ \A other \in Matches(caps, text) : Len(other) <= Len(entry)

\* The cap of a type depends neither on its case nor on parameters or blanks that
\* surround it.
SameTypeSameCap ==
  IsType(text) => \A caps \in CapMaps :
    /\ UserCap(caps, [i \in DOMAIN text |-> LowerOf(text[i])]) = UserCap(caps, text)
    /\ UserCap(caps, <<" ">> \o BaseOf(text) \o <<" ", ";">> \o text) = UserCap(caps, text)
=============================================================================
