-------------------------------- MODULE Texts --------------------------------
(***************************************************************************)
(* What a client may send as a key or as a Content-Type: any text over     *)
(* Characters.  The state machine only grows one text after another, up to *)
(* MaxTyped; KeyGrammar and CapPolicy say what is made of them.            *)
(***************************************************************************)
EXTENDS Naturals, Sequences, SequencesExt, FiniteSetsExt

CONSTANTS
  Characters,    \* the alphabet
  MaxTyped       \* bound on the length of a text

ASSUME TypedAssumption == MaxTyped \in Nat

VARIABLE text

Init == text = <<>>
Type == Len(text) < MaxTyped /\ \E char \in Characters : text' = Append(text, char)
\* The longest texts have been tried.
Stop == Len(text) = MaxTyped /\ UNCHANGED text
Next == Type \/ Stop
Spec == Init /\ [][Next]_text

CharactersOf(t) == {t[i] : i \in DOMAIN t}

\* t.startswith(prefix)
StartsWith(t, prefix) == IsPrefix(prefix, t)
=============================================================================
