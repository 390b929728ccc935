---------------------------- MODULE MCValidation ----------------------------
(* KeyGrammar and CapPolicy over the same texts, and values for their      *)
(* constants in the TLC run.                                               *)
EXTENDS KeyGrammar, CapPolicy, TLC

\* A bucket whose name is the beginning of others, "aa" among them.
BucketA == <<"a">>
RootA == << <<"A">> >>
\* "a/" is for services only.
PrefixA == <<"a", "/">>

TypeLetters == {"a"}
Capitals == "a" :> "A"
\* Nested prefixes.
PrefixMap == {<<>>, <<"a">>, <<"a", "a">>}
Caps == <<>> :> 1 @@ <<"a">> :> 2 @@ <<"a", "a">> :> 3
=============================================================================
