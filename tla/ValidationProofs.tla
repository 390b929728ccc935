----------------------------- MODULE ValidationProofs -----------------------------
(***************************************************************************)
(* Theorems about KeyGrammar and CapPolicy, for every alphabet, every      *)
(* configuration and texts of any length.                                  *)
(***************************************************************************)
EXTENDS KeyGrammar, CapPolicy, FiniteSetTheorems, SequenceTheorems, WellFoundedInduction, TLAPS

-----------------------------------------------------------------------------
(* Induction over numbers and over sequences, for the elements of a set.   *)

\* A set of numbers with 0 and all successors holds every number.
LEMMA NatSetInduction ==
  ASSUME NEW S, 0 \in S, \A n \in Nat : n \in S => n + 1 \in S
  PROVE  Nat \subseteq S
<1> SUFFICES ASSUME Nat \ S # {} PROVE FALSE
  OBVIOUS
<1>1. IsWellFoundedOn(OpToRel(<, Nat), Nat)
  BY NatLessThanWellFounded
<1>2. PICK n \in Nat \ S : \A m \in Nat \ S : <<m, n>> \notin OpToRel(<, Nat)
  <2> DEFINE T == Nat \ S
             R == OpToRel(<, Nat)
  <2>1. T \subseteq Nat /\ T # {}
    OBVIOUS
  <2>2. \E x \in T : \A y \in T : ~(<<y, x>> \in R)
    <3> HIDE DEF T, R
    <3> QED BY <1>1, <2>1, WFMin DEF R
  <2> QED BY <2>2
<1>3. n # 0 /\ n - 1 \in Nat /\ n - 1 < n /\ (n - 1) + 1 = n
  OBVIOUS
<1>4. <<n - 1, n>> \in OpToRel(<, Nat)
  BY <1>3 DEF OpToRel
<1>5. n - 1 \in S
  BY <1>2, <1>3, <1>4
<1> QED BY <1>3, <1>5

\* A set with the empty sequence and all one-element extensions of its sequences holds
\* every sequence.
LEMMA SeqSetInduction ==
  ASSUME NEW C, NEW T, <<>> \in T,
         \A s \in Seq(C), c \in C : s \in T => Append(s, c) \in T
  PROVE  Seq(C) \subseteq T
<1> DEFINE S == {n \in Nat : \A s \in Seq(C) : Len(s) = n => s \in T}
<1>1. 0 \in S
  BY EmptySeq
<1>2. ASSUME NEW n \in Nat, n \in S PROVE n + 1 \in S
  <2> SUFFICES ASSUME NEW s \in Seq(C), Len(s) = n + 1 PROVE s \in T
    OBVIOUS
  <2>1. s # <<>>
    BY EmptySeq
  <2>2. PICK r \in Seq(C), c \in C : s = Append(r, c)
    BY <2>1, SequenceEmptyOrAppend
  <2>3. Len(r) = n
    BY <2>2, AppendProperties, LenProperties
  <2> QED BY <1>2, <2>2, <2>3
<1>3. Nat \subseteq S
  <2> HIDE DEF S
  <2> QED BY <1>1, <1>2, NatSetInduction
<1> QED BY <1>3, LenProperties

-----------------------------------------------------------------------------
(* FoldLeft runs over the subsets of the indices of a sequence, the last   *)
(* index of each first.  F is the operator that is folded, as a function.  *)

LEMMA MaxIsMax ==
  ASSUME NEW n \in Nat, NEW s \in SUBSET (1..n), s # {}
  PROVE  Max(s) \in s /\ \A i \in s : i <= Max(s)
<1> DEFINE S == {m \in Nat : \A r \in SUBSET (1..m) : r # {} => \E x \in r : \A y \in r : x >= y}
<1>1. 0 \in S
  <2>1. 1..0 = {}
    OBVIOUS
  <2> QED BY <2>1
<1>2. ASSUME NEW m \in Nat, m \in S PROVE m + 1 \in S
  <2> SUFFICES ASSUME NEW r \in SUBSET (1..(m + 1)), r # {}
               PROVE  \E x \in r : \A y \in r : x >= y
    OBVIOUS
  <2>1. CASE m + 1 \in r
    BY <2>1
  <2>2. CASE m + 1 \notin r
    <3>1. r \in SUBSET (1..m)
      BY <2>2
    <3> QED BY <1>2, <3>1
  <2> QED BY <2>1, <2>2
<1>3. Nat \subseteq S
  <2> HIDE DEF S
  <2> QED BY <1>1, <1>2, NatSetInduction
<1>4. \E x \in s : \A y \in s : x >= y
  BY <1>3
<1> QED BY <1>4 DEF Max

LEMMA MaxOfRange ==
  ASSUME NEW n \in Nat \ {0}
  PROVE  Max(1..n) = n /\ (1..n) \ {Max(1..n)} = 1..(n - 1)
<1>1. Max(1..n) \in 1..n /\ \A i \in 1..n : i <= Max(1..n)
  <2>1. 1..n \in SUBSET (1..n) /\ 1..n # {} /\ n \in Nat
    OBVIOUS
  <2> QED BY <2>1, MaxIsMax
<1>2. Max(1..n) = n
  BY <1>1
<1> QED BY <1>2

\* g folds F over t, a sequence over C, from b, as long as its values are in V.
IsFold(g, C, V, b, F, t) ==
  /\ b \in V
  /\ F \in [V \X C -> V]
  /\ t \in Seq(C)
  /\ g[{}] = b
  /\ \A s \in (SUBSET (DOMAIN t)) \ {{}} :
       g[s \ {Max(s)}] \in V => g[s] = F[<<g[s \ {Max(s)}], t[Max(s)]>>]

\* Something folds F over t.
LEMMA FoldExists ==
  ASSUME NEW C, NEW V, NEW b \in V, NEW F \in [V \X C -> V], NEW t \in Seq(C)
  PROVE  \E g \in [SUBSET (DOMAIN t) -> V] : IsFold(g, C, V, b, F, t)
<1> DEFINE Part(g, m) ==
             /\ g[{}] = b
             /\ \A s \in (SUBSET (1..m)) \ {{}} : g[s] = F[<<g[s \ {Max(s)}], t[Max(s)]>>]
           Reached(m) == \E g \in [SUBSET (1..m) -> V] : Part(g, m)
           S == {m \in Nat : m <= Len(t) => Reached(m)}
<1>1. 0 \in S
  <2> DEFINE g == [s \in SUBSET (1..0) |-> b]
  <2>1. g \in [SUBSET (1..0) -> V] /\ g[{}] = b
    OBVIOUS
  <2>2. (SUBSET (1..0)) \ {{}} = {}
    OBVIOUS
  <2>3. Part(g, 0)
    BY <2>1, <2>2
  <2> HIDE DEF g
  <2> QED BY <2>1, <2>3
<1>2. ASSUME NEW m \in Nat, m \in S PROVE m + 1 \in S
  <2> SUFFICES ASSUME m + 1 <= Len(t) PROVE Reached(m + 1)
    <3> HIDE DEF Reached
    <3> QED OBVIOUS
  <2>1. Len(t) \in Nat /\ DOMAIN t = 1..Len(t)
    BY LenProperties
  <2>2. PICK g \in [SUBSET (1..m) -> V] : Part(g, m)
    <3>1. Reached(m)
      <4> HIDE DEF Reached
      <4> QED BY <1>2, <2>1
    <3> QED BY <3>1
  <2>3. t[m + 1] \in C
    BY <2>1, ElementOfSeq
  <2> DEFINE D == SUBSET (1..(m + 1))
             h == [s \in D |-> IF m + 1 \in s THEN F[<<g[s \ {m + 1}], t[m + 1]>>] ELSE g[s]]
  <2>4. ASSUME NEW s \in D PROVE s \ {m + 1} \in SUBSET (1..m)
    OBVIOUS
  <2>5. h \in [D -> V]
    <3>1. ASSUME NEW s \in D PROVE h[s] \in V
      <4>1. g[s \ {m + 1}] \in V
        BY <2>4
      <4>2. CASE m + 1 \in s
        BY <2>3, <4>1, <4>2
      <4>3. CASE m + 1 \notin s
        <5>1. s \ {m + 1} = s
          BY <4>3
        <5> QED BY <4>1, <4>3, <5>1
      <4> QED BY <4>2, <4>3
    <3> QED BY <3>1
  <2>6. h[{}] = b
    BY <2>2
  <2>7. ASSUME NEW s \in D, s # {}
        PROVE  h[s] = F[<<h[s \ {Max(s)}], t[Max(s)]>>]
    <3>1. Max(s) \in s /\ \A i \in s : i <= Max(s)
      <4>1. m + 1 \in Nat /\ s \in SUBSET (1..(m + 1)) /\ s # {}
        BY <2>7
      <4> QED BY <4>1, MaxIsMax
    <3> s \in SUBSET (1..(m + 1))
      OBVIOUS
    <3>2. CASE m + 1 \in s
      <4>1. Max(s) = m + 1
        <5>1. Max(s) \in 1..(m + 1) /\ m + 1 <= Max(s)
          BY <3>1, <3>2
        <5> QED BY <5>1
      <4>2. h[s \ {m + 1}] = g[s \ {m + 1}]
        OBVIOUS
      <4> QED BY <3>2, <4>1, <4>2
    <3>3. CASE m + 1 \notin s
      <4>1. s \in SUBSET (1..m)
        BY <3>3
      <4>2. s \ {Max(s)} \in D /\ m + 1 \notin s \ {Max(s)}
        BY <3>3
      <4>3. h[s] = g[s] /\ h[s \ {Max(s)}] = g[s \ {Max(s)}]
        BY <3>3, <4>2
      <4> HIDE DEF h, D
      <4> QED BY <2>2, <2>7, <4>1, <4>3
    <3> QED BY <3>2, <3>3
  <2>8. Part(h, m + 1)
    <3> HIDE DEF h
    <3> QED BY <2>6, <2>7
  <2> HIDE DEF h, Part
  <2> QED BY <2>5, <2>8
<1>3. Nat \subseteq S
  <2> HIDE DEF S
  <2> QED BY <1>1, <1>2, NatSetInduction
<1>4. Len(t) \in Nat /\ DOMAIN t = 1..Len(t)
  BY LenProperties
<1>5. Reached(Len(t))
  <2> HIDE DEF Reached
  <2> QED BY <1>3, <1>4
<1>6. PICK g \in [SUBSET (1..Len(t)) -> V] : Part(g, Len(t))
  BY <1>5
<1> QED BY <1>4, <1>6 DEF IsFold

\* The value over the first m elements comes from the one over the first m - 1.
LEMMA FoldStep ==
  ASSUME NEW C, NEW V, NEW b, NEW F, NEW t, NEW g, IsFold(g, C, V, b, F, t)
  PROVE  /\ \A m \in 0..Len(t) : g[1..m] \in V
         /\ \A m \in 1..Len(t) : g[1..m] = F[<<g[1..(m - 1)], t[m]>>]
<1>1. Len(t) \in Nat /\ DOMAIN t = 1..Len(t) /\ t \in Seq(C) /\ F \in [V \X C -> V] /\ b \in V
  BY LenProperties DEF IsFold
<1>2. g[1..0] = b
  <2>1. 1..0 = {}
    OBVIOUS
  <2> QED BY <2>1 DEF IsFold
<1>3. ASSUME NEW m \in 1..Len(t), g[1..(m - 1)] \in V
      PROVE  g[1..m] = F[<<g[1..(m - 1)], t[m]>>]
  <2>1. 1..m \in (SUBSET (DOMAIN t)) \ {{}}
    BY <1>1
  <2>2. Max(1..m) = m /\ (1..m) \ {Max(1..m)} = 1..(m - 1)
    BY <1>1, MaxOfRange
  <2>3. g[(1..m) \ {Max(1..m)}] \in V =>
          g[1..m] = F[<<g[(1..m) \ {Max(1..m)}], t[Max(1..m)]>>]
    BY <2>1 DEF IsFold
  <2> QED BY <1>3, <2>2, <2>3
<1> DEFINE S == {m \in Nat : m <= Len(t) => g[1..m] \in V}
<1>4. 0 \in S
  BY <1>1, <1>2
<1>5. ASSUME NEW m \in Nat, m \in S PROVE m + 1 \in S
  <2> SUFFICES ASSUME m + 1 <= Len(t) PROVE g[1..(m + 1)] \in V
    OBVIOUS
  <2>1. m + 1 \in 1..Len(t) /\ (m + 1) - 1 = m /\ g[1..m] \in V
    BY <1>1, <1>5
  <2>2. g[1..(m + 1)] = F[<<g[1..m], t[m + 1]>>]
    BY <1>3, <2>1
  <2>3. t[m + 1] \in C
    BY <1>1, <2>1, ElementOfSeq
  <2> QED BY <1>1, <2>1, <2>2, <2>3
<1>6. Nat \subseteq S
  <2> HIDE DEF S
  <2> QED BY <1>4, <1>5, NatSetInduction
<1>7. \A m \in 0..Len(t) : g[1..m] \in V
  BY <1>1, <1>6
<1> QED
  <2> SUFFICES ASSUME NEW m \in 1..Len(t) PROVE g[1..m] = F[<<g[1..(m - 1)], t[m]>>]
    BY <1>7
  <2>1. m - 1 \in 0..Len(t)
    BY <1>1
  <2> QED BY <1>3, <1>7, <2>1

\* What one more element c does to the value of a fold.
OneMore(g, h, C, V, b, F, t, c) ==
  c \in C /\ IsFold(g, C, V, b, F, t) /\ IsFold(h, C, V, b, F, Append(t, c))

LEMMA FoldAppend ==
  ASSUME NEW C, NEW V, NEW b, NEW F, NEW t, NEW c, NEW g, NEW h,
         OneMore(g, h, C, V, b, F, t, c)
  PROVE  /\ g[DOMAIN t] \in V
         /\ h[DOMAIN Append(t, c)] = F[<<g[DOMAIN t], c>>]
<1> c \in C /\ IsFold(g, C, V, b, F, t) /\ IsFold(h, C, V, b, F, Append(t, c))
  BY DEF OneMore
<1> DEFINE u == Append(t, c)
<1>1. /\ t \in Seq(C) /\ Len(t) \in Nat /\ DOMAIN t = 1..Len(t)
      /\ u \in Seq(C) /\ Len(u) = Len(t) + 1 /\ DOMAIN u = 1..(Len(t) + 1)
      /\ \A i \in 1..Len(t) : u[i] = t[i]
      /\ u[Len(t) + 1] = c
  <2>1. t \in Seq(C)
    BY DEF IsFold
  <2> QED BY <2>1, AppendProperties, LenProperties
<1>2. /\ \A m \in 0..Len(t) : g[1..m] \in V
      /\ \A m \in 1..Len(t) : g[1..m] = F[<<g[1..(m - 1)], t[m]>>]
  BY FoldStep
<1>3. /\ \A m \in 0..(Len(t) + 1) : h[1..m] \in V
      /\ \A m \in 1..(Len(t) + 1) : h[1..m] = F[<<h[1..(m - 1)], u[m]>>]
  <2>1. /\ \A m \in 0..Len(u) : h[1..m] \in V
        /\ \A m \in 1..Len(u) : h[1..m] = F[<<h[1..(m - 1)], u[m]>>]
    <3>1. IsFold(h, C, V, b, F, u)
      OBVIOUS
    <3> HIDE DEF u
    <3> QED BY <3>1, FoldStep
  <2> QED BY <1>1, <2>1
<1>4. g[1..0] = h[1..0]
  <2>1. 1..0 = {}
    OBVIOUS
  <2> QED BY <2>1 DEF IsFold
<1> DEFINE S == {m \in Nat : m <= Len(t) => g[1..m] = h[1..m]}
<1> HIDE DEF u
<1>5. 0 \in S
  BY <1>4
<1>6. ASSUME NEW m \in Nat, m \in S PROVE m + 1 \in S
  <2> SUFFICES ASSUME m + 1 <= Len(t) PROVE g[1..(m + 1)] = h[1..(m + 1)]
    OBVIOUS
  <2>1. /\ m + 1 \in 1..Len(t) /\ m + 1 \in 1..(Len(t) + 1) /\ (m + 1) - 1 = m
        /\ g[1..m] = h[1..m]
    BY <1>1, <1>6
  <2>2. g[1..(m + 1)] = F[<<g[1..m], t[m + 1]>>]
    BY <1>2, <2>1
  <2>3. h[1..(m + 1)] = F[<<h[1..m], u[m + 1]>>]
    BY <1>3, <2>1
  <2> QED BY <1>1, <2>1, <2>2, <2>3
<1>7. Nat \subseteq S
  <2> HIDE DEF S
  <2> QED BY <1>5, <1>6, NatSetInduction
<1>8. g[1..Len(t)] = h[1..Len(t)] /\ g[1..Len(t)] \in V
  BY <1>1, <1>2, <1>7
<1>9. h[1..(Len(t) + 1)] = F[<<h[1..Len(t)], c>>]
  <2>1. Len(t) + 1 \in 1..(Len(t) + 1) /\ (Len(t) + 1) - 1 = Len(t)
    BY <1>1
  <2> QED BY <1>1, <1>3, <2>1
<1> QED BY <1>1, <1>8, <1>9 DEF u

-----------------------------------------------------------------------------
(* key.split("/").                                                         *)

Segments == Seq(Seq(Characters)) \ {<<>>}

SplitStep ==
  [w \in Segments \X Characters |->
     IF w[2] = "/" THEN Append(w[1], <<>>)
     ELSE [w[1] EXCEPT ![Len(w[1])] = Append(@, w[2])]]

\* The function by which FoldLeft defines Split(t).
SplitIter(t) ==
  CHOOSE iter : iter =
    [s \in SUBSET (DOMAIN t) |->
       IF s = {} THEN << <<>> >>
       ELSE IF t[Max(s)] = "/" THEN Append(iter[s \ {Max(s)}], <<>>)
       ELSE [iter[s \ {Max(s)}] EXCEPT ![Len(iter[s \ {Max(s)}])] = Append(@, t[Max(s)])]]

LEMMA SplitStepType == SplitStep \in [Segments \X Characters -> Segments]
<1> SUFFICES ASSUME NEW p \in Segments, NEW c \in Characters
             PROVE  SplitStep[<<p, c>>] \in Segments
  BY DEF SplitStep
<1>1. /\ p \in Seq(Seq(Characters)) /\ p # <<>> /\ Len(p) \in Nat \ {0}
      /\ Len(p) \in 1..Len(p) /\ p[Len(p)] \in Seq(Characters)
  <2>1. p \in Seq(Seq(Characters)) /\ p # <<>> /\ Len(p) \in Nat \ {0}
    BY EmptySeq DEF Segments
  <2>2. Len(p) \in 1..Len(p)
    BY <2>1
  <2> QED BY <2>1, <2>2, ElementOfSeq
<1>2. CASE c = "/"
  <2>1. <<>> \in Seq(Characters)
    BY EmptySeq
  <2>2. Append(p, <<>>) \in Segments
    BY <1>1, <2>1, AppendProperties DEF Segments
  <2> QED BY <1>2, <2>2 DEF SplitStep
<1>3. CASE c # "/"
  <2> DEFINE e == Append(p[Len(p)], c)
             q == [p EXCEPT ![Len(p)] = e]
  <2>1. e \in Seq(Characters)
    BY <1>1, AppendProperties
  <2>2. q \in Seq(Seq(Characters)) /\ Len(q) = Len(p)
    <3> HIDE DEF e
    <3> QED BY <1>1, <2>1, ExceptSeq
  <2>3. q # <<>>
    <3> HIDE DEF q
    <3> QED BY <1>1, <2>2, EmptySeq
  <2>4. SplitStep[<<p, c>>] = q
    BY <1>3 DEF SplitStep
  <2> QED BY <2>2, <2>3, <2>4 DEF Segments
<1> QED BY <1>2, <1>3

LEMMA SplitIsFold ==
  ASSUME NEW t \in Seq(Characters)
  PROVE  /\ Split(t) = SplitIter(t)[DOMAIN t]
         /\ IsFold(SplitIter(t), Characters, Segments, << <<>> >>, SplitStep, t)
<1> DEFINE Body(g) ==
             [s \in SUBSET (DOMAIN t) |->
                IF s = {} THEN << <<>> >>
                ELSE IF t[Max(s)] = "/" THEN Append(g[s \ {Max(s)}], <<>>)
                ELSE [g[s \ {Max(s)}] EXCEPT ![Len(g[s \ {Max(s)}])] = Append(@, t[Max(s)])]]
<1>1. Split(t) = SplitIter(t)[DOMAIN t]
  BY ZenonT(30) DEF Split, SplitIter, FoldLeft, MapThenFoldSet
<1>2. << <<>> >> \in Segments
  BY DEF Segments
<1>3. ASSUME NEW s \in (SUBSET (DOMAIN t)) \ {{}} PROVE t[Max(s)] \in Characters
  <2>1. Len(t) \in Nat /\ s \in SUBSET (1..Len(t)) /\ s # {}
    BY LenProperties
  <2>2. Max(s) \in 1..Len(t)
    BY <2>1, MaxIsMax
  <2> QED BY <2>2, ElementOfSeq
<1>4. ASSUME NEW s \in (SUBSET (DOMAIN t)) \ {{}}, NEW g, g[s \ {Max(s)}] \in Segments
      PROVE  Body(g)[s] = SplitStep[<<g[s \ {Max(s)}], t[Max(s)]>>]
  <2>1. t[Max(s)] \in Characters
    BY <1>3
  <2>2. Body(g)[s] = IF t[Max(s)] = "/" THEN Append(g[s \ {Max(s)}], <<>>)
                     ELSE [g[s \ {Max(s)}] EXCEPT ![Len(g[s \ {Max(s)}])] = Append(@, t[Max(s)])]
    OBVIOUS
  <2> HIDE DEF Body
  <2> QED BY <1>4, <2>1, <2>2 DEF SplitStep
<1>5. ASSUME NEW g, IsFold(g, Characters, Segments, << <<>> >>, SplitStep, t),
             g \in [SUBSET (DOMAIN t) -> Segments]
      PROVE  g = Body(g)
  <2>1. g = [s \in SUBSET (DOMAIN t) |-> g[s]]
    BY <1>5
  <2>2. ASSUME NEW s \in SUBSET (DOMAIN t) PROVE g[s] = Body(g)[s]
    <3>1. CASE s = {}
      BY <1>5, <3>1 DEF IsFold
    <3>2. CASE s # {}
      <4>1. g[s \ {Max(s)}] \in Segments
        BY <1>5
      <4>2. g[s] = SplitStep[<<g[s \ {Max(s)}], t[Max(s)]>>]
        BY <1>5, <3>2, <4>1 DEF IsFold
      <4> HIDE DEF Body
      <4> QED BY <1>4, <3>2, <4>1, <4>2
    <3> QED BY <3>1, <3>2
  <2> QED BY <2>1, <2>2
<1>6. PICK g \in [SUBSET (DOMAIN t) -> Segments] :
             IsFold(g, Characters, Segments, << <<>> >>, SplitStep, t)
  BY <1>2, SplitStepType, FoldExists
<1>7. g = Body(g)
  <2> HIDE DEF Body
  <2> QED BY <1>5, <1>6
<1>8. SplitIter(t) = Body(SplitIter(t))
  <2>1. SplitIter(t) = CHOOSE iter : iter = Body(iter)
    BY DEF SplitIter
  <2> HIDE DEF Body
  <2> QED BY <1>7, <2>1
<1>9. IsFold(SplitIter(t), Characters, Segments, << <<>> >>, SplitStep, t)
  <2>1. SplitIter(t)[{}] = << <<>> >>
    <3>1. Body(SplitIter(t))[{}] = << <<>> >>
      OBVIOUS
    <3> HIDE DEF Body
    <3> QED BY <1>8, <3>1
  <2>2. ASSUME NEW s \in (SUBSET (DOMAIN t)) \ {{}}, SplitIter(t)[s \ {Max(s)}] \in Segments
        PROVE  SplitIter(t)[s] = SplitStep[<<SplitIter(t)[s \ {Max(s)}], t[Max(s)]>>]
    <3> HIDE DEF Body
    <3> QED BY <1>4, <1>8, <2>2
  <2> QED BY <1>2, <2>1, <2>2, SplitStepType DEF IsFold
<1> QED BY <1>1, <1>9

\* What one more character does to the segments.
LEMMA SplitAppend ==
  ASSUME NEW t \in Seq(Characters), NEW c \in Characters
  PROVE  /\ Split(t) \in Segments
         /\ Split(Append(t, c)) =
              IF c = "/" THEN Append(Split(t), <<>>)
              ELSE [Split(t) EXCEPT ![Len(Split(t))] = Append(Split(t)[Len(Split(t))], c)]
<1> DEFINE u == Append(t, c)
<1>1. u \in Seq(Characters)
  BY AppendProperties
<1>2. /\ Split(t) = SplitIter(t)[DOMAIN t]
      /\ IsFold(SplitIter(t), Characters, Segments, << <<>> >>, SplitStep, t)
  BY SplitIsFold
<1>3. /\ Split(u) = SplitIter(u)[DOMAIN u]
      /\ IsFold(SplitIter(u), Characters, Segments, << <<>> >>, SplitStep, u)
  <2> HIDE DEF u
  <2> QED BY <1>1, SplitIsFold
<1>4. Split(t) \in Segments /\ Split(u) = SplitStep[<<Split(t), c>>]
  <2>1. OneMore(SplitIter(t), SplitIter(u), Characters, Segments, << <<>> >>, SplitStep, t, c)
    BY <1>2, <1>3 DEF OneMore
  <2> QED BY <1>2, <1>3, <2>1, FoldAppend
<1> QED BY <1>4 DEF SplitStep

LEMMA SplitEmpty == Split(<<>>) = << <<>> >>
<1>1. <<>> \in Seq(Characters) /\ DOMAIN (<<>>) = {}
  OBVIOUS
<1>2. Split(<<>>) = SplitIter(<<>>)[{}]
  BY <1>1, SplitIsFold
<1>3. SplitIter(<<>>)[{}] = << <<>> >>
  BY <1>1, SplitIsFold DEF IsFold
<1> QED BY <1>2, <1>3

-----------------------------------------------------------------------------
(* What the operating system makes of the names of a path.                 *)

Names == Seq(Characters)
NamePaths == Seq(Names)

ResolveStep ==
  [w \in NamePaths \X Names |->
     IF w[2] \in {<<>>, <<".">>} THEN w[1]
     ELSE IF w[2] = <<".", ".">> THEN (IF w[1] = <<>> THEN w[1] ELSE Front(w[1]))
     ELSE Append(w[1], w[2])]

\* The path without its last name.
LEMMA FrontProperties ==
  ASSUME NEW S, NEW p \in Seq(S), p # <<>>
  PROVE  /\ Front(p) \in Seq(S) /\ p[Len(p)] \in S
         /\ Append(Front(p), p[Len(p)]) = p
         /\ Len(Front(p)) = Len(p) - 1
<1>1. PICK q \in Seq(S), e \in S : p = Append(q, e)
  BY SequenceEmptyOrAppend
<1>2. /\ Len(p) = Len(q) + 1 /\ p[Len(p)] = e /\ p \in Seq(S) /\ Len(q) \in Nat
      /\ \A i \in 1..Len(q) : p[i] = q[i]
  BY <1>1, AppendProperties, LenProperties
<1>3. Front(p) = q
  <2>1. Front(p) = SubSeq(p, 1, Len(q))
    BY <1>2 DEF Front
  <2>2. /\ SubSeq(p, 1, Len(q)) \in Seq(S) /\ Len(SubSeq(p, 1, Len(q))) = Len(q)
        /\ \A i \in 1..Len(q) : SubSeq(p, 1, Len(q))[i] = p[i]
    <3>1. \A i \in 1..Len(q) : p[i] \in S
      BY <1>2, ElementOfSeq
    <3>2. /\ SubSeq(p, 1, Len(q)) \in Seq(S)
          /\ Len(SubSeq(p, 1, Len(q))) = IF 1 <= Len(q) THEN Len(q) - 1 + 1 ELSE 0
          /\ \A i \in 1..(Len(q) - 1 + 1) : SubSeq(p, 1, Len(q))[i] = p[1 + i - 1]
      BY <1>2, <3>1, SubSeqProperties
    <3> QED BY <1>2, <3>2
  <2> QED BY <1>2, <2>1, <2>2, SeqEqual
<1> QED BY <1>1, <1>2, <1>3

LEMMA ResolveStepType == ResolveStep \in [NamePaths \X Names -> NamePaths]
<1> SUFFICES ASSUME NEW w \in NamePaths \X Names PROVE ResolveStep[w] \in NamePaths
  <2>1. ResolveStep = [w \in NamePaths \X Names |-> ResolveStep[w]]
    BY Zenon DEF ResolveStep
  <2> QED BY <2>1
<1> DEFINE p == w[1]
           name == w[2]
<1> p \in NamePaths /\ name \in Names
  OBVIOUS
<1>1. p # <<>> => Front(p) \in NamePaths
  BY FrontProperties DEF NamePaths
<1>2. Append(p, name) \in NamePaths
  BY AppendProperties DEF NamePaths
<1> QED BY <1>1, <1>2 DEF ResolveStep

\* The function by which FoldLeft defines Resolve(t).
ResolveIter(t) ==
  CHOOSE iter : iter =
    [s \in SUBSET (DOMAIN t) |->
       IF s = {} THEN <<>>
       ELSE IF t[Max(s)] \in {<<>>, <<".">>} THEN iter[s \ {Max(s)}]
                ELSE IF t[Max(s)] = <<".", ".">>
                       THEN (IF iter[s \ {Max(s)}] = <<>> THEN iter[s \ {Max(s)}]
                             ELSE Front(iter[s \ {Max(s)}]))
                ELSE Append(iter[s \ {Max(s)}], t[Max(s)])]

LEMMA ResolveIsFold ==
  ASSUME NEW t \in NamePaths
  PROVE  /\ Resolve(t) = ResolveIter(t)[DOMAIN t]
         /\ IsFold(ResolveIter(t), Names, NamePaths, <<>>, ResolveStep, t)
<1> DEFINE Body(g) ==
             [s \in SUBSET (DOMAIN t) |->
                IF s = {} THEN <<>>
                ELSE IF t[Max(s)] \in {<<>>, <<".">>} THEN g[s \ {Max(s)}]
                ELSE IF t[Max(s)] = <<".", ".">>
                       THEN (IF g[s \ {Max(s)}] = <<>> THEN g[s \ {Max(s)}]
                             ELSE Front(g[s \ {Max(s)}]))
                ELSE Append(g[s \ {Max(s)}], t[Max(s)])]
<1>1. Resolve(t) = ResolveIter(t)[DOMAIN t]
  BY ZenonT(30) DEF Resolve, ResolveIter, FoldLeft, MapThenFoldSet
<1>2. <<>> \in NamePaths
  BY DEF NamePaths
<1>3. ASSUME NEW s \in (SUBSET (DOMAIN t)) \ {{}} PROVE t[Max(s)] \in Names
  <2>1. Len(t) \in Nat /\ s \in SUBSET (1..Len(t)) /\ s # {}
    BY LenProperties DEF NamePaths
  <2>2. Max(s) \in 1..Len(t)
    BY <2>1, MaxIsMax
  <2> QED BY <2>2, ElementOfSeq DEF NamePaths
<1>4. ASSUME NEW s \in (SUBSET (DOMAIN t)) \ {{}}, NEW g, g[s \ {Max(s)}] \in NamePaths
      PROVE  Body(g)[s] = ResolveStep[<<g[s \ {Max(s)}], t[Max(s)]>>]
  <2>1. t[Max(s)] \in Names
    BY <1>3
  <2>2. Body(g)[s] = IF t[Max(s)] \in {<<>>, <<".">>} THEN g[s \ {Max(s)}]
                ELSE IF t[Max(s)] = <<".", ".">>
                       THEN (IF g[s \ {Max(s)}] = <<>> THEN g[s \ {Max(s)}]
                             ELSE Front(g[s \ {Max(s)}]))
                ELSE Append(g[s \ {Max(s)}], t[Max(s)])
    OBVIOUS
  <2> HIDE DEF Body
  <2> QED BY <1>4, <2>1, <2>2 DEF ResolveStep
<1>5. ASSUME NEW g \in [SUBSET (DOMAIN t) -> NamePaths], IsFold(g, Names, NamePaths, <<>>, ResolveStep, t)
      PROVE  g = Body(g)
  <2>1. g = [s \in SUBSET (DOMAIN t) |-> g[s]]
    OBVIOUS
  <2>2. ASSUME NEW s \in SUBSET (DOMAIN t) PROVE g[s] = Body(g)[s]
    <3>1. CASE s = {}
      BY <1>5, <3>1 DEF IsFold
    <3>2. CASE s # {}
      <4>1. g[s \ {Max(s)}] \in NamePaths
        OBVIOUS
      <4>2. g[s] = ResolveStep[<<g[s \ {Max(s)}], t[Max(s)]>>]
        BY <1>5, <3>2, <4>1 DEF IsFold
      <4> HIDE DEF Body
      <4> QED BY <1>4, <3>2, <4>1, <4>2
    <3> QED BY <3>1, <3>2
  <2> QED BY <2>1, <2>2
<1>6. PICK g \in [SUBSET (DOMAIN t) -> NamePaths] : IsFold(g, Names, NamePaths, <<>>, ResolveStep, t)
  BY <1>2, ResolveStepType, FoldExists DEF NamePaths
<1>7. g = Body(g)
  <2> HIDE DEF Body
  <2> QED BY <1>5, <1>6
<1>8. ResolveIter(t) = Body(ResolveIter(t))
  <2>1. ResolveIter(t) = CHOOSE iter : iter = Body(iter)
    BY DEF ResolveIter
  <2> HIDE DEF Body
  <2> QED BY <1>7, <2>1
<1>9. IsFold(ResolveIter(t), Names, NamePaths, <<>>, ResolveStep, t)
  <2>1. ResolveIter(t)[{}] = <<>>
    <3>1. Body(ResolveIter(t))[{}] = <<>>
      OBVIOUS
    <3> HIDE DEF Body
    <3> QED BY <1>8, <3>1
  <2>2. ASSUME NEW s \in (SUBSET (DOMAIN t)) \ {{}}, ResolveIter(t)[s \ {Max(s)}] \in NamePaths
        PROVE  ResolveIter(t)[s] = ResolveStep[<<ResolveIter(t)[s \ {Max(s)}], t[Max(s)]>>]
    <3> HIDE DEF Body
    <3> QED BY <1>4, <1>8, <2>2
  <2> QED BY <1>2, <2>1, <2>2, ResolveStepType DEF IsFold, NamePaths
<1> QED BY <1>1, <1>9

\* What one more name does to a path.
LEMMA ResolveAppend ==
  ASSUME NEW t \in NamePaths, NEW name \in Names
  PROVE  /\ Resolve(t) \in NamePaths
         /\ Resolve(Append(t, name)) =
              IF name \in {<<>>, <<".">>} THEN Resolve(t)
              ELSE IF name = <<".", ".">>
                     THEN (IF Resolve(t) = <<>> THEN Resolve(t) ELSE Front(Resolve(t)))
              ELSE Append(Resolve(t), name)
<1> DEFINE u == Append(t, name)
<1>1. u \in NamePaths
  BY AppendProperties DEF NamePaths
<1>2. /\ Resolve(t) = ResolveIter(t)[DOMAIN t]
      /\ IsFold(ResolveIter(t), Names, NamePaths, <<>>, ResolveStep, t)
  BY ResolveIsFold
<1>3. /\ Resolve(u) = ResolveIter(u)[DOMAIN u]
      /\ IsFold(ResolveIter(u), Names, NamePaths, <<>>, ResolveStep, u)
  <2> HIDE DEF u
  <2> QED BY <1>1, ResolveIsFold
<1>4. Resolve(t) \in NamePaths /\ Resolve(u) = ResolveStep[<<Resolve(t), name>>]
  <2>1. OneMore(ResolveIter(t), ResolveIter(u), Names, NamePaths, <<>>, ResolveStep, t, name)
    BY <1>2, <1>3 DEF OneMore
  <2> QED BY <1>2, <1>3, <2>1, FoldAppend
<1> QED BY <1>4 DEF ResolveStep

LEMMA ResolveEmpty == Resolve(<<>>) = <<>>
<1>1. <<>> \in NamePaths /\ DOMAIN (<<>>) = {}
  BY DEF NamePaths
<1>2. Resolve(<<>>) = ResolveIter(<<>>)[{}]
  BY <1>1, ResolveIsFold
<1>3. ResolveIter(<<>>)[{}] = <<>>
  BY <1>1, ResolveIsFold DEF IsFold
<1> QED BY <1>2, <1>3

-----------------------------------------------------------------------------
(* A path as text.                                                         *)

SpelledStep == [w \in Names \X Names |-> w[1] \o <<"/">> \o w[2]]

LEMMA SpelledStepType == SpelledStep \in [Names \X Names -> Names]
<1> SUFFICES ASSUME NEW t \in Names, NEW name \in Names
             PROVE  t \o <<"/">> \o name \in Names
  BY DEF SpelledStep
<1>1. <<"/">> \in Names
  BY LettersAssumption DEF Names
<1>2. t \o <<"/">> \in Names
  BY <1>1, ConcatProperties DEF Names
<1> QED BY <1>2, ConcatProperties DEF Names

\* The function by which FoldLeft defines Spelled(p).
SpelledIter(p) ==
  CHOOSE iter : iter =
    [s \in SUBSET (DOMAIN p) |->
       IF s = {} THEN <<>>
       ELSE iter[s \ {Max(s)}] \o <<"/">> \o p[Max(s)]]

LEMMA SpelledIsFold ==
  ASSUME NEW p \in NamePaths
  PROVE  /\ Spelled(p) = SpelledIter(p)[DOMAIN p]
         /\ IsFold(SpelledIter(p), Names, Names, <<>>, SpelledStep, p)
<1> DEFINE Body(g) ==
             [s \in SUBSET (DOMAIN p) |->
                IF s = {} THEN <<>>
                ELSE g[s \ {Max(s)}] \o <<"/">> \o p[Max(s)]]
<1>1. Spelled(p) = SpelledIter(p)[DOMAIN p]
  BY ZenonT(30) DEF Spelled, SpelledIter, FoldLeft, MapThenFoldSet
<1>2. <<>> \in Names
  BY DEF Names
<1>3. ASSUME NEW s \in (SUBSET (DOMAIN p)) \ {{}} PROVE p[Max(s)] \in Names
  <2>1. Len(p) \in Nat /\ s \in SUBSET (1..Len(p)) /\ s # {}
    BY LenProperties DEF NamePaths
  <2>2. Max(s) \in 1..Len(p)
    BY <2>1, MaxIsMax
  <2> QED BY <2>2, ElementOfSeq DEF NamePaths
<1>4. ASSUME NEW s \in (SUBSET (DOMAIN p)) \ {{}}, NEW g, g[s \ {Max(s)}] \in Names
      PROVE  Body(g)[s] = SpelledStep[<<g[s \ {Max(s)}], p[Max(s)]>>]
  <2>1. p[Max(s)] \in Names
    BY <1>3
  <2>2. Body(g)[s] = g[s \ {Max(s)}] \o <<"/">> \o p[Max(s)]
    OBVIOUS
  <2> HIDE DEF Body
  <2> QED BY <1>4, <2>1, <2>2 DEF SpelledStep
<1>5. ASSUME NEW g \in [SUBSET (DOMAIN p) -> Names], IsFold(g, Names, Names, <<>>, SpelledStep, p)
      PROVE  g = Body(g)
  <2>1. g = [s \in SUBSET (DOMAIN p) |-> g[s]]
    OBVIOUS
  <2>2. ASSUME NEW s \in SUBSET (DOMAIN p) PROVE g[s] = Body(g)[s]
    <3>1. CASE s = {}
      BY <1>5, <3>1 DEF IsFold
    <3>2. CASE s # {}
      <4>1. g[s \ {Max(s)}] \in Names
        OBVIOUS
      <4>2. g[s] = SpelledStep[<<g[s \ {Max(s)}], p[Max(s)]>>]
        BY <1>5, <3>2, <4>1 DEF IsFold
      <4> HIDE DEF Body
      <4> QED BY <1>4, <3>2, <4>1, <4>2
    <3> QED BY <3>1, <3>2
  <2> QED BY <2>1, <2>2
<1>6. PICK g \in [SUBSET (DOMAIN p) -> Names] : IsFold(g, Names, Names, <<>>, SpelledStep, p)
  BY <1>2, SpelledStepType, FoldExists DEF NamePaths
<1>7. g = Body(g)
  <2> HIDE DEF Body
  <2> QED BY <1>5, <1>6
<1>8. SpelledIter(p) = Body(SpelledIter(p))
  <2>1. SpelledIter(p) = CHOOSE iter : iter = Body(iter)
    BY DEF SpelledIter
  <2> HIDE DEF Body
  <2> QED BY <1>7, <2>1
<1>9. IsFold(SpelledIter(p), Names, Names, <<>>, SpelledStep, p)
  <2>1. SpelledIter(p)[{}] = <<>>
    <3>1. Body(SpelledIter(p))[{}] = <<>>
      OBVIOUS
    <3> HIDE DEF Body
    <3> QED BY <1>8, <3>1
  <2>2. ASSUME NEW s \in (SUBSET (DOMAIN p)) \ {{}}, SpelledIter(p)[s \ {Max(s)}] \in Names
        PROVE  SpelledIter(p)[s] = SpelledStep[<<SpelledIter(p)[s \ {Max(s)}], p[Max(s)]>>]
    <3> HIDE DEF Body
    <3> QED BY <1>4, <1>8, <2>2
  <2> QED BY <1>2, <2>1, <2>2, SpelledStepType DEF IsFold, NamePaths
<1> QED BY <1>1, <1>9

\* What one more name does to the text.
LEMMA SpelledAppend ==
  ASSUME NEW p \in NamePaths, NEW name \in Names
  PROVE  /\ Spelled(p) \in Names
         /\ Spelled(Append(p, name)) = Spelled(p) \o <<"/">> \o name
<1> DEFINE q == Append(p, name)
<1>1. q \in NamePaths
  BY AppendProperties DEF NamePaths
<1>2. /\ Spelled(p) = SpelledIter(p)[DOMAIN p]
      /\ IsFold(SpelledIter(p), Names, Names, <<>>, SpelledStep, p)
  BY SpelledIsFold
<1>3. /\ Spelled(q) = SpelledIter(q)[DOMAIN q]
      /\ IsFold(SpelledIter(q), Names, Names, <<>>, SpelledStep, q)
  <2> HIDE DEF q
  <2> QED BY <1>1, SpelledIsFold
<1>4. Spelled(p) \in Names /\ Spelled(q) = SpelledStep[<<Spelled(p), name>>]
  <2>1. OneMore(SpelledIter(p), SpelledIter(q), Names, Names, <<>>, SpelledStep, p, name)
    BY <1>2, <1>3 DEF OneMore
  <2> QED BY <1>2, <1>3, <2>1, FoldAppend
<1> QED BY <1>4 DEF SpelledStep

LEMMA SpelledEmpty == Spelled(<<>>) = <<>>
<1>1. <<>> \in NamePaths /\ DOMAIN (<<>>) = {}
  BY DEF NamePaths
<1>2. Spelled(<<>>) = SpelledIter(<<>>)[{}]
  BY <1>1, SpelledIsFold
<1>3. SpelledIter(<<>>)[{}] = <<>>
  BY <1>1, SpelledIsFold DEF IsFold
<1> QED BY <1>2, <1>3

-----------------------------------------------------------------------------
(* The loop over a map of caps.                                            *)

Kept == Entries \cup {NoEntry}

LongestStep(t) ==
  [w \in Kept \X Entries |->
     IF StartsWith(t, w[2]) /\ Better(w[2], w[1]) THEN w[2] ELSE w[1]]

LEMMA LongestStepType == \A t : LongestStep(t) \in [Kept \X Entries -> Kept]
BY DEF LongestStep, Kept

\* The function by which FoldLeft defines Longest(caps, t).
LongestIter(caps, t) ==
  CHOOSE iter : iter =
    [s \in SUBSET (DOMAIN caps) |->
       IF s = {} THEN NoEntry
       ELSE IF StartsWith(t, caps[Max(s)]) /\ Better(caps[Max(s)], iter[s \ {Max(s)}])
                  THEN caps[Max(s)] ELSE iter[s \ {Max(s)}]]

LEMMA LongestIsFold ==
  ASSUME NEW caps \in Seq(Entries), NEW t
  PROVE  /\ Longest(caps, t) = LongestIter(caps, t)[DOMAIN caps]
         /\ IsFold(LongestIter(caps, t), Entries, Kept, NoEntry, LongestStep(t), caps)
<1> DEFINE Body(g) ==
             [s \in SUBSET (DOMAIN caps) |->
                IF s = {} THEN NoEntry
                ELSE IF StartsWith(t, caps[Max(s)]) /\ Better(caps[Max(s)], g[s \ {Max(s)}])
                  THEN caps[Max(s)] ELSE g[s \ {Max(s)}]]
<1>1. Longest(caps, t) = LongestIter(caps, t)[DOMAIN caps]
  BY ZenonT(30) DEF Longest, LongestIter, FoldLeft, MapThenFoldSet
<1>2. NoEntry \in Kept
  BY DEF Kept
<1>3. ASSUME NEW s \in (SUBSET (DOMAIN caps)) \ {{}} PROVE caps[Max(s)] \in Entries
  <2>1. Len(caps) \in Nat /\ s \in SUBSET (1..Len(caps)) /\ s # {}
    BY LenProperties
  <2>2. Max(s) \in 1..Len(caps)
    BY <2>1, MaxIsMax
  <2> QED BY <2>2, ElementOfSeq
<1>4. ASSUME NEW s \in (SUBSET (DOMAIN caps)) \ {{}}, NEW g, g[s \ {Max(s)}] \in Kept
      PROVE  Body(g)[s] = LongestStep(t)[<<g[s \ {Max(s)}], caps[Max(s)]>>]
  <2>1. caps[Max(s)] \in Entries
    BY <1>3
  <2>2. Body(g)[s] = IF StartsWith(t, caps[Max(s)]) /\ Better(caps[Max(s)], g[s \ {Max(s)}])
                  THEN caps[Max(s)] ELSE g[s \ {Max(s)}]
    OBVIOUS
  <2> HIDE DEF Body
  <2> QED BY <1>4, <2>1, <2>2 DEF LongestStep
<1>5. ASSUME NEW g \in [SUBSET (DOMAIN caps) -> Kept], IsFold(g, Entries, Kept, NoEntry, LongestStep(t), caps)
      PROVE  g = Body(g)
  <2>1. g = [s \in SUBSET (DOMAIN caps) |-> g[s]]
    OBVIOUS
  <2>2. ASSUME NEW s \in SUBSET (DOMAIN caps) PROVE g[s] = Body(g)[s]
    <3>1. CASE s = {}
      BY <1>5, <3>1 DEF IsFold
    <3>2. CASE s # {}
      <4>1. g[s \ {Max(s)}] \in Kept
        OBVIOUS
      <4>2. g[s] = LongestStep(t)[<<g[s \ {Max(s)}], caps[Max(s)]>>]
        BY <1>5, <3>2, <4>1 DEF IsFold
      <4> HIDE DEF Body
      <4> QED BY <1>4, <3>2, <4>1, <4>2
    <3> QED BY <3>1, <3>2
  <2> QED BY <2>1, <2>2
<1>6. PICK g \in [SUBSET (DOMAIN caps) -> Kept] : IsFold(g, Entries, Kept, NoEntry, LongestStep(t), caps)
  BY <1>2, LongestStepType, FoldExists
<1>7. g = Body(g)
  <2> HIDE DEF Body
  <2> QED BY <1>5, <1>6
<1>8. LongestIter(caps, t) = Body(LongestIter(caps, t))
  <2>1. LongestIter(caps, t) = CHOOSE iter : iter = Body(iter)
    BY DEF LongestIter
  <2> HIDE DEF Body
  <2> QED BY <1>7, <2>1
<1>9. IsFold(LongestIter(caps, t), Entries, Kept, NoEntry, LongestStep(t), caps)
  <2>1. LongestIter(caps, t)[{}] = NoEntry
    <3>1. Body(LongestIter(caps, t))[{}] = NoEntry
      OBVIOUS
    <3> HIDE DEF Body
    <3> QED BY <1>8, <3>1
  <2>2. ASSUME NEW s \in (SUBSET (DOMAIN caps)) \ {{}}, LongestIter(caps, t)[s \ {Max(s)}] \in Kept
        PROVE  LongestIter(caps, t)[s] = LongestStep(t)[<<LongestIter(caps, t)[s \ {Max(s)}], caps[Max(s)]>>]
    <3> HIDE DEF Body
    <3> QED BY <1>4, <1>8, <2>2
  <2> QED BY <1>2, <2>1, <2>2, LongestStepType DEF IsFold
<1> QED BY <1>1, <1>9

\* What one more entry does to the choice.
LEMMA LongestAppend ==
  ASSUME NEW caps \in Seq(Entries), NEW entry \in Entries, NEW t
  PROVE  /\ Longest(caps, t) \in Kept
         /\ Longest(Append(caps, entry), t) =
              IF StartsWith(t, entry) /\ Better(entry, Longest(caps, t))
                THEN entry ELSE Longest(caps, t)
<1> DEFINE more == Append(caps, entry)
<1>1. more \in Seq(Entries)
  BY AppendProperties
<1>2. /\ Longest(caps, t) = LongestIter(caps, t)[DOMAIN caps]
      /\ IsFold(LongestIter(caps, t), Entries, Kept, NoEntry, LongestStep(t), caps)
  BY LongestIsFold
<1>3. /\ Longest(more, t) = LongestIter(more, t)[DOMAIN more]
      /\ IsFold(LongestIter(more, t), Entries, Kept, NoEntry, LongestStep(t), more)
  <2> HIDE DEF more
  <2> QED BY <1>1, LongestIsFold
<1>4. /\ Longest(caps, t) \in Kept
      /\ Longest(more, t) = LongestStep(t)[<<Longest(caps, t), entry>>]
  <2>1. OneMore(LongestIter(caps, t), LongestIter(more, t), Entries, Kept, NoEntry,
                LongestStep(t), caps, entry)
    BY <1>2, <1>3 DEF OneMore
  <2>2. /\ LongestIter(caps, t)[DOMAIN caps] \in Kept
        /\ LongestIter(more, t)[DOMAIN more] =
             LongestStep(t)[<<LongestIter(caps, t)[DOMAIN caps], entry>>]
    BY <2>1, FoldAppend
  <2> QED BY <1>2, <1>3, <2>2
<1> QED BY <1>4 DEF LongestStep

LEMMA LongestEmpty == \A t : Longest(<<>>, t) = NoEntry
<1> SUFFICES ASSUME NEW t PROVE Longest(<<>>, t) = NoEntry
  OBVIOUS
<1>1. <<>> \in Seq(Entries) /\ DOMAIN (<<>>) = {}
  OBVIOUS
<1>2. Longest(<<>>, t) = LongestIter(<<>>, t)[{}]
  BY <1>1, LongestIsFold
<1>3. LongestIter(<<>>, t)[{}] = NoEntry
  BY <1>1, LongestIsFold DEF IsFold
<1> QED BY <1>2, <1>3

\* The entry that the loop keeps is the longest of those that match.
LEMMA LongestIsLongest ==
  ASSUME NEW caps \in Seq(Entries), NEW t
  PROVE  /\ Longest(caps, t) = NoEntry <=> Matches(caps, t) = {}
         /\ Longest(caps, t) # NoEntry =>
              /\ Longest(caps, t) \in Matches(caps, t)
              /\ \A other \in Matches(caps, t) : Len(other) <= Len(Longest(caps, t))
<1> DEFINE Ok(cs) ==
             /\ Longest(cs, t) = NoEntry <=> Matches(cs, t) = {}
             /\ Longest(cs, t) # NoEntry =>
                  /\ Longest(cs, t) \in Matches(cs, t)
                  /\ \A other \in Matches(cs, t) : Len(other) <= Len(Longest(cs, t))
           T == {cs \in Seq(Entries) : Ok(cs)}
<1>1. <<>> \in T
  <2>1. Matches(<<>>, t) = {}
    BY DEF Matches
  <2> QED BY <2>1, LongestEmpty
<1>2. ASSUME NEW cs \in Seq(Entries), NEW entry \in Entries, cs \in T
      PROVE  Append(cs, entry) \in T
  <2> DEFINE more == Append(cs, entry)
  <2>1. /\ more \in Seq(Entries) /\ DOMAIN more = 1..(Len(cs) + 1) /\ DOMAIN cs = 1..Len(cs)
        /\ Len(cs) \in Nat /\ more[Len(cs) + 1] = entry
        /\ \A i \in 1..Len(cs) : more[i] = cs[i]
    BY AppendProperties, LenProperties
  <2>2. Matches(more, t) = Matches(cs, t) \cup {e \in {entry} : StartsWith(t, e)}
    <3> HIDE DEF more
    <3>1. ASSUME NEW e \in Matches(more, t)
          PROVE  e \in Matches(cs, t) \cup {d \in {entry} : StartsWith(t, d)}
      <4>1. PICK i \in 1..(Len(cs) + 1) : StartsWith(t, more[i]) /\ e = more[i]
        BY <2>1 DEF Matches
      <4>2. CASE i = Len(cs) + 1
        BY <2>1, <4>1, <4>2
      <4>3. CASE i # Len(cs) + 1
        <5>1. i \in 1..Len(cs) /\ more[i] = cs[i]
          BY <2>1, <4>3
        <5> QED BY <2>1, <4>1, <5>1 DEF Matches
      <4> QED BY <4>2, <4>3
    <3>2. ASSUME NEW e \in Matches(cs, t) PROVE e \in Matches(more, t)
      <4>1. PICK i \in 1..Len(cs) : StartsWith(t, cs[i]) /\ e = cs[i]
        BY <2>1 DEF Matches
      <4>2. i \in 1..(Len(cs) + 1) /\ more[i] = cs[i]
        BY <2>1
      <4> QED BY <2>1, <4>1, <4>2 DEF Matches
    <3>3. ASSUME StartsWith(t, entry) PROVE entry \in Matches(more, t)
      <4>1. Len(cs) + 1 \in 1..(Len(cs) + 1)
        BY <2>1
      <4> QED BY <2>1, <3>3, <4>1 DEF Matches
    <3> QED BY <3>1, <3>2, <3>3
  <2>3. Longest(more, t) = IF StartsWith(t, entry) /\ Better(entry, Longest(cs, t))
                             THEN entry ELSE Longest(cs, t)
    BY LongestAppend
  <2>4. Matches(cs, t) \subseteq Entries
    BY <2>1, ElementOfSeq DEF Matches
  <2>5. entry # NoEntry /\ \A e \in Entries : Len(e) \in Nat
    <3>1. \A e \in Entries : Len(e) \in Nat /\ (Len(e) = 1 => e[1] \in Characters)
      BY EntriesAssumption, ElementOfSeq
    <3>2. Len(NoEntry) = 1 /\ NoEntry[1] = "none"
      BY DEF NoEntry
    <3> QED BY <3>1, <3>2, EntriesAssumption
  <2>6. Ok(cs)
    BY <1>2
  <2> HIDE DEF more
  <2>7. CASE ~StartsWith(t, entry)
    <3>1. Matches(more, t) = Matches(cs, t) /\ Longest(more, t) = Longest(cs, t)
      BY <2>2, <2>3, <2>7
    <3> QED BY <2>1, <2>6, <3>1 DEF more
  <2>8. CASE StartsWith(t, entry)
    <3>1. Matches(more, t) = Matches(cs, t) \cup {entry} /\ Matches(more, t) # {}
      BY <2>2, <2>8
    <3>2. CASE Longest(cs, t) = NoEntry
      <4>1. Longest(more, t) = entry /\ Matches(more, t) = {entry}
        BY <2>3, <2>6, <2>8, <3>1, <3>2 DEF Better
      <4> QED BY <2>1, <2>5, <3>1, <4>1 DEF more
    <3>3. CASE Longest(cs, t) # NoEntry /\ Len(entry) > Len(Longest(cs, t))
      <4>1. Longest(more, t) = entry
        BY <2>3, <2>8, <3>3 DEF Better
      <4>2. Longest(cs, t) \in Entries
        BY <2>4, <2>6, <3>3
      <4>3. \A other \in Matches(more, t) : Len(other) <= Len(entry)
        BY <2>4, <2>5, <2>6, <3>1, <3>3, <4>2
      <4> QED BY <2>1, <2>5, <3>1, <4>1, <4>3 DEF more
    <3>4. CASE Longest(cs, t) # NoEntry /\ ~(Len(entry) > Len(Longest(cs, t)))
      <4>1. Longest(more, t) = Longest(cs, t)
        BY <2>3, <2>8, <3>4 DEF Better
      <4>2. Longest(cs, t) \in Entries
        BY <2>4, <2>6, <3>4
      <4>3. \A other \in Matches(more, t) : Len(other) <= Len(Longest(more, t))
        BY <2>4, <2>5, <2>6, <3>1, <3>4, <4>1, <4>2
      <4>4. Longest(more, t) \in Matches(more, t)
        BY <2>6, <3>1, <3>4, <4>1
      <4> QED BY <2>1, <3>1, <3>4, <4>1, <4>3, <4>4 DEF more
    <3> QED BY <3>2, <3>3, <3>4
  <2> QED BY <2>7, <2>8
<1>3. Seq(Entries) \subseteq T
  <2> HIDE DEF T
  <2> QED BY <1>1, <1>2, SeqSetInduction
<1> QED BY <1>3

-----------------------------------------------------------------------------
(* Texts and paths: splitting and spelling are inverse to each other.      *)

LEMMA ConcatAppend ==
  ASSUME NEW S, NEW a \in Seq(S), NEW b \in Seq(S), NEW c \in S
  PROVE  a \o Append(b, c) = Append(a \o b, c)
<1>1. <<c>> \in Seq(S)
  OBVIOUS
<1>2. Append(b, c) = b \o <<c>> /\ Append(a \o b, c) = (a \o b) \o <<c>>
  BY AppendIsConcat, ConcatProperties
<1> QED BY <1>1, <1>2, ConcatAssociative

LEMMA PrefixConcat ==
  ASSUME NEW S, NEW s \in Seq(S), NEW t \in Seq(S)
  PROVE  IsPrefix(s, t) <=> \E u \in Seq(S) : t = s \o u
<1>1. Len(s) \in Nat /\ Len(t) \in Nat
  BY LenProperties
<1>2. SubSeq(s, 1, Len(s)) = s
  BY SubSeqFull
<1>3. ASSUME IsPrefix(s, t) PROVE \E u \in Seq(S) : t = s \o u
  <2> DEFINE u == SubSeq(t, Len(s) + 1, Len(t))
  <2>1. Len(s) <= Len(t) /\ SubSeq(t, 1, Len(s)) = s
    BY <1>2, <1>3 DEF IsPrefix
  <2>2. u \in Seq(S)
    <3>1. \A i \in (Len(s) + 1)..Len(t) : t[i] \in S
      BY <1>1, ElementOfSeq
    <3> QED BY <1>1, <3>1, SubSeqProperties
  <2>3. /\ 1 \in 1..(Len(t) + 1) /\ Len(s) \in 1-1..Len(t) /\ Len(t) \in Len(s)..Len(t)
    BY <1>1, <2>1
  <2>4. SubSeq(t, 1, Len(s)) \o SubSeq(t, Len(s) + 1, Len(t)) = SubSeq(t, 1, Len(t))
    BY <2>3, ConcatAdjacentSubSeq
  <2>5. SubSeq(t, 1, Len(t)) = t
    BY SubSeqFull
  <2> QED BY <2>1, <2>2, <2>4, <2>5
<1>4. ASSUME NEW u \in Seq(S), t = s \o u PROVE IsPrefix(s, t)
  <2>1. /\ Len(t) = Len(s) + Len(u) /\ Len(u) \in Nat
        /\ \A i \in 1..Len(s) : t[i] = s[i]
    BY <1>1, <1>4, ConcatProperties, LenProperties
  <2>2. SubSeq(t, 1, Len(s)) = s
    <3>1. \A i \in 1..Len(s) : t[i] \in S
      BY <1>1, <2>1, ElementOfSeq
    <3>2. /\ SubSeq(t, 1, Len(s)) \in Seq(S)
          /\ Len(SubSeq(t, 1, Len(s))) = IF 1 <= Len(s) THEN Len(s) - 1 + 1 ELSE 0
          /\ \A i \in 1..(Len(s) - 1 + 1) : SubSeq(t, 1, Len(s))[i] = t[1 + i - 1]
      BY <1>1, <3>1, SubSeqProperties
    <3>3. Len(SubSeq(t, 1, Len(s))) = Len(s)
      BY <1>1, <3>2
    <3>4. \A i \in 1..Len(s) : SubSeq(t, 1, Len(s))[i] = s[i]
      BY <1>1, <2>1, <3>2
    <3> QED BY <3>2, <3>3, <3>4, SeqEqual
  <2> QED BY <1>1, <1>2, <2>1, <2>2 DEF IsPrefix
<1> QED BY <1>3, <1>4

LEMMA Slash == <<"/">> \in Names /\ "/" \in Characters
BY LettersAssumption DEF Names

LEMMA CharactersOfAppend ==
  ASSUME NEW t \in Names, NEW c \in Characters
  PROVE  CharactersOf(Append(t, c)) = CharactersOf(t) \cup {c}
<1> DEFINE u == Append(t, c)
<1>1. /\ DOMAIN u = 1..(Len(t) + 1) /\ DOMAIN t = 1..Len(t) /\ Len(t) \in Nat
      /\ u[Len(t) + 1] = c /\ \A i \in 1..Len(t) : u[i] = t[i]
  BY AppendProperties, LenProperties DEF Names
<1>2. 1..(Len(t) + 1) = (1..Len(t)) \cup {Len(t) + 1}
  BY <1>1
<1> HIDE DEF u
<1>3. {u[i] : i \in 1..(Len(t) + 1)} = {t[i] : i \in 1..Len(t)} \cup {c}
  BY <1>1, <1>2
<1> QED BY <1>1, <1>3 DEF CharactersOf, u

\* No name of the path holds a separator.
NoSlash(p) == \A i \in DOMAIN p : "/" \notin CharactersOf(p[i])

LEMMA NoSlashAppend ==
  ASSUME NEW p \in NamePaths, NEW name \in Names
  PROVE  NoSlash(Append(p, name)) <=> NoSlash(p) /\ "/" \notin CharactersOf(name)
<1> DEFINE q == Append(p, name)
<1>1. /\ DOMAIN q = 1..(Len(p) + 1) /\ DOMAIN p = 1..Len(p) /\ Len(p) \in Nat
      /\ q[Len(p) + 1] = name /\ \A i \in 1..Len(p) : q[i] = p[i]
  BY AppendProperties, LenProperties DEF NamePaths
<1>2. 1..(Len(p) + 1) = (1..Len(p)) \cup {Len(p) + 1}
  BY <1>1
<1> HIDE DEF q
<1>3. NoSlash(q) <=> NoSlash(p) /\ "/" \notin CharactersOf(name)
  BY <1>1, <1>2 DEF NoSlash
<1> QED BY <1>3 DEF q

\* One more character starts a segment or is the end of the last.
LEMMA SplitGrows ==
  ASSUME NEW t \in Names, NEW c \in Characters
  PROVE  /\ Split(t) \in NamePaths /\ Split(t) # <<>>
         /\ c = "/" => Split(Append(t, c)) = Append(Split(t), <<>>)
         /\ \E r \in NamePaths, name \in Names :
              /\ Split(t) = Append(r, name)
              /\ c # "/" => Split(Append(t, c)) = Append(r, Append(name, c))
<1> DEFINE p == Split(t)
<1>1. /\ p \in NamePaths /\ p # <<>>
      /\ Split(Append(t, c)) =
              IF c = "/" THEN Append(p, <<>>)
              ELSE [p EXCEPT ![Len(p)] = Append(p[Len(p)], c)]
  BY SplitAppend DEF Names, NamePaths, Segments
<1> HIDE DEF p
<1>2. PICK r \in NamePaths, name \in Names : p = Append(r, name)
  BY <1>1, SequenceEmptyOrAppend DEF NamePaths
<1>3. /\ Len(p) = Len(r) + 1 /\ p[Len(p)] = name /\ Len(r) \in Nat
      /\ \A i \in 1..Len(r) : p[i] = r[i]
  BY <1>2, AppendProperties, LenProperties DEF NamePaths
<1> DEFINE e == Append(name, c)
<1>4. e \in Names
  BY AppendProperties DEF Names
<1> HIDE DEF e
<1>5. [p EXCEPT ![Len(p)] = e] = Append(r, e)
  <2>1. /\ [p EXCEPT ![Len(p)] = e] \in Seq(Names)
        /\ Len([p EXCEPT ![Len(p)] = e]) = Len(p)
        /\ \A j \in 1..Len(p) : [p EXCEPT ![Len(p)] = e][j] = IF j = Len(p) THEN e ELSE p[j]
    <3>1. Len(p) \in 1..Len(p) /\ p \in Seq(Names)
      BY <1>1, <1>3 DEF NamePaths
    <3> QED BY <1>4, <3>1, ExceptSeq
  <2>2. /\ Append(r, e) \in Seq(Names) /\ Len(Append(r, e)) = Len(r) + 1
        /\ \A i \in 1..Len(r) : Append(r, e)[i] = r[i]
        /\ Append(r, e)[Len(r) + 1] = e
    BY <1>4, AppendProperties DEF NamePaths
  <2> DEFINE a == [p EXCEPT ![Len(p)] = e]
             b == Append(r, e)
  <2>3. a \in Seq(Names) /\ b \in Seq(Names) /\ Len(a) = Len(b)
    BY <1>3, <2>1, <2>2
  <2>4. ASSUME NEW i \in 1..Len(a) PROVE a[i] = b[i]
    <3>1. i \in 1..Len(p) /\ (i = Len(r) + 1 \/ i \in 1..Len(r))
      BY <1>3, <2>1
    <3>2. a[i] = IF i = Len(p) THEN e ELSE p[i]
      BY <2>1, <3>1
    <3> HIDE DEF a, b
    <3> QED BY <1>3, <2>2, <3>1, <3>2 DEF b
  <2> HIDE DEF a, b
  <2>5. a = b
    BY <2>3, <2>4, SeqEqual
  <2> QED BY <2>5 DEF a, b
<1>6. c # "/" => Split(Append(t, c)) = Append(r, Append(name, c))
  BY <1>1, <1>3, <1>5 DEF e
<1> QED BY <1>1, <1>2, <1>6 DEF p

LEMMA SplitJoin ==
  ASSUME NEW a \in Names, NEW b \in Names
  PROVE  Split((a \o <<"/">>) \o b) = Split(a) \o Split(b)
<1> DEFINE as == a \o <<"/">>
           T == {t \in Names : Split(as \o t) = Split(a) \o Split(t)}
<1>1. as \in Names /\ as = Append(a, "/")
  BY Slash, ConcatProperties, AppendIsConcat DEF Names
<1>2. Split(a) \in NamePaths
  BY Slash, SplitGrows
<1> HIDE DEF as
<1>3. <<>> \in T
  <2>1. <<>> \in Names /\ as \o <<>> = as
    BY <1>1, ConcatEmptySeq DEF Names
  <2>2. Split(as) = Append(Split(a), <<>>)
    BY <1>1, Slash, SplitGrows
  <2>3. Append(Split(a), <<>>) = Split(a) \o << <<>> >>
    BY <1>2, <2>1, AppendIsConcat DEF NamePaths
  <2> QED BY <2>1, <2>2, <2>3, SplitEmpty
<1>4. ASSUME NEW t \in Names, NEW c \in Characters, t \in T
      PROVE  Append(t, c) \in T
  <2>1. /\ Append(t, c) \in Names /\ as \o t \in Names
        /\ as \o Append(t, c) = Append(as \o t, c)
    BY <1>1, AppendProperties, ConcatProperties, ConcatAppend DEF Names
  <2>2. Split(as \o t) = Split(a) \o Split(t)
    BY <1>4
  <2>3. PICK r \in NamePaths, name \in Names :
               /\ Split(t) = Append(r, name)
               /\ c # "/" => Split(Append(t, c)) = Append(r, Append(name, c))
    BY SplitGrows
  <2>4. PICK q \in NamePaths, last \in Names :
               /\ Split(as \o t) = Append(q, last)
               /\ c # "/" => Split(Append(as \o t, c)) = Append(q, Append(last, c))
    BY <2>1, SplitGrows
  <2>5. q = Split(a) \o r /\ last = name
    <3>1. Split(a) \o Append(r, name) = Append(Split(a) \o r, name) /\ Split(a) \o r \in NamePaths
      BY <1>2, ConcatAppend, ConcatProperties DEF NamePaths
    <3>2. Append(q, last) = Append(Split(a) \o r, name)
      BY <2>2, <2>3, <2>4, <3>1
    <3> DEFINE z == Split(a) \o r
    <3>3. z \in Seq(Names) /\ q \in Seq(Names) /\ Append(q, last) = Append(z, name)
      BY <3>1, <3>2 DEF NamePaths
    <3> HIDE DEF z
    <3>4. q = z /\ last = name
      BY <3>3, AppendInjective
    <3> QED BY <3>4 DEF z
  <2>6. CASE c = "/"
    <3>1. /\ Split(Append(as \o t, c)) = Append(Split(as \o t), <<>>)
          /\ Split(Append(t, c)) = Append(Split(t), <<>>) /\ Split(t) \in NamePaths
      BY <2>1, <2>6, SplitGrows
    <3>2. <<>> \in Names
      BY DEF Names
    <3>3. Split(a) \o Append(Split(t), <<>>) = Append(Split(a) \o Split(t), <<>>)
      BY <1>2, <3>1, <3>2, ConcatAppend DEF NamePaths
    <3> QED BY <2>1, <2>2, <3>1, <3>3
  <2>7. CASE c # "/"
    <3>1. Append(name, c) \in Names
      BY AppendProperties DEF Names
    <3>2. Split(a) \o Append(r, Append(name, c)) = Append(Split(a) \o r, Append(name, c))
      BY <1>2, <3>1, ConcatAppend DEF NamePaths
    <3> QED BY <2>1, <2>3, <2>4, <2>5, <2>7, <3>2
  <2> QED BY <2>6, <2>7
<1>5. Names \subseteq T
  <2> HIDE DEF T
  <2> QED BY <1>3, <1>4, SeqSetInduction DEF Names
<1> QED BY <1>5 DEF as

\* A text without a separator is its only segment.
LEMMA SplitName ==
  ASSUME NEW name \in Names, "/" \notin CharactersOf(name)
  PROVE  Split(name) = <<name>>
<1> DEFINE T == {t \in Names : "/" \notin CharactersOf(t) => Split(t) = <<t>>}
<1>1. <<>> \in T
  BY SplitEmpty DEF Names
<1>2. ASSUME NEW t \in Names, NEW c \in Characters, t \in T PROVE Append(t, c) \in T
  <2> SUFFICES ASSUME "/" \notin CharactersOf(Append(t, c))
               PROVE  Append(t, c) \in Names /\ Split(Append(t, c)) = <<Append(t, c)>>
    <3>1. Append(t, c) \in Names
      BY AppendProperties DEF Names
    <3> QED BY <3>1
  <2>1. Append(t, c) \in Names
    BY AppendProperties DEF Names
  <2>2. "/" \notin CharactersOf(t) /\ c # "/"
    BY CharactersOfAppend
  <2>3. Split(t) = <<t>>
    BY <1>2, <2>2
  <2>4. PICK r \in NamePaths, n \in Names :
               Split(t) = Append(r, n) /\ Split(Append(t, c)) = Append(r, Append(n, c))
    BY <2>2, SplitGrows
  <2>5. <<t>> = Append(<<>>, t) /\ <<>> \in NamePaths
    BY DEF NamePaths
  <2>6. r = <<>> /\ n = t
    BY <2>3, <2>4, <2>5, AppendInjective DEF NamePaths
  <2> QED BY <2>1, <2>4, <2>6
<1>3. Names \subseteq T
  <2> HIDE DEF T
  <2> QED BY <1>1, <1>2, SeqSetInduction DEF Names
<1> QED BY <1>3

LEMMA SplitNoSlash == \A t \in Names : NoSlash(Split(t))
<1> DEFINE T == {t \in Names : NoSlash(Split(t))}
<1>1. <<>> \in Names /\ <<>> \in NamePaths /\ CharactersOf(<<>>) = {} /\ NoSlash(<<>>)
  BY DEF Names, NamePaths, CharactersOf, NoSlash
<1>2. <<>> \in T
  <2>1. << <<>> >> = Append(<<>>, <<>>)
    OBVIOUS
  <2> QED BY <1>1, <2>1, SplitEmpty, NoSlashAppend
<1>3. ASSUME NEW t \in Names, NEW c \in Characters, t \in T PROVE Append(t, c) \in T
  <2>1. Append(t, c) \in Names
    BY AppendProperties DEF Names
  <2>2. PICK r \in NamePaths, n \in Names :
               /\ Split(t) = Append(r, n)
               /\ c # "/" => Split(Append(t, c)) = Append(r, Append(n, c))
    BY SplitGrows
  <2>3. NoSlash(r) /\ "/" \notin CharactersOf(n) /\ NoSlash(Split(t))
    BY <1>3, <2>2, NoSlashAppend
  <2>4. CASE c = "/"
    <3>1. Split(Append(t, c)) = Append(Split(t), <<>>) /\ Split(t) \in NamePaths
      BY <2>4, SplitGrows
    <3> QED BY <1>1, <2>1, <2>3, <3>1, NoSlashAppend
  <2>5. CASE c # "/"
    <3>1. Append(n, c) \in Names /\ "/" \notin CharactersOf(Append(n, c))
      BY <2>3, <2>5, AppendProperties, CharactersOfAppend DEF Names
    <3> QED BY <2>1, <2>2, <2>3, <2>5, <3>1, NoSlashAppend
  <2> QED BY <2>4, <2>5
<1>4. Names \subseteq T
  <2> HIDE DEF T
  <2> QED BY <1>2, <1>3, SeqSetInduction DEF Names
<1> QED BY <1>4

\* Joining the segments gives the text back.
LEMMA SpelledSplit == \A t \in Names : Spelled(Split(t)) = <<"/">> \o t
<1> DEFINE T == {t \in Names : Spelled(Split(t)) = <<"/">> \o t}
<1>1. <<>> \in Names /\ <<>> \in NamePaths /\ <<"/">> \o <<>> = <<"/">>
  BY Slash, ConcatEmptySeq DEF Names, NamePaths
<1>2. <<>> \in T
  <2>1. << <<>> >> = Append(<<>>, <<>>)
    OBVIOUS
  <2>2. Spelled(Append(<<>>, <<>>)) = (<<>> \o <<"/">>) \o <<>>
    BY <1>1, SpelledAppend, SpelledEmpty
  <2>3. (<<>> \o <<"/">>) \o <<>> = <<"/">>
    BY <1>1, Slash, ConcatEmptySeq DEF Names
  <2> QED BY <1>1, <2>1, <2>2, <2>3, SplitEmpty
<1>3. ASSUME NEW t \in Names, NEW c \in Characters, t \in T PROVE Append(t, c) \in T
  <2>1. Append(t, c) \in Names /\ <<"/">> \o t \in Names
    BY Slash, AppendProperties, ConcatProperties DEF Names
  <2>2. <<"/">> \o Append(t, c) = Append(<<"/">> \o t, c)
    BY Slash, ConcatAppend DEF Names
  <2>3. Split(t) \in NamePaths /\ Spelled(Split(t)) = <<"/">> \o t
    BY <1>3, SplitGrows
  <2>4. CASE c = "/"
    <3>1. Split(Append(t, c)) = Append(Split(t), <<>>)
      BY <2>4, SplitGrows
    <3>2. Spelled(Append(Split(t), <<>>)) = ((<<"/">> \o t) \o <<"/">>) \o <<>>
      BY <1>1, <2>3, SpelledAppend
    <3>3. (<<"/">> \o t) \o <<"/">> = Append(<<"/">> \o t, "/")
      BY <2>1, Slash, AppendIsConcat DEF Names
    <3>4. Append(<<"/">> \o t, "/") \in Names
      BY <2>1, Slash, AppendProperties DEF Names
    <3>5. Append(<<"/">> \o t, "/") \o <<>> = Append(<<"/">> \o t, "/")
      BY <3>4, ConcatEmptySeq DEF Names
    <3> QED BY <2>1, <2>2, <2>4, <3>1, <3>2, <3>3, <3>5
  <2>5. CASE c # "/"
    <3>1. PICK r \in NamePaths, n \in Names :
                 /\ Split(t) = Append(r, n)
                 /\ Split(Append(t, c)) = Append(r, Append(n, c))
      BY <2>5, SplitGrows
    <3>2. Append(n, c) \in Names
      BY AppendProperties DEF Names
    <3>3. /\ Spelled(Append(r, Append(n, c))) = (Spelled(r) \o <<"/">>) \o Append(n, c)
          /\ Spelled(Append(r, n)) = (Spelled(r) \o <<"/">>) \o n
          /\ Spelled(r) \in Names
      BY <3>2, SpelledAppend
    <3>4. (Spelled(r) \o <<"/">>) \o Append(n, c) = Append((Spelled(r) \o <<"/">>) \o n, c)
      <4>1. Spelled(r) \o <<"/">> \in Names
        BY <3>3, Slash, ConcatProperties DEF Names
      <4> QED BY <4>1, ConcatAppend DEF Names
    <3> QED BY <2>1, <2>2, <2>3, <3>1, <3>3, <3>4
  <2> QED BY <2>4, <2>5
<1>4. Names \subseteq T
  <2> HIDE DEF T
  <2> QED BY <1>2, <1>3, SeqSetInduction DEF Names
<1> QED BY <1>4

\* A name between two separators may be taken to either side.
LEMMA Regroup ==
  ASSUME NEW x \in Names, NEW y \in Names, NEW z \in Names
  PROVE  ((x \o y) \o <<"/">>) \o z = x \o ((y \o <<"/">>) \o z)
<1>1. (x \o y) \o <<"/">> = x \o (y \o <<"/">>)
  BY Slash, ConcatAssociative, SMTT(30) DEF Names
<1>2. y \o <<"/">> \in Names
  BY Slash, ConcatProperties DEF Names
<1>3. (x \o (y \o <<"/">>)) \o z = x \o ((y \o <<"/">>) \o z)
  BY <1>2, ConcatAssociative, SMTT(30) DEF Names
<1> QED BY <1>1, <1>3

\* Splitting a spelled path gives its names back, after an empty first segment.
LEMMA SplitSpelled ==
  ASSUME NEW p \in NamePaths, NoSlash(p)
  PROVE  Split(Spelled(p)) = << <<>> >> \o p
<1> DEFINE one == << <<>> >>
           T == {q \in NamePaths : NoSlash(q) => Split(Spelled(q)) = one \o q}
<1>1. one \in NamePaths /\ <<>> \in NamePaths
  BY DEF Names, NamePaths
<1>2. <<>> \in T
  <2>1. one \o <<>> = one
    BY <1>1, ConcatEmptySeq DEF NamePaths
  <2> QED BY <1>1, <2>1, SpelledEmpty, SplitEmpty
<1> HIDE DEF one
<1>3. ASSUME NEW q \in NamePaths, NEW name \in Names, q \in T PROVE Append(q, name) \in T
  <2>1. Append(q, name) \in NamePaths
    BY AppendProperties DEF NamePaths
  <2> SUFFICES ASSUME NoSlash(Append(q, name))
               PROVE  Split(Spelled(Append(q, name))) = one \o Append(q, name)
    BY <2>1
  <2>2. NoSlash(q) /\ "/" \notin CharactersOf(name)
    BY NoSlashAppend
  <2>3. Split(Spelled(q)) = one \o q
    BY <1>3, <2>2
  <2>4. Spelled(q) \in Names /\ Spelled(Append(q, name)) = (Spelled(q) \o <<"/">>) \o name
    BY SpelledAppend
  <2>5. Split((Spelled(q) \o <<"/">>) \o name) = Split(Spelled(q)) \o Split(name)
    BY <2>4, SplitJoin
  <2>6. Split(name) = <<name>>
    BY <2>2, SplitName
  <2>7. (one \o q) \o <<name>> = Append(one \o q, name) /\ one \o Append(q, name) = Append(one \o q, name)
    BY <1>1, ConcatProperties, AppendIsConcat, ConcatAppend DEF NamePaths
  <2> QED BY <2>3, <2>4, <2>5, <2>6, <2>7
<1>4. NamePaths \subseteq T
  <2> HIDE DEF T
  <2> QED BY <1>2, <1>3, SeqSetInduction DEF NamePaths
<1> QED BY <1>4 DEF one

LEMMA SpelledConcat ==
  ASSUME NEW p \in NamePaths, NEW q \in NamePaths
  PROVE  Spelled(p \o q) = Spelled(p) \o Spelled(q)
<1> DEFINE T == {r \in NamePaths : Spelled(p \o r) = Spelled(p) \o Spelled(r)}
<1>1. Spelled(p) \in Names
  <2>1. <<>> \in Names
    BY DEF Names
  <2> QED BY <2>1, SpelledAppend
<1>2. <<>> \in T
  <2>1. <<>> \in NamePaths /\ p \o <<>> = p /\ Spelled(p) \o <<>> = Spelled(p)
    BY <1>1, ConcatEmptySeq DEF Names, NamePaths
  <2> QED BY <2>1, SpelledEmpty
<1>3. ASSUME NEW r \in NamePaths, NEW name \in Names, r \in T PROVE Append(r, name) \in T
  <2>1. /\ Append(r, name) \in NamePaths /\ p \o r \in NamePaths
        /\ p \o Append(r, name) = Append(p \o r, name)
    BY AppendProperties, ConcatProperties, ConcatAppend DEF NamePaths
  <2>2. /\ Spelled(Append(p \o r, name)) = (Spelled(p \o r) \o <<"/">>) \o name
        /\ Spelled(Append(r, name)) = (Spelled(r) \o <<"/">>) \o name
        /\ Spelled(r) \in Names
    BY <2>1, SpelledAppend
  <2>3. Spelled(p \o r) = Spelled(p) \o Spelled(r)
    BY <1>3
  <2>4. ((Spelled(p) \o Spelled(r)) \o <<"/">>) \o name = Spelled(p) \o ((Spelled(r) \o <<"/">>) \o name)
    BY <1>1, <2>2, Regroup
  <2> QED BY <2>1, <2>2, <2>3, <2>4
<1>4. NamePaths \subseteq T
  <2> HIDE DEF T
  <2> QED BY <1>2, <1>3, SeqSetInduction DEF NamePaths
<1> QED BY <1>4

LEMMA SpelledType == \A p \in NamePaths : Spelled(p) \in Names
<1>1. <<>> \in Names
  BY DEF Names
<1> QED BY <1>1, SpelledAppend

\* Every path but the root starts with a separator.
LEMMA SpelledStarts ==
  ASSUME NEW q \in NamePaths, q # <<>>
  PROVE  \E x \in Names : Spelled(q) = <<"/">> \o x
<1> DEFINE Starts(p) == \E x \in Names : Spelled(p) = <<"/">> \o x
           T == {p \in NamePaths : p # <<>> => Starts(p)}
<1>1. <<>> \in T
  BY DEF NamePaths
<1>2. ASSUME NEW p \in NamePaths, NEW name \in Names, p \in T PROVE Append(p, name) \in T
  <2>1. Append(p, name) \in NamePaths
    BY AppendProperties DEF NamePaths
  <2>2. Spelled(Append(p, name)) = (Spelled(p) \o <<"/">>) \o name
    BY SpelledAppend
  <2>3. CASE p = <<>>
    <3>1. <<>> \o <<"/">> = <<"/">>
      BY Slash, ConcatEmptySeq DEF Names
    <3> QED BY <2>1, <2>2, <2>3, <3>1, SpelledEmpty
  <2>4. CASE p # <<>>
    <3>1. PICK x \in Names : Spelled(p) = <<"/">> \o x
      BY <1>2, <2>4
    <3>2. x \o <<"/">> \in Names
      BY Slash, ConcatProperties DEF Names
    <3>3. (<<"/">> \o x) \o <<"/">> = <<"/">> \o (x \o <<"/">>)
      BY Slash, ConcatAssociative DEF Names
    <3>4. (<<"/">> \o (x \o <<"/">>)) \o name = <<"/">> \o ((x \o <<"/">>) \o name)
      BY <3>2, Slash, ConcatAssociative DEF Names
    <3>5. (x \o <<"/">>) \o name \in Names
      BY <3>2, ConcatProperties DEF Names
    <3> QED BY <2>1, <2>2, <3>1, <3>3, <3>4, <3>5
  <2> QED BY <2>3, <2>4
<1>3. NamePaths \subseteq T
  <2> HIDE DEF T
  <2> QED BY <1>1, <1>2, SeqSetInduction DEF NamePaths
<1> QED BY <1>3

\* Comparing paths as text, with the separator, compares them name by name.
LEMMA WithinIsPrefix ==
  ASSUME NEW r \in NamePaths, NEW p \in NamePaths, NoSlash(r), NoSlash(p)
  PROVE  Within(r, p) <=> IsPrefix(r, p)
<1> DEFINE sr == Spelled(r)
           sp == Spelled(p)
           one == << <<>> >>
<1>1. sr \in Names /\ sp \in Names /\ sr \o <<"/">> \in Names
  BY SpelledType, Slash, ConcatProperties DEF Names
<1>2. ASSUME NEW q \in NamePaths, p = r \o q, q # <<>> PROVE StartsWith(sp, sr \o <<"/">>)
  <2>1. PICK x \in Names : Spelled(q) = <<"/">> \o x
    BY <1>2, SpelledStarts
  <2>2. sp = sr \o (<<"/">> \o x)
    BY <1>2, <2>1, SpelledConcat
  <2>3. sp = (sr \o <<"/">>) \o x
    <3> HIDE DEF sr
    <3> QED BY <1>1, <2>2, Slash, ConcatAssociative DEF Names
  <2> HIDE DEF sr, sp
  <2> QED BY <1>1, <2>3, PrefixConcat DEF StartsWith, Names
<1>3. ASSUME NEW q \in NamePaths, p = r \o q PROVE Within(r, p)
  <2>1. CASE q = <<>>
    BY <1>3, <2>1, ConcatEmptySeq DEF Within, NamePaths
  <2> QED BY <1>2, <1>3, <2>1 DEF Within
<1>4. ASSUME StartsWith(sp, sr \o <<"/">>) PROVE IsPrefix(r, p)
  <2>1. PICK x \in Names : sp = (sr \o <<"/">>) \o x
    <3> HIDE DEF sr, sp
    <3> QED BY <1>1, <1>4, PrefixConcat DEF StartsWith, Names
  <2>2. Split(sp) = Split(sr) \o Split(x)
    <3> HIDE DEF sr, sp
    <3> QED BY <1>1, <2>1, SplitJoin
  <2>3. Split(sp) = one \o p /\ Split(sr) = one \o r
    BY SplitSpelled
  <2>4. one \in NamePaths /\ Split(x) \in NamePaths
    BY Slash, SplitGrows DEF Names, NamePaths
  <2> HIDE DEF sr, sp, one
  <2>5. one \o p = one \o (r \o Split(x))
    <3>1. (one \o r) \o Split(x) = one \o (r \o Split(x))
      BY <2>4, ConcatAssociative DEF NamePaths
    <3> QED BY <2>2, <2>3, <3>1
  <2>6. r \o Split(x) \in NamePaths
    BY <2>4, ConcatProperties DEF NamePaths
  <2>7. p = r \o Split(x)
    BY <2>4, <2>5, <2>6, ConcatSimplifications DEF NamePaths
  <2> QED BY <2>4, <2>7, PrefixConcat DEF NamePaths
<1>5. ASSUME p = r PROVE IsPrefix(r, p)
  BY <1>5, LenProperties DEF IsPrefix, NamePaths
<1>6. ASSUME IsPrefix(r, p) PROVE Within(r, p)
  BY <1>3, <1>6, PrefixConcat DEF NamePaths
<1> QED BY <1>4, <1>5, <1>6 DEF Within

\* Names that name something are left as they are.
LEMMA ResolveProper ==
  ASSUME NEW p \in NamePaths, \A i \in DOMAIN p : IsName(p[i])
  PROVE  Resolve(p) = p
<1> DEFINE Proper(q) == \A i \in DOMAIN q : IsName(q[i])
           T == {q \in NamePaths : Proper(q) => Resolve(q) = q}
<1>1. <<>> \in T
  BY ResolveEmpty DEF NamePaths
<1>2. ASSUME NEW q \in NamePaths, NEW name \in Names, q \in T PROVE Append(q, name) \in T
  <2>1. Append(q, name) \in NamePaths
    BY AppendProperties DEF NamePaths
  <2> SUFFICES ASSUME Proper(Append(q, name)) PROVE Resolve(Append(q, name)) = Append(q, name)
    BY <2>1
  <2> DEFINE u == Append(q, name)
  <2>2. /\ DOMAIN u = 1..(Len(q) + 1) /\ DOMAIN q = 1..Len(q) /\ Len(q) \in Nat
        /\ u[Len(q) + 1] = name /\ \A i \in 1..Len(q) : u[i] = q[i]
    BY AppendProperties, LenProperties DEF NamePaths
  <2>3. \A i \in 1..(Len(q) + 1) : IsName(u[i])
    BY <2>2
  <2> HIDE DEF u
  <2>4. Proper(q) /\ IsName(name)
    BY <2>2, <2>3
  <2>5. name \notin {<<>>, <<".">>, <<".", ".">>}
    BY <2>4 DEF IsName
  <2> QED BY <1>2, <2>4, <2>5, ResolveAppend
<1>3. NamePaths \subseteq T
  <2> HIDE DEF T
  <2> QED BY <1>1, <1>2, SeqSetInduction DEF NamePaths
<1> QED BY <1>3

LEMMA ResolveNoSlash ==
  ASSUME NEW p \in NamePaths, NoSlash(p)
  PROVE  Resolve(p) \in NamePaths /\ NoSlash(Resolve(p))
<1> DEFINE T == {q \in NamePaths : NoSlash(q) => NoSlash(Resolve(q))}
<1>1. <<>> \in T
  BY ResolveEmpty DEF NamePaths
<1>2. ASSUME NEW q \in NamePaths, NEW name \in Names, q \in T PROVE Append(q, name) \in T
  <2>1. Append(q, name) \in NamePaths
    BY AppendProperties DEF NamePaths
  <2> SUFFICES ASSUME NoSlash(Append(q, name)) PROVE NoSlash(Resolve(Append(q, name)))
    BY <2>1
  <2>2. "/" \notin CharactersOf(name) /\ NoSlash(Resolve(q)) /\ Resolve(q) \in NamePaths
    BY <1>2, NoSlashAppend, ResolveAppend
  <2>3. NoSlash(Append(Resolve(q), name))
    BY <2>2, NoSlashAppend
  <2>4. ASSUME Resolve(q) # <<>> PROVE NoSlash(Front(Resolve(q)))
    <3>1. PICK n \in Names :
             Front(Resolve(q)) \in NamePaths /\ Append(Front(Resolve(q)), n) = Resolve(q)
      BY <2>2, <2>4, FrontProperties DEF NamePaths
    <3>2. NoSlash(Append(Front(Resolve(q)), n))
      BY <2>2, <3>1
    <3> QED BY <3>1, <3>2, NoSlashAppend
  <2> QED BY <2>2, <2>3, <2>4, ResolveAppend
<1>3. NamePaths \subseteq T
  <2> HIDE DEF T
  <2> QED BY <1>1, <1>2, SeqSetInduction DEF NamePaths
<1>4. <<>> \in Names
  BY DEF Names
<1> QED BY <1>3, <1>4, ResolveAppend

-----------------------------------------------------------------------------
(* Keys and their files.                                                   *)

LEMMA RootsType ==
  /\ BucketRoot \in NamePaths /\ NoSlash(BucketRoot)
  /\ \A i \in DOMAIN BucketRoot : IsName(BucketRoot[i])
<1>1. StorageRoot \in NamePaths /\ Bucket \in Names
  BY RootAssumption DEF NamePaths, Names, IsName
<1>2. /\ DOMAIN BucketRoot = 1..(Len(StorageRoot) + 1)
      /\ DOMAIN StorageRoot = 1..Len(StorageRoot) /\ Len(StorageRoot) \in Nat
      /\ BucketRoot[Len(StorageRoot) + 1] = Bucket
      /\ \A i \in 1..Len(StorageRoot) : BucketRoot[i] = StorageRoot[i]
      /\ BucketRoot \in NamePaths
  BY <1>1, AppendProperties, LenProperties DEF NamePaths, BucketRoot
<1>3. \A i \in DOMAIN BucketRoot : IsName(BucketRoot[i])
  <2> SUFFICES ASSUME NEW i \in 1..(Len(StorageRoot) + 1) PROVE IsName(BucketRoot[i])
    BY <1>2
  <2>1. i = Len(StorageRoot) + 1 \/ i \in 1..Len(StorageRoot)
    BY <1>2
  <2> QED BY <1>2, <2>1, RootAssumption
<1> QED BY <1>2, <1>3 DEF NoSlash, IsName

\* The names of a path made of two.
LEMMA ConcatNames ==
  ASSUME NEW p \in NamePaths, NEW q \in NamePaths
  PROVE  /\ p \o q \in NamePaths
         /\ \A i \in DOMAIN (p \o q) :
              \/ \E j \in DOMAIN p : (p \o q)[i] = p[j]
              \/ \E j \in DOMAIN q : (p \o q)[i] = q[j]
<1>1. /\ p \o q \in NamePaths /\ Len(p \o q) = Len(p) + Len(q)
      /\ \A i \in 1..(Len(p) + Len(q)) :
           (p \o q)[i] = IF i <= Len(p) THEN p[i] ELSE q[i - Len(p)]
      /\ Len(p) \in Nat /\ Len(q) \in Nat /\ DOMAIN p = 1..Len(p) /\ DOMAIN q = 1..Len(q)
  BY ConcatProperties, LenProperties DEF NamePaths
<1>2. DOMAIN (p \o q) = 1..(Len(p) + Len(q))
  BY <1>1, LenProperties DEF NamePaths
<1>3. ASSUME NEW i \in 1..(Len(p) + Len(q))
      PROVE  \/ \E j \in DOMAIN p : (p \o q)[i] = p[j]
             \/ \E j \in DOMAIN q : (p \o q)[i] = q[j]
  <2>1. i \in 1..Len(p) \/ (i - Len(p) \in 1..Len(q) /\ ~(i <= Len(p)))
    BY <1>1
  <2> QED BY <1>1, <2>1
<1> QED BY <1>1, <1>2, <1>3

\* The segments of an accepted key are names.
LEMMA ValidNames ==
  ASSUME NEW k \in Names, NEW allowAt, Valid(k, allowAt)
  PROVE  /\ \A i \in DOMAIN Split(k) : IsName(Split(k)[i])
         /\ Split(k) \in NamePaths /\ Split(k) # <<>>
         /\ Join(BucketRoot, k) = BucketRoot \o Split(k)
<1>1. Split(k) \in NamePaths /\ Split(k) # <<>> /\ NoSlash(Split(k))
  BY Slash, SplitGrows, SplitNoSlash
<1>2. \A i \in DOMAIN Split(k) : IsName(Split(k)[i])
  <2> SUFFICES ASSUME NEW i \in DOMAIN Split(k) PROVE IsName(Split(k)[i])
    OBVIOUS
  <2>1. Split(k)[i] \in Names
    BY <1>1, LenProperties, ElementOfSeq DEF NamePaths
  <2>2. SegmentOk(Split(k)[i], allowAt)
    BY DEF Valid
  <2> QED BY <1>1, <2>1, <2>2 DEF IsName, NoSlash, SegmentOk, Names
<1>3. ~StartsWith(k, <<"/">>)
  <2>1. Len(k) >= 1 /\ k[1] # "/" /\ Len(k) \in Nat
    BY LengthsAssumption, LenProperties DEF Valid, Names
  <2> SUFFICES ASSUME IsPrefix(<<"/">>, k) PROVE FALSE
    BY DEF StartsWith
  <2>2. PICK u \in Names : k = <<"/">> \o u
    BY Slash, PrefixConcat DEF Names
  <2>3. k[1] = "/"
    <3>1. 1 \in 1..(Len(<<"/">>) + Len(u)) /\ 1 <= Len(<<"/">>)
      BY LenProperties DEF Names
    <3> QED BY <2>2, <3>1, Slash, ConcatProperties DEF Names
  <2> QED BY <2>1, <2>3
<1> QED BY <1>1, <1>2, <1>3 DEF Join

LEMMA ValidFile ==
  ASSUME NEW k \in Names, NEW allowAt, Valid(k, allowAt)
  PROVE  ObjectFile(k) = BucketRoot \o Split(k) /\ AssertionHolds(k)
<1> DEFINE f == BucketRoot \o Split(k)
<1>1. /\ Split(k) \in NamePaths /\ Join(BucketRoot, k) = f
      /\ \A i \in DOMAIN Split(k) : IsName(Split(k)[i])
  BY ValidNames
<1>2. f \in NamePaths /\ \A i \in DOMAIN f : IsName(f[i])
  BY <1>1, RootsType, ConcatNames
<1> HIDE DEF f
<1>3. ObjectFile(k) = f
  BY <1>1, <1>2, ResolveProper DEF ObjectFile
<1>4. IsPrefix(BucketRoot, f) /\ NoSlash(f)
  BY <1>1, <1>2, RootsType, PrefixConcat DEF f, NamePaths, NoSlash, IsName
<1> QED BY <1>2, <1>3, <1>4, RootsType, WithinIsPrefix DEF f, AssertionHolds

\* Accepted keys of different text name different files of the bucket.
THEOREM OneKeyPerFile ==
  ASSUME NEW k \in Seq(Characters), NEW l \in Seq(Characters), NEW a, NEW b,
         Valid(k, a), Valid(l, b), ObjectFile(k) = ObjectFile(l)
  PROVE  k = l
<1>1. k \in Names /\ l \in Names
  BY DEF Names
<1>2. BucketRoot \o Split(k) = BucketRoot \o Split(l)
  BY <1>1, ValidFile
<1>3. Split(k) \in NamePaths /\ Split(l) \in NamePaths
  BY <1>1, Slash, SplitGrows
<1>4. Split(k) = Split(l)
  BY <1>2, <1>3, RootsType, ConcatSimplifications DEF NamePaths
<1>5. <<"/">> \o k = <<"/">> \o l
  BY <1>1, <1>4, SpelledSplit
<1> QED BY <1>1, <1>5, Slash, ConcatSimplifications DEF Names

\* The assertion of the driver is exact for every text.
LEMMA AssertionExact ==
  ASSUME NEW k \in Names
  PROVE  AssertionHolds(k) <=> IsPrefix(BucketRoot, ObjectFile(k))
<1>1. Split(k) \in NamePaths /\ NoSlash(Split(k))
  BY Slash, SplitGrows, SplitNoSlash
<1>2. Join(BucketRoot, k) \in NamePaths /\ NoSlash(Join(BucketRoot, k))
  <2>1. BucketRoot \o Split(k) \in NamePaths /\ NoSlash(BucketRoot \o Split(k))
    BY <1>1, RootsType, ConcatNames DEF NoSlash
  <2> QED BY <1>1, <2>1 DEF Join
<1>3. ObjectFile(k) \in NamePaths /\ NoSlash(ObjectFile(k))
  BY <1>2, ResolveNoSlash DEF ObjectFile
<1> QED BY <1>3, RootsType, WithinIsPrefix DEF AssertionHolds

\* A file below the directory that a service-only entry names has a key that starts
\* with the entry.
LEMMA BelowStartsWith ==
  ASSUME NEW k \in Names, NEW allowAt, Valid(k, allowAt),
         IsStrictPrefix(Resolve(BucketRoot \o Split(ServiceOnly)), ObjectFile(k))
  PROVE  StartsWith(k, ServiceOnly)
<1> DEFINE names == Split(ServiceOnly)
<1>1. /\ ServiceOnly \in Names /\ names \in NamePaths /\ names # <<>>
      /\ \A i \in DOMAIN names : IsName(names[i]) \/ (i = Len(names) /\ names[i] = <<>>)
  <2>1. ServiceOnly \in Names
    BY ServiceOnlyAssumption DEF Names
  <2> QED BY <2>1, Slash, SplitGrows, ServiceOnlyAssumption
<1>2. /\ Split(k) \in NamePaths /\ ObjectFile(k) = BucketRoot \o Split(k)
      /\ Spelled(Split(k)) = <<"/">> \o k /\ Spelled(names) = <<"/">> \o ServiceOnly
  BY <1>1, ValidNames, ValidFile, SpelledSplit
<1> HIDE DEF names
<1>3. PICK d \in NamePaths, last \in Names : names = Append(d, last)
  BY <1>1, SequenceEmptyOrAppend DEF NamePaths
<1>4. /\ Len(names) = Len(d) + 1 /\ names[Len(names)] = last /\ Len(d) \in Nat
      /\ DOMAIN names = 1..(Len(d) + 1) /\ DOMAIN d = 1..Len(d)
      /\ \A i \in 1..Len(d) : names[i] = d[i]
  BY <1>1, <1>3, AppendProperties, LenProperties DEF NamePaths
<1>5. \A i \in DOMAIN d : IsName(d[i])
  BY <1>1, <1>4
<1>6. IsName(last) \/ last = <<>>
  BY <1>1, <1>4
<1>7. /\ BucketRoot \o d \in NamePaths /\ Resolve(BucketRoot \o d) = BucketRoot \o d
      /\ BucketRoot \o names = Append(BucketRoot \o d, last)
  <2>1. BucketRoot \o d \in NamePaths /\ \A i \in DOMAIN (BucketRoot \o d) : IsName((BucketRoot \o d)[i])
    BY <1>5, RootsType, ConcatNames
  <2>2. Resolve(BucketRoot \o d) = BucketRoot \o d
    BY <2>1, ResolveProper
  <2>3. BucketRoot \o Append(d, last) = Append(BucketRoot \o d, last)
    BY RootsType, ConcatAppend DEF NamePaths
  <2> QED BY <1>3, <2>1, <2>2, <2>3
<1>8. ASSUME NEW dir \in NamePaths, NEW q \in NamePaths,
             BucketRoot \o Split(k) = (BucketRoot \o dir) \o q
      PROVE  <<"/">> \o k = Spelled(dir) \o Spelled(q)
  <2>1. (BucketRoot \o dir) \o q = BucketRoot \o (dir \o q) /\ dir \o q \in NamePaths
    BY RootsType, ConcatAssociative, ConcatProperties DEF NamePaths
  <2>2. Split(k) = dir \o q
    BY <1>2, <1>8, <2>1, RootsType, ConcatSimplifications DEF NamePaths
  <2> QED BY <1>2, <2>2, SpelledConcat
<1>9. \E x \in Names : <<"/">> \o k = (<<"/">> \o ServiceOnly) \o x
  <2>1. CASE last = <<>>
    <3>1. Resolve(BucketRoot \o names) = BucketRoot \o d
      BY <1>7, <2>1, ResolveAppend
    <3>2. IsPrefix(BucketRoot \o d, BucketRoot \o Split(k)) /\ BucketRoot \o d # BucketRoot \o Split(k)
      BY <1>2, <3>1 DEF IsStrictPrefix, names
    <3>3. PICK q \in NamePaths : BucketRoot \o Split(k) = (BucketRoot \o d) \o q
      <4> DEFINE f == BucketRoot \o d
                 g == BucketRoot \o Split(k)
      <4>1. f \in Seq(Names) /\ g \in Seq(Names) /\ IsPrefix(f, g)
        BY <1>2, <1>7, <3>2, RootsType, ConcatProperties DEF NamePaths
      <4>2. \E q \in Seq(Names) : g = f \o q
        <5> HIDE DEF f, g
        <5> QED BY <4>1, PrefixConcat
      <4> QED BY <4>2 DEF NamePaths
    <3>4. q # <<>>
      BY <1>7, <3>2, <3>3, ConcatEmptySeq DEF NamePaths
    <3>5. PICK x \in Names : Spelled(q) = <<"/">> \o x
      BY <3>4, SpelledStarts
    <3>6. <<"/">> \o k = Spelled(d) \o (<<"/">> \o x)
      BY <1>8, <3>3, <3>5
    <3>7. Spelled(d) \in Names /\ <<"/">> \o ServiceOnly = Spelled(d) \o <<"/">>
      <4>1. Spelled(d) \in Names /\ Spelled(names) = (Spelled(d) \o <<"/">>) \o <<>>
        BY <1>3, <2>1, SpelledAppend
      <4>2. Spelled(d) \o <<"/">> \in Names
        BY <4>1, Slash, ConcatProperties DEF Names
      <4> QED BY <1>2, <4>1, <4>2, ConcatEmptySeq DEF Names
    <3>8. (Spelled(d) \o <<"/">>) \o x = Spelled(d) \o (<<"/">> \o x)
      BY <3>7, Slash, ConcatAssociative, SMTT(30) DEF Names
    <3> QED BY <3>6, <3>7, <3>8
  <2>2. CASE IsName(last)
    <3>1. \A i \in DOMAIN names : IsName(names[i])
      BY <1>4, <1>5, <2>2
    <3>2. BucketRoot \o names \in NamePaths /\ Resolve(BucketRoot \o names) = BucketRoot \o names
      <4>1. /\ BucketRoot \o names \in NamePaths
            /\ \A i \in DOMAIN (BucketRoot \o names) :
                 \/ \E j \in DOMAIN BucketRoot : (BucketRoot \o names)[i] = BucketRoot[j]
                 \/ \E j \in DOMAIN names : (BucketRoot \o names)[i] = names[j]
        BY <1>1, RootsType, ConcatNames
      <4>2. \A i \in DOMAIN (BucketRoot \o names) : IsName((BucketRoot \o names)[i])
        BY <3>1, <4>1, RootsType
      <4> QED BY <4>1, <4>2, ResolveProper
    <3>3. PICK q \in NamePaths : BucketRoot \o Split(k) = (BucketRoot \o names) \o q
      <4> DEFINE f == BucketRoot \o names
                 g == BucketRoot \o Split(k)
      <4>1. IsPrefix(f, g)
        BY <1>2, <3>2 DEF IsStrictPrefix, names
      <4>2. f \in Seq(Names) /\ g \in Seq(Names)
        BY <1>2, <3>2, RootsType, ConcatProperties DEF NamePaths
      <4>3. \E q \in Seq(Names) : g = f \o q
        <5> HIDE DEF f, g
        <5> QED BY <4>1, <4>2, PrefixConcat
      <4> QED BY <4>3 DEF NamePaths
    <3>4. <<"/">> \o k = Spelled(names) \o Spelled(q)
      BY <1>1, <1>8, <3>3
    <3> QED BY <1>2, <3>4, SpelledType
  <2> QED BY <1>6, <2>1, <2>2
<1>10. PICK x \in Names : <<"/">> \o k = (<<"/">> \o ServiceOnly) \o x
  BY <1>9
<1>11. k = ServiceOnly \o x
  <2>1. (<<"/">> \o ServiceOnly) \o x = <<"/">> \o (ServiceOnly \o x) /\ ServiceOnly \o x \in Names
    BY <1>1, Slash, ConcatAssociative, ConcatProperties DEF Names
  <2> QED BY <1>10, <2>1, Slash, ConcatSimplifications DEF Names
<1> QED BY <1>1, <1>11, PrefixConcat DEF StartsWith, Names

-----------------------------------------------------------------------------
(* Whatever is typed.                                                      *)

LEMMA Typed == Spec => [](text \in Names)
<1>1. Init => text \in Names
  BY DEF Init, Names
<1>2. text \in Names /\ [Next]_text => (text \in Names)'
  BY AppendProperties DEF Next, Type, Stop, Names
<1> QED BY <1>1, <1>2, PTL DEF Spec

\* An accepted key, of any length and under any bucket, is the exact path of its file
\* below the bucket, and the assertion of the driver holds for it.
THEOREM KeysCanonical == Spec => []AcceptedIsCanonical
<1>1. text \in Names => AcceptedIsCanonical
  BY ValidFile DEF AcceptedIsCanonical
<1> QED BY <1>1, Typed, PTL

\* For any text, "..", "." and absolute ones included, the assertion of the driver
\* holds exactly for the paths at or below the bucket.
THEOREM AssertionCorrect == Spec => []AssertionIsExact
<1>1. text \in Names => AssertionIsExact
  BY AssertionExact DEF AssertionIsExact
<1> QED BY <1>1, Typed, PTL

\* No key that users may write names a file below the service-only directory.
THEOREM PolicyBinds == Spec => []PolicyBindsFiles
<1>1. text \in Names => PolicyBindsFiles
  BY BelowStartsWith DEF PolicyBindsFiles, UserWritable
<1> QED BY <1>1, Typed, PTL

-----------------------------------------------------------------------------
(* Content types.                                                          *)

LEMMA MinIsMin ==
  ASSUME NEW n \in Nat, NEW s \in SUBSET (1..n), s # {}
  PROVE  Min(s) \in s /\ \A i \in s : Min(s) <= i
<1> DEFINE S == {m \in Nat : \A r \in SUBSET (1..m) : r # {} => \E x \in r : \A y \in r : x =< y}
<1>1. 0 \in S
  <2>1. 1..0 = {}
    OBVIOUS
  <2> QED BY <2>1
<1>2. ASSUME NEW m \in Nat, m \in S PROVE m + 1 \in S
  <2> SUFFICES ASSUME NEW r \in SUBSET (1..(m + 1)), r # {}
               PROVE  \E x \in r : \A y \in r : x =< y
    OBVIOUS
  <2>1. CASE r = {m + 1}
    BY <2>1
  <2>2. CASE r # {m + 1}
    <3>1. r \ {m + 1} \in SUBSET (1..m) /\ r \ {m + 1} # {}
      BY <2>2
    <3>2. PICK x \in r \ {m + 1} : \A y \in r \ {m + 1} : x =< y
      BY <1>2, <3>1
    <3>3. x \in Nat /\ x <= m
      BY <3>1
    <3> QED BY <3>2, <3>3
  <2> QED BY <2>1, <2>2
<1>3. Nat \subseteq S
  <2> HIDE DEF S
  <2> QED BY <1>1, <1>2, NatSetInduction
<1>4. \E x \in s : \A y \in s : x =< y
  BY <1>3
<1> QED BY <1>4 DEF Min

\* The least and the greatest number of a set are Min and Max of it.
LEMMA Least ==
  ASSUME NEW n \in Nat, NEW s \in SUBSET (1..n), NEW k \in s, \A i \in s : k <= i
  PROVE  s # {} /\ Min(s) = k
<1>1. s # {}
  OBVIOUS
<1>2. Min(s) \in s /\ \A i \in s : Min(s) <= i
  BY <1>1, MinIsMin
<1>3. Min(s) <= k /\ k <= Min(s)
  BY <1>2
<1>4. Min(s) \in 1..n /\ k \in 1..n
  BY <1>2
<1> QED BY <1>1, <1>3, <1>4

LEMMA Greatest ==
  ASSUME NEW n \in Nat, NEW s \in SUBSET (1..n), NEW k \in s, \A i \in s : i <= k
  PROVE  s # {} /\ Max(s) = k
<1>1. s # {}
  OBVIOUS
<1>2. Max(s) \in s /\ \A i \in s : i <= Max(s)
  BY <1>1, MaxIsMax
<1>3. Max(s) <= k /\ k <= Max(s)
  BY <1>2
<1>4. Max(s) \in 1..n /\ k \in 1..n
  BY <1>2
<1> QED BY <1>1, <1>3, <1>4

\* A part of a text.
LEMMA PartOf ==
  ASSUME NEW t \in Names, NEW m \in 1..(Len(t) + 1), NEW n \in 0..Len(t), m <= n + 1
  PROVE  /\ SubSeq(t, m, n) \in Names /\ Len(SubSeq(t, m, n)) = n - m + 1
         /\ DOMAIN SubSeq(t, m, n) = 1..(n - m + 1)
         /\ \A i \in 1..(n - m + 1) : SubSeq(t, m, n)[i] = t[m + i - 1]
<1>1. Len(t) \in Nat /\ \A i \in m..n : t[i] \in Characters
  BY LenProperties, ElementOfSeq DEF Names
<1>2. /\ SubSeq(t, m, n) \in Seq(Characters)
      /\ Len(SubSeq(t, m, n)) = IF m <= n THEN n - m + 1 ELSE 0
      /\ \A i \in 1..(n - m + 1) : SubSeq(t, m, n)[i] = t[m + i - 1]
  BY <1>1, SubSeqProperties
<1>3. Len(SubSeq(t, m, n)) = n - m + 1
  BY <1>1, <1>2
<1> QED BY <1>2, <1>3, LenProperties DEF Names

\* The base of t is its first n characters: up to the first semicolon or to the end.
BaseEnd(t, n) ==
  /\ n \in 0..Len(t)
  /\ \A i \in 1..n : t[i] # ";"
  /\ n = Len(t) \/ t[n + 1] = ";"

LEMMA BaseIs ==
  ASSUME NEW t \in Names, NEW n, BaseEnd(t, n)
  PROVE  BaseOf(t) = SubSeq(t, 1, n)
<1> DEFINE cuts == {i \in DOMAIN t : t[i] = ";"}
           k == n + 1
<1>0. DOMAIN t = 1..Len(t)
  BY LenProperties DEF Names
<1>1. Len(t) \in Nat
  BY LenProperties DEF Names
<1>2. \A i : i \in cuts <=> i \in 1..Len(t) /\ t[i] = ";"
  BY <1>0
<1>3. BaseOf(t) = IF cuts = {} THEN t ELSE SubSeq(t, 1, Min(cuts) - 1)
  BY DEF BaseOf
<1>4. n \in 0..Len(t)
  BY DEF BaseEnd
<1>5. \A i \in 1..n : i \notin cuts
  BY <1>2 DEF BaseEnd
<1>6. n = Len(t) \/ t[k] = ";"
  BY DEF BaseEnd
<1>7. cuts \in SUBSET (1..Len(t))
  BY <1>2
<1> HIDE DEF cuts
<1>8. CASE n = Len(t)
  <2>1. cuts = {}
    BY <1>5, <1>7, <1>8
  <2> QED BY <1>3, <1>8, <2>1, SubSeqFull DEF Names
<1>9. CASE n # Len(t)
  <2>1. k \in 1..Len(t)
    BY <1>1, <1>4, <1>9
  <2>2. k \in cuts
    BY <1>2, <1>6, <1>9, <2>1
  <2>3. \A i \in cuts : k <= i
    <3> TAKE i \in cuts
    <3>1. i \in 1..Len(t) /\ i \notin 1..n
      BY <1>5, <1>7
    <3> QED BY <1>1, <1>4, <3>1
  <2>4. cuts # {} /\ Min(cuts) = k
    <3> HIDE DEF k
    <3> QED BY <1>1, <1>7, <2>2, <2>3, Least
  <2>5. k - 1 = n
    BY <1>1, <1>4
  <2> QED BY <1>3, <2>4, <2>5
<1> QED BY <1>8, <1>9

LEMMA BaseEnds == \A t \in Names : \E n : BaseEnd(t, n)
<1> TAKE t \in Names
<1> DEFINE cuts == {i \in 1..Len(t) : t[i] = ";"}
<1>1. Len(t) \in Nat
  BY LenProperties DEF Names
<1>2. \A i : i \in cuts <=> i \in 1..Len(t) /\ t[i] = ";"
  OBVIOUS
<1>3. cuts \in SUBSET (1..Len(t))
  BY <1>2
<1> HIDE DEF cuts
<1>4. CASE cuts = {}
  <2>1. \A i \in 1..Len(t) : t[i] # ";"
    BY <1>2, <1>4
  <2>2. Len(t) \in 0..Len(t)
    BY <1>1
  <2> QED BY <2>1, <2>2 DEF BaseEnd
<1>5. CASE cuts # {}
  <2> DEFINE k == Min(cuts)
             n == k - 1
  <2>1. k \in cuts /\ \A i \in cuts : k <= i
    BY <1>1, <1>3, <1>5, MinIsMin
  <2> HIDE DEF k
  <2>2. k \in 1..Len(t)
    BY <1>3, <2>1
  <2>3. n \in 0..Len(t) /\ n + 1 = k
    BY <1>1, <2>2
  <2>4. \A i \in 1..n : i \notin cuts
    BY <1>1, <2>1, <2>2
  <2>5. \A i \in 1..n : i \in 1..Len(t)
    BY <1>1, <2>2
  <2> HIDE DEF n
  <2>6. \A i \in 1..n : t[i] # ";"
    BY <1>2, <2>4, <2>5
  <2>7. t[n + 1] = ";"
    BY <1>2, <2>1, <2>3
  <2> QED BY <2>3, <2>6, <2>7 DEF BaseEnd
<1> QED BY <1>4, <1>5

\* m..n is the part of s that strip keeps.
Inked(s, m, n) ==
  /\ m \in 1..Len(s) /\ n \in 1..Len(s) /\ m <= n
  /\ s[m] # " " /\ s[n] # " "
  /\ \A i \in 1..Len(s) : i < m \/ i > n => s[i] = " "

Blank(s) == \A i \in 1..Len(s) : s[i] = " "

LEMMA StripIs ==
  ASSUME NEW s \in Names
  PROVE  /\ Blank(s) => Strip(s) = <<>>
         /\ \A m, n : Inked(s, m, n) => Strip(s) = SubSeq(s, m, n)
         /\ Blank(s) \/ \E m, n : Inked(s, m, n)
<1> DEFINE inked == {i \in DOMAIN s : s[i] # " "}
<1>0. DOMAIN s = 1..Len(s)
  BY LenProperties DEF Names
<1>1. Len(s) \in Nat
  BY LenProperties DEF Names
<1>2. \A i : i \in inked <=> i \in 1..Len(s) /\ s[i] # " "
  BY <1>0
<1>3. Strip(s) = IF inked = {} THEN <<>> ELSE SubSeq(s, Min(inked), Max(inked))
  BY DEF Strip
<1> HIDE DEF inked
<1>4. inked \in SUBSET (1..Len(s))
  BY <1>2
<1>5. Blank(s) <=> inked = {}
  BY <1>2 DEF Blank
<1>6. ASSUME NEW m, NEW n, Inked(s, m, n) PROVE Strip(s) = SubSeq(s, m, n)
  <2>1. m \in inked /\ n \in inked
    BY <1>2, <1>6 DEF Inked
  <2>2. m \in 1..Len(s) /\ n \in 1..Len(s)
    BY <1>4, <2>1
  <2>3. \A i \in inked : ~(i < m \/ i > n)
    BY <1>2, <1>6 DEF Inked
  <2>4. \A i \in inked : m <= i /\ i <= n
    <3> TAKE i \in inked
    <3>1. i \in 1..Len(s)
      BY <1>4
    <3>2. ~(i < m) /\ ~(i > n)
      BY <2>3
    <3> QED BY <1>1, <2>2, <3>1, <3>2
  <2>5. inked # {} /\ Min(inked) = m
    BY <1>1, <1>4, <2>1, <2>4, Least
  <2>6. Max(inked) = n
    BY <1>1, <1>4, <2>1, <2>4, Greatest
  <2> QED BY <1>3, <2>5, <2>6
<1>7. ASSUME inked # {} PROVE \E m, n : Inked(s, m, n)
  <2> DEFINE m == Min(inked)
             n == Max(inked)
  <2>1. m \in inked /\ \A i \in inked : m <= i
    BY <1>1, <1>4, <1>7, MinIsMin
  <2>2. n \in inked /\ \A i \in inked : i <= n
    BY <1>1, <1>4, <1>7, MaxIsMax
  <2> HIDE DEF m, n
  <2>3. m \in 1..Len(s) /\ n \in 1..Len(s) /\ m <= n
    BY <1>4, <2>1, <2>2
  <2>4. ASSUME NEW i \in 1..Len(s), i < m \/ i > n PROVE i \notin inked
    <3>1. i \in inked => m <= i /\ i <= n
      BY <2>1, <2>2
    <3>2. i < m => ~(m <= i)
      BY <1>1, <2>3
    <3>3. i > n => ~(i <= n)
      BY <1>1, <2>3
    <3> QED BY <2>4, <3>1, <3>2, <3>3
  <2>5. Inked(s, m, n)
    BY <1>2, <2>1, <2>2, <2>3, <2>4 DEF Inked
  <2> QED BY <2>5
<1> QED BY <1>3, <1>5, <1>6, <1>7

-----------------------------------------------------------------------------
(* The case of a content type and what surrounds it.                       *)

\* Lower case: it changes no blank and no semicolon, and twice is once.
LEMMA LowerOfIs ==
  ASSUME NEW char \in Characters
  PROVE  /\ LowerOf(char) \in Characters /\ LowerOf(LowerOf(char)) = LowerOf(char)
         /\ LowerOf(char) = " " <=> char = " "
         /\ LowerOf(char) = ";" <=> char = ";"
<1>1. CASE char \in Upper
  <2>1. \E low \in Lower : UpperOf[low] = char
    BY <1>1 DEF Upper
  <2>2. LowerOf(char) \in Lower
    BY <1>1, <2>1 DEF LowerOf
  <2>3. LowerOf(char) \in Characters /\ LowerOf(char) \notin Upper
    BY <2>2, CaseAssumption
  <2>4. LowerOf(LowerOf(char)) = LowerOf(char)
    BY <2>3 DEF LowerOf
  <2>5. char \notin {" ", ";"} /\ LowerOf(char) \notin {" ", ";"}
    BY <1>1, <2>2, CaseAssumption
  <2> QED BY <2>3, <2>4, <2>5
<1>2. CASE char \notin Upper
  BY <1>2 DEF LowerOf
<1> QED BY <1>1, <1>2

Lowered(t) == [i \in DOMAIN t |-> LowerOf(t[i])]

LEMMA LoweredIs ==
  ASSUME NEW t \in Names
  PROVE  /\ Lowered(t) \in Names /\ Len(Lowered(t)) = Len(t)
         /\ \A i \in 1..Len(t) : Lowered(t)[i] = LowerOf(t[i])
<1>1. Len(t) \in Nat /\ DOMAIN t = 1..Len(t) /\ \A i \in 1..Len(t) : t[i] \in Characters
  BY LenProperties, ElementOfSeq DEF Names
<1>2. \A i \in 1..Len(t) : LowerOf(t[i]) \in Characters
  BY <1>1, LowerOfIs
<1> DEFINE u == [i \in 1..Len(t) |-> LowerOf(t[i])]
<1>3. u \in Seq(Characters)
  BY <1>1, <1>2, IsASeq
<1>4. DOMAIN u = 1..Len(t) /\ \A i \in 1..Len(t) : u[i] = LowerOf(t[i])
  OBVIOUS
<1>5. Lowered(t) = u
  BY <1>1 DEF Lowered
<1> HIDE DEF u
<1>6. Len(u) = Len(t)
  BY <1>1, <1>3, <1>4, LenProperties
<1> QED BY <1>3, <1>4, <1>5, <1>6 DEF Names

\* Two texts of the same length and characters are the same.
LEMMA SameText ==
  ASSUME NEW s \in Names, NEW t \in Names, Len(s) = Len(t), \A i \in 1..Len(t) : s[i] = t[i]
  PROVE  s = t
BY SeqEqual DEF Names

LEMMA LoweredPart ==
  ASSUME NEW t \in Names, NEW m \in 1..(Len(t) + 1), NEW n \in 0..Len(t), m <= n + 1
  PROVE  SubSeq(Lowered(t), m, n) = Lowered(SubSeq(t, m, n))
<1> DEFINE L == Lowered(t)
           p == SubSeq(t, m, n)
           q == SubSeq(L, m, n)
<1>1. Len(t) \in Nat
  BY LenProperties DEF Names
<1>2. L \in Names /\ Len(L) = Len(t)
  BY LoweredIs
<1>3. \A i \in 1..Len(t) : L[i] = LowerOf(t[i])
  BY LoweredIs
<1> HIDE DEF L
<1>4. p \in Names /\ Len(p) = n - m + 1
  BY PartOf
<1>5. \A i \in 1..(n - m + 1) : p[i] = t[m + i - 1]
  BY PartOf
<1>6. m \in 1..(Len(L) + 1) /\ n \in 0..Len(L)
  BY <1>2
<1>7. q \in Names /\ Len(q) = n - m + 1
  BY <1>2, <1>6, PartOf
<1>8. \A i \in 1..(n - m + 1) : q[i] = L[m + i - 1]
  BY <1>2, <1>6, PartOf
<1> HIDE DEF p, q
<1>9. \A i \in 1..(n - m + 1) : m + i - 1 \in 1..Len(t)
  BY <1>1
<1>10. Lowered(p) \in Names /\ Len(Lowered(p)) = n - m + 1
  BY <1>4, LoweredIs
<1>11. \A i \in 1..(n - m + 1) : Lowered(p)[i] = LowerOf(p[i])
  BY <1>4, LoweredIs
<1>12. \A i \in 1..(n - m + 1) : q[i] = Lowered(p)[i]
  BY <1>3, <1>5, <1>8, <1>9, <1>11
<1>13. q = Lowered(p)
  BY <1>7, <1>10, <1>12, SameText
<1> QED BY <1>13 DEF L, p, q

LEMMA LoweredTwice == \A t \in Names : Lowered(Lowered(t)) = Lowered(t)
<1> TAKE t \in Names
<1> DEFINE L == Lowered(t)
<1>1. L \in Names /\ Len(L) = Len(t)
  BY LoweredIs
<1>2. \A i \in 1..Len(t) : L[i] = LowerOf(t[i])
  BY LoweredIs
<1>3. \A i \in 1..Len(t) : t[i] \in Characters
  BY ElementOfSeq DEF Names
<1> HIDE DEF L
<1>4. Lowered(L) \in Names /\ Len(Lowered(L)) = Len(L)
  BY <1>1, LoweredIs
<1>5. \A i \in 1..Len(L) : Lowered(L)[i] = LowerOf(L[i])
  BY <1>1, LoweredIs
<1>6. \A i \in 1..Len(L) : Lowered(L)[i] = L[i]
  <2> TAKE i \in 1..Len(L)
  <2>1. t[i] \in Characters /\ L[i] = LowerOf(t[i])
    BY <1>1, <1>2, <1>3
  <2>2. LowerOf(LowerOf(t[i])) = LowerOf(t[i])
    BY <2>1, LowerOfIs
  <2> QED BY <1>5, <2>1, <2>2
<1> QED BY <1>1, <1>4, <1>6, SameText DEF L

LEMMA BaseLowered ==
  ASSUME NEW t \in Names
  PROVE  BaseOf(t) \in Names /\ BaseOf(Lowered(t)) = Lowered(BaseOf(t))
<1> DEFINE L == Lowered(t)
<1>1. PICK n : BaseEnd(t, n)
  BY BaseEnds
<1>2. BaseOf(t) = SubSeq(t, 1, n)
  BY <1>1, BaseIs
<1>3. n \in 0..Len(t)
  BY <1>1 DEF BaseEnd
<1>4. Len(t) \in Nat
  BY LenProperties DEF Names
<1>5. 1 \in 1..(Len(t) + 1) /\ 1 <= n + 1
  BY <1>3, <1>4
<1>6. L \in Names /\ Len(L) = Len(t)
  BY LoweredIs
<1>7. \A i \in 1..Len(t) : L[i] = ";" <=> t[i] = ";"
  <2> TAKE i \in 1..Len(t)
  <2>1. t[i] \in Characters
    BY ElementOfSeq DEF Names
  <2>2. L[i] = LowerOf(t[i])
    BY LoweredIs
  <2> QED BY <2>1, <2>2, LowerOfIs
<1> HIDE DEF L
<1>8. \A i \in 1..n : i \in 1..Len(t)
  BY <1>3, <1>4
<1>9. n # Len(t) => n + 1 \in 1..Len(t)
  BY <1>3, <1>4
<1>10. BaseEnd(L, n)
  <2>1. \A i \in 1..n : t[i] # ";"
    BY <1>1 DEF BaseEnd
  <2>2. \A i \in 1..n : L[i] # ";"
    BY <1>7, <1>8, <2>1
  <2>3. n = Len(t) \/ t[n + 1] = ";"
    BY <1>1 DEF BaseEnd
  <2>4. n = Len(L) \/ L[n + 1] = ";"
    BY <1>6, <1>7, <1>9, <2>3
  <2> QED BY <1>3, <1>6, <2>2, <2>4 DEF BaseEnd
<1>11. BaseOf(L) = SubSeq(L, 1, n)
  BY <1>6, <1>10, BaseIs
<1>12. SubSeq(L, 1, n) = Lowered(SubSeq(t, 1, n))
  BY <1>3, <1>5, LoweredPart DEF L
<1>13. SubSeq(t, 1, n) \in Names
  BY <1>3, <1>5, PartOf
<1> QED BY <1>2, <1>11, <1>12, <1>13 DEF L

LEMMA StripLowered ==
  ASSUME NEW s \in Names
  PROVE  Strip(s) \in Names /\ Strip(Lowered(s)) = Lowered(Strip(s))
<1> DEFINE L == Lowered(s)
<1>1. Len(s) \in Nat
  BY LenProperties DEF Names
<1>2. L \in Names /\ Len(L) = Len(s)
  BY LoweredIs
<1>3. \A i \in 1..Len(s) : L[i] = " " <=> s[i] = " "
  <2> TAKE i \in 1..Len(s)
  <2>1. s[i] \in Characters
    BY ElementOfSeq DEF Names
  <2>2. L[i] = LowerOf(s[i])
    BY LoweredIs
  <2> QED BY <2>1, <2>2, LowerOfIs
<1> HIDE DEF L
<1>4. CASE Blank(s)
  <2>1. Blank(L)
    BY <1>2, <1>3, <1>4 DEF Blank
  <2>2. Strip(s) = <<>> /\ Strip(L) = <<>>
    BY <1>2, <1>4, <2>1, StripIs
  <2>3. <<>> \in Names /\ Len(<<>>) = 0
    BY EmptySeq DEF Names
  <2>4. Lowered(<<>>) = <<>>
    <3>1. Lowered(<<>>) \in Names /\ Len(Lowered(<<>>)) = 0
      BY <2>3, LoweredIs
    <3> QED BY <3>1, EmptySeq DEF Names
  <2> QED BY <2>2, <2>3, <2>4 DEF L
<1>5. ASSUME NEW m, NEW n, Inked(s, m, n)
      PROVE  Strip(s) \in Names /\ Strip(L) = Lowered(Strip(s))
  <2>1. m \in 1..Len(s) /\ n \in 1..Len(s) /\ m <= n
    BY <1>5 DEF Inked
  <2>2. Inked(L, m, n)
    <3>1. \A i \in 1..Len(s) : i < m \/ i > n => L[i] = " "
      BY <1>3, <1>5 DEF Inked
    <3>2. L[m] # " " /\ L[n] # " "
      BY <1>3, <1>5, <2>1 DEF Inked
    <3> QED BY <1>2, <2>1, <3>1, <3>2 DEF Inked
  <2>3. Strip(s) = SubSeq(s, m, n) /\ Strip(L) = SubSeq(L, m, n)
    BY <1>2, <1>5, <2>2, StripIs
  <2>4. m \in 1..(Len(s) + 1) /\ n \in 0..Len(s) /\ m <= n + 1
    BY <1>1, <2>1
  <2>5. SubSeq(L, m, n) = Lowered(SubSeq(s, m, n))
    BY <2>4, LoweredPart DEF L
  <2>6. SubSeq(s, m, n) \in Names
    BY <2>4, PartOf
  <2> QED BY <2>3, <2>5, <2>6
<1>6. Blank(s) \/ \E m, n : Inked(s, m, n)
  BY StripIs
<1> QED BY <1>4, <1>5, <1>6 DEF L

LEMMA NormalLowered == \A t \in Names : Normal(Lowered(t)) = Normal(t) /\ Normal(t) \in Names
<1> TAKE t \in Names
<1>1. \A u : Normal(u) = Lowered(Strip(BaseOf(u)))
  BY DEF Normal, Lowered
<1>2. BaseOf(t) \in Names /\ BaseOf(Lowered(t)) = Lowered(BaseOf(t))
  BY BaseLowered
<1>3. Strip(BaseOf(t)) \in Names /\ Strip(Lowered(BaseOf(t))) = Lowered(Strip(BaseOf(t)))
  BY <1>2, StripLowered
<1>4. Lowered(Lowered(Strip(BaseOf(t)))) = Lowered(Strip(BaseOf(t)))
  BY <1>3, LoweredTwice
<1>5. Lowered(Strip(BaseOf(t))) \in Names
  BY <1>3, LoweredIs
<1> QED BY <1>1, <1>2, <1>3, <1>4, <1>5

\* s is b between two blanks.
Padding(b, s) ==
  /\ s \in Names /\ Len(s) = Len(b) + 2
  /\ s[1] = " " /\ s[Len(b) + 2] = " "
  /\ \A i \in 1..Len(b) : s[i + 1] = b[i]

LEMMA StripPadded ==
  ASSUME NEW b \in Names, NEW s, Padding(b, s)
  PROVE  Strip(s) = Strip(b)
<1>1. Len(b) \in Nat
  BY LenProperties DEF Names
<1>2. s \in Names /\ Len(s) = Len(b) + 2
  BY DEF Padding
<1>3. s[1] = " " /\ s[Len(b) + 2] = " "
  BY DEF Padding
<1>4. \A i \in 1..Len(b) : s[i + 1] = b[i]
  BY DEF Padding
<1>5. \A i \in 1..Len(s) : i = 1 \/ i = Len(b) + 2 \/ (i - 1 \in 1..Len(b) /\ (i - 1) + 1 = i)
  BY <1>1, <1>2
<1>6. \A i \in 1..Len(s) : s[i] = " " \/ (i - 1 \in 1..Len(b) /\ s[i] = b[i - 1])
  BY <1>3, <1>4, <1>5
<1>7. CASE Blank(b)
  <2>1. Blank(s)
    BY <1>6, <1>7 DEF Blank
  <2> QED BY <1>2, <1>7, <2>1, StripIs
<1>8. ASSUME NEW m, NEW n, Inked(b, m, n) PROVE Strip(s) = Strip(b)
  <2>1. m \in 1..Len(b) /\ n \in 1..Len(b) /\ m <= n
    BY <1>8 DEF Inked
  <2>2. m + 1 \in 1..Len(s) /\ n + 1 \in 1..Len(s) /\ m + 1 <= n + 1
    BY <1>1, <1>2, <2>1
  <2>3. s[m + 1] # " " /\ s[n + 1] # " "
    BY <1>4, <1>8 DEF Inked
  <2>4. ASSUME NEW i \in 1..Len(s), i < m + 1 \/ i > n + 1 PROVE s[i] = " "
    <3>1. i - 1 \in 1..Len(b) => i - 1 < m \/ i - 1 > n
      BY <1>1, <1>2, <2>1, <2>4
    <3>2. \A j \in 1..Len(b) : j < m \/ j > n => b[j] = " "
      BY <1>8 DEF Inked
    <3> QED BY <1>6, <3>1, <3>2
  <2>5. Inked(s, m + 1, n + 1)
    BY <2>2, <2>3, <2>4 DEF Inked
  <2>6. Strip(s) = SubSeq(s, m + 1, n + 1) /\ Strip(b) = SubSeq(b, m, n)
    BY <1>2, <1>8, <2>5, StripIs
  <2>7. m \in 1..(Len(b) + 1) /\ n \in 0..Len(b) /\ m <= n + 1
    BY <1>1, <2>1
  <2>8. m + 1 \in 1..(Len(s) + 1) /\ n + 1 \in 0..Len(s) /\ m + 1 <= (n + 1) + 1
    BY <1>1, <1>2, <2>1
  <2>9. /\ SubSeq(b, m, n) \in Names /\ Len(SubSeq(b, m, n)) = n - m + 1
        /\ \A i \in 1..(n - m + 1) : SubSeq(b, m, n)[i] = b[m + i - 1]
    BY <2>7, PartOf
  <2>10. /\ SubSeq(s, m + 1, n + 1) \in Names
         /\ Len(SubSeq(s, m + 1, n + 1)) = (n + 1) - (m + 1) + 1
         /\ \A i \in 1..((n + 1) - (m + 1) + 1) :
              SubSeq(s, m + 1, n + 1)[i] = s[(m + 1) + i - 1]
    <3> DEFINE k == m + 1
               l == n + 1
    <3>1. k \in 1..(Len(s) + 1) /\ l \in 0..Len(s) /\ k <= l + 1
      BY <2>8
    <3> HIDE DEF k, l
    <3>2. /\ SubSeq(s, k, l) \in Names /\ Len(SubSeq(s, k, l)) = l - k + 1
          /\ \A i \in 1..(l - k + 1) : SubSeq(s, k, l)[i] = s[k + i - 1]
      BY <1>2, <3>1, PartOf
    <3> QED BY <3>2 DEF k, l
  <2>11. (n + 1) - (m + 1) + 1 = n - m + 1
    BY <2>1
  <2>12. \A i \in 1..(n - m + 1) : /\ m + i - 1 \in 1..Len(b)
                                   /\ (m + 1) + i - 1 = (m + i - 1) + 1
    BY <1>1, <2>1
  <2>13. \A i \in 1..(n - m + 1) : SubSeq(s, m + 1, n + 1)[i] = SubSeq(b, m, n)[i]
    BY <1>4, <2>9, <2>10, <2>11, <2>12
  <2>14. SubSeq(s, m + 1, n + 1) = SubSeq(b, m, n)
    BY <2>9, <2>10, <2>11, <2>13, SameText
  <2> QED BY <2>6, <2>14
<1>9. Blank(b) \/ \E m, n : Inked(b, m, n)
  BY StripIs
<1> QED BY <1>7, <1>8, <1>9

\* The characters of two texts in one.
LEMMA ConcatIs ==
  ASSUME NEW s \in Names, NEW t \in Names
  PROVE  /\ Len(s) \in Nat /\ Len(t) \in Nat
         /\ s \o t \in Names /\ Len(s \o t) = Len(s) + Len(t)
         /\ \A i \in 1..Len(s) : (s \o t)[i] = s[i]
         /\ \A i \in 1..Len(t) : (s \o t)[Len(s) + i] = t[i]
<1>1. Len(s) \in Nat /\ Len(t) \in Nat
  BY LenProperties DEF Names
<1>2. s \o t \in Names
  BY ConcatProperties DEF Names
<1>3. Len(s \o t) = Len(s) + Len(t)
  BY ConcatProperties DEF Names
<1>4. \A i \in 1..(Len(s) + Len(t)) : (s \o t)[i] = IF i <= Len(s) THEN s[i] ELSE t[i - Len(s)]
  BY ConcatProperties DEF Names
<1>5. \A i \in 1..Len(s) : i \in 1..(Len(s) + Len(t)) /\ i <= Len(s)
  BY <1>1
<1>6. \A i \in 1..Len(t) : Len(s) + i \in 1..(Len(s) + Len(t)) /\ ~(Len(s) + i <= Len(s))
  BY <1>1
<1>7. \A i \in 1..Len(t) : (Len(s) + i) - Len(s) = i
  BY <1>1
<1>8. \A i \in 1..Len(s) : (s \o t)[i] = s[i]
  BY <1>4, <1>5
<1>9. \A i \in 1..Len(t) : (s \o t)[Len(s) + i] = t[i]
  BY <1>4, <1>6, <1>7
<1> QED BY <1>1, <1>2, <1>3, <1>8, <1>9

\* The base of a text has no semicolon.
LEMMA BaseHasNone ==
  ASSUME NEW t \in Names
  PROVE  \A i \in 1..Len(BaseOf(t)) : BaseOf(t)[i] # ";"
<1>1. PICK n : BaseEnd(t, n)
  BY BaseEnds
<1>2. n \in 0..Len(t)
  BY <1>1 DEF BaseEnd
<1>3. \A i \in 1..n : t[i] # ";"
  BY <1>1 DEF BaseEnd
<1>4. Len(t) \in Nat
  BY LenProperties DEF Names
<1>5. 1 \in 1..(Len(t) + 1)
  BY <1>4
<1>6. 1 <= n + 1 /\ n - 1 + 1 = n
  BY <1>2, <1>4
<1>7. Len(SubSeq(t, 1, n)) = n - 1 + 1
  BY <1>2, <1>5, <1>6, PartOf
<1>8. \A i \in 1..(n - 1 + 1) : SubSeq(t, 1, n)[i] = t[1 + i - 1]
  BY <1>2, <1>5, <1>6, PartOf
<1>9. \A i \in 1..n : 1 + i - 1 = i
  BY <1>2, <1>4
<1>10. \A i \in 1..n : SubSeq(t, 1, n)[i] # ";"
  BY <1>3, <1>6, <1>8, <1>9
<1> QED BY <1>1, <1>6, <1>7, <1>10, BaseIs

\* A type with blanks around it and anything after a semicolon.
LEMMA NormalPadded ==
  ASSUME NEW t \in Names
  PROVE  Normal(<<" ">> \o BaseOf(t) \o <<" ", ";">> \o t) = Normal(t)
<1> DEFINE b == BaseOf(t)
           L == Len(b)
           p == <<" ">>
           q == <<" ", ";">>
           x == p \o b
           y == x \o q
           u == y \o t
           n == L + 2
           s == SubSeq(u, 1, n)
<1>1. p \in Names /\ q \in Names
  <2>1. " " \in Characters /\ ";" \in Characters
    BY CaseAssumption
  <2>2. \A a, c \in Characters : <<a>> \in Seq(Characters) /\ <<a, c>> \in Seq(Characters)
    OBVIOUS
  <2> QED BY <2>1, <2>2 DEF Names
<1>2. Len(p) = 1 /\ Len(q) = 2
  OBVIOUS
<1>3. p[1] = " " /\ q[1] = " " /\ q[2] = ";"
  OBVIOUS
<1>4. b \in Names
  BY BaseLowered
<1>5. \A i \in 1..L : b[i] # ";"
  BY BaseHasNone
<1> HIDE DEF p, q, b
<1>6. x \in Names /\ Len(x) = Len(p) + L /\ L \in Nat
  BY <1>1, <1>4, ConcatIs
<1>7. \A i \in 1..Len(p) : x[i] = p[i]
  BY <1>1, <1>4, ConcatIs
<1>8. \A i \in 1..L : x[Len(p) + i] = b[i]
  BY <1>1, <1>4, ConcatIs
<1> HIDE DEF x
<1>9. y \in Names /\ Len(y) = Len(x) + Len(q)
  BY <1>1, <1>6, ConcatIs
<1>10. \A i \in 1..Len(x) : y[i] = x[i]
  BY <1>1, <1>6, ConcatIs
<1>11. \A i \in 1..Len(q) : y[Len(x) + i] = q[i]
  BY <1>1, <1>6, ConcatIs
<1> HIDE DEF y
<1>12. u \in Names /\ Len(u) = Len(y) + Len(t) /\ Len(t) \in Nat
  BY <1>9, ConcatIs
<1>13. \A i \in 1..Len(y) : u[i] = y[i]
  BY <1>9, ConcatIs
<1> HIDE DEF u, L
<1>14. L \in Nat /\ Len(x) = L + 1 /\ Len(y) = L + 3
  BY <1>2, <1>6, <1>9
<1>15. Len(u) \in Nat /\ L + 3 <= Len(u)
  BY <1>12, <1>14
<1>16. u[1] = " "
  <2>1. 1 \in 1..Len(p) /\ 1 \in 1..Len(x) /\ 1 \in 1..Len(y)
    BY <1>2, <1>14
  <2> QED BY <1>3, <1>7, <1>10, <1>13, <2>1
<1>17. u[n] = " "
  <2>1. n = Len(x) + 1 /\ 1 \in 1..Len(q) /\ n \in 1..Len(y)
    BY <1>2, <1>14
  <2> QED BY <1>3, <1>11, <1>13, <2>1
<1>18. u[n + 1] = ";"
  <2>1. n + 1 = Len(x) + 2 /\ 2 \in 1..Len(q) /\ n + 1 \in 1..Len(y)
    BY <1>2, <1>14
  <2> QED BY <1>3, <1>11, <1>13, <2>1
<1>19. \A i \in 1..L : u[i + 1] = b[i]
  <2>1. \A i \in 1..L : i + 1 = Len(p) + i /\ i + 1 \in 1..Len(x) /\ i + 1 \in 1..Len(y)
    BY <1>2, <1>14
  <2> QED BY <1>8, <1>10, <1>13, <2>1
<1>20. \A i \in 1..n : i = 1 \/ i = n \/ (i - 1 \in 1..L /\ (i - 1) + 1 = i)
  BY <1>14
<1>21. \A i \in 1..n : u[i] # ";"
  BY <1>5, <1>16, <1>17, <1>19, <1>20 DEF L
<1>22. n \in 0..Len(u) /\ 1 \in 1..(Len(u) + 1) /\ 1 <= n + 1 /\ n - 1 + 1 = n
  BY <1>14, <1>15
<1>23. n = L + 2 /\ \A i \in 1..L : i + 1 \in 1..n
  BY <1>14
<1>24. 1 \in 1..n /\ n \in 1..n
  BY <1>14
<1> HIDE DEF n
<1>25. BaseEnd(u, n)
  BY <1>18, <1>21, <1>22 DEF BaseEnd
<1>26. BaseOf(u) = s
  BY <1>12, <1>25, BaseIs
<1>27. s \in Names /\ Len(s) = n
  BY <1>12, <1>22, PartOf
<1>28. \A i \in 1..n : s[i] = u[i]
  <2>1. \A i \in 1..(n - 1 + 1) : s[i] = u[1 + i - 1]
    BY <1>12, <1>22, PartOf
  <2>2. \A i \in 1..n : 1 + i - 1 = i
    BY <1>15, <1>22
  <2> QED BY <1>22, <2>1, <2>2
<1> HIDE DEF s
<1>29. Padding(b, s)
  <2>1. s[1] = " " /\ s[n] = " "
    BY <1>16, <1>17, <1>24, <1>28
  <2>2. \A i \in 1..L : s[i + 1] = b[i]
    BY <1>19, <1>23, <1>28
  <2> QED BY <1>23, <1>27, <2>1, <2>2 DEF Padding, L
<1>30. Strip(s) = Strip(b)
  BY <1>4, <1>29, StripPadded
<1>31. Normal(u) = Normal(t)
  <2>1. Strip(BaseOf(u)) = Strip(BaseOf(t))
    BY <1>26, <1>30 DEF b
  <2> QED BY <2>1 DEF Normal
<1> QED BY <1>31 DEF u, y, x, p, q, b

\* The cap of a type depends neither on its case nor on what surrounds it.
THEOREM CaseAndParameters == Spec => []SameTypeSameCap
<1>1. ASSUME text \in Names PROVE SameTypeSameCap
  <2>1. Normal(Lowered(text)) = Normal(text)
    BY <1>1, NormalLowered
  <2>2. Normal(<<" ">> \o BaseOf(text) \o <<" ", ";">> \o text) = Normal(text)
    BY <1>1, NormalPadded
  <2>3. Normal([i \in DOMAIN text |-> LowerOf(text[i])]) = Normal(text)
    BY <2>1 DEF Lowered
  <2>4. \A t, caps : Normal(t) = Normal(text) => UserCap(caps, t) = UserCap(caps, text)
    BY DEF UserCap
  <2> QED BY <2>2, <2>3, <2>4 DEF SameTypeSameCap
<1> QED BY <1>1, Typed, PTL

\* A map is a sequence of entries.
LEMMA MapsAreSequences == \A caps \in CapMaps : caps \in Seq(Entries)
<1> TAKE caps \in CapMaps
<1>1. PICK s \in SUBSET Entries : caps \in SetToSeqs(s)
  BY DEF CapMaps, SetToAllKPermutations
<1>2. IsFiniteSet(s)
  BY FS_Subset, EntriesAssumption
<1>3. Cardinality(s) \in Nat
  BY <1>2, FS_CardinalityType
<1>4. caps \in [1..Cardinality(s) -> s]
  BY <1>1 DEF SetToSeqs
<1>5. caps \in [1..Cardinality(s) -> Entries]
  BY <1>4
<1> QED BY <1>3, <1>5

\* The order of a map does not matter, for every map over every set of entries.
THEOREM LongestWins == Spec => []LongestEntryWins
<1>1. LongestEntryWins
  <2> SUFFICES ASSUME NEW caps \in CapMaps
               PROVE  IF Matches(caps, text) = {} THEN ServiceCap(caps, text) = Default
                      ELSE \E entry \in Matches(caps, text) :
                             /\ ServiceCap(caps, text) = CapOf[entry]
                             /\ \A other \in Matches(caps, text) : Len(other) <= Len(entry)
    BY DEF LongestEntryWins
  <2>1. caps \in Seq(Entries)
    BY MapsAreSequences
  <2>2. Longest(caps, text) = NoEntry <=> Matches(caps, text) = {}
    BY <2>1, LongestIsLongest
  <2>3. Longest(caps, text) # NoEntry =>
          /\ Longest(caps, text) \in Matches(caps, text)
          /\ \A other \in Matches(caps, text) : Len(other) <= Len(Longest(caps, text))
    BY <2>1, LongestIsLongest
  <2> QED BY <2>2, <2>3 DEF ServiceCap
<1> QED BY <1>1, PTL
=============================================================================
