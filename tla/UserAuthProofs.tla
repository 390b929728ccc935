--------------------------- MODULE UserAuthProofs ---------------------------
(***************************************************************************)
(* Theorems about UserAuth, for any number of requests and keys, any       *)
(* lifespan of the key set, any leeway, and any rotation of the keys.      *)
(***************************************************************************)
EXTENDS UserAuth, TLAPS

-----------------------------------------------------------------------------
(* The inductive invariant.                                                *)

Quiet ==
  ~up => /\ keyCache = {} /\ setCache = None /\ due = {} /\ verified = {}
         /\ \A r \in Requests : pc[r] = "idle" /\ fetched[r] = {}

\* All that the process holds was published since it started.
CachesKnown ==
  up => /\ published \subseteq known
        /\ keyCache \subseteq known
        /\ setCache # None => setCache.keys \subseteq known
        /\ \A r \in Requests : fetched[r] \subseteq known

\* A token comes to be decoded only with the secret or with a key that is remembered.
RequestInPlace(r) ==
  /\ pc[r] \in {"lookup", "fetch", "arrive"} => verifier = "jwks"
  /\ pc[r] = "decode" => \/ verifier = "secret"
                         \/ verifier = "jwks" /\ Kid(r) \in keyCache
  /\ pc[r] = "accepted" =>
       \/ verifier = "jwks" /\ token[r].header.signer \in known
       \/ verifier = "secret" /\ token[r].header.signer = "secret"

\* The token of a request that has a right to be let in is good, and a set that is on
\* its way for it holds its key.
DueInPlace(r) ==
  r \in due =>
    /\ pc[r] # "idle" /\ verifier = "jwks"
    /\ Kid(r) \in published /\ Signed(token[r].header)
    /\ token[r].header.alg = "ES256"
    /\ pc[r] = "arrive" => Kid(r) \in fetched[r]
    /\ pc[r] = "refused" => ~Live(token[r])

VerifiedRemembered == verified \subseteq keyCache

IInv ==
  /\ TypeOK
  /\ Quiet
  /\ CachesKnown
  /\ \A r \in Requests : RequestInPlace(r) /\ DueInPlace(r)
  /\ VerifiedRemembered

Labels == {"idle", "lookup", "fetch", "arrive", "decode", "accepted", "refused"}

-----------------------------------------------------------------------------
\* Who has signed in the name of a key has used the algorithm of keys.
LEMMA SignedIsES256 ==
  ASSUME NEW t \in Tokens, Signed(t.header), t.header.kid \in Kids
  PROVE  t.header.alg = "ES256"
BY NoneAssumption, KidsAssumption DEF Tokens, Headers, Signed

\* Who has the secret names no key.
LEMMA SecretNamesNone ==
  ASSUME NEW t \in Tokens, t.header.signer = "secret"
  PROVE  t.header.kid = None
BY KidsAssumption DEF Tokens, Headers

LEMMA KidIsKid ==
  ASSUME NEW t \in Tokens
  PROVE  t.header.kid \in Kids \cup {None}
BY DEF Tokens, Headers

LEMMA InitInv == Init => IInv
<1> SUFFICES ASSUME Init PROVE IInv
  OBVIOUS
<1>1. TypeOK
  <2>1. now \in 0..Horizon /\ retired \subseteq Kids \ published /\ published \subseteq Kids
    BY TimesAssumption DEF Init
  <2>2. \A r \in Requests : pc[r] = "idle" /\ token[r] = None
    BY DEF Init
  <2>3. /\ pc \in [Requests -> Labels] /\ token \in [Requests -> Tokens \cup {None}]
        /\ fetched \in [Requests -> SUBSET Kids]
    BY DEF Init, Labels
  <2>4. /\ verifier \in Verifiers /\ up \in BOOLEAN /\ keyCache \subseteq Kids
        /\ setCache \in JwkSets \cup {None} /\ known \subseteq Kids /\ due \subseteq Requests
        /\ verified \subseteq Kids
    BY DEF Init
  <2> QED BY <2>1, <2>2, <2>3, <2>4 DEF TypeOK, Labels
<1>2. Quiet /\ CachesKnown /\ VerifiedRemembered
  BY DEF Init, Quiet, CachesKnown, VerifiedRemembered
<1>3. \A r \in Requests : RequestInPlace(r) /\ DueInPlace(r)
  BY DEF Init, RequestInPlace, DueInPlace
<1> QED BY <1>1, <1>2, <1>3 DEF IInv

\* A token that is dead stays dead.
LEMMA TickInv == IInv /\ Tick => IInv'
<1> SUFFICES ASSUME IInv, Tick PROVE IInv'
  OBVIOUS
<1>1. /\ now < Horizon /\ now' = now + 1
      /\ UNCHANGED <<verifier, published, retired, up, keyCache, setCache, pc, token, fetched,
                     known, due, verified>>
  BY DEF Tick, provider, caches, locals, ghosts
<1>2. now' \in 0..Horizon
  BY <1>1, TimesAssumption DEF IInv, TypeOK
<1>3. TypeOK'
  BY <1>1, <1>2 DEF IInv, TypeOK
<1>4. ASSUME NEW t \in Tokens, ~Live(t) PROVE ~Live(t)'
  BY <1>1, <1>4, TimesAssumption DEF Live, Tokens, IInv, TypeOK
<1>5. ASSUME NEW r \in Requests PROVE RequestInPlace(r)' /\ DueInPlace(r)'
  <2>1. RequestInPlace(r)'
    BY <1>1 DEF IInv, RequestInPlace, Kid
  <2>2. DueInPlace(r)'
    <3>1. CASE r \notin due
      BY <1>1, <3>1 DEF DueInPlace
    <3>2. CASE r \in due
      <4>1. pc[r] # "idle" /\ token[r] \in Tokens
        BY <3>2 DEF IInv, DueInPlace, TypeOK
      <4> QED BY <1>1, <1>4, <4>1 DEF IInv, DueInPlace, Kid, Signed
    <3> QED BY <3>1, <3>2
  <2> QED BY <2>1, <2>2
<1>6. Quiet' /\ CachesKnown' /\ VerifiedRemembered'
  BY <1>1 DEF IInv, Quiet, CachesKnown, VerifiedRemembered
<1> QED BY <1>3, <1>5, <1>6 DEF IInv

-----------------------------------------------------------------------------
(* The provider.                                                           *)

LEMMA PublishInv ==
  ASSUME IInv, NEW k \in Kids, Publish(k)
  PROVE  IInv'
<1>1. /\ k \notin published \cup retired /\ published' = published \cup {k}
      /\ known' = known \cup {k}
      /\ UNCHANGED <<now, verifier, retired, up, keyCache, setCache, pc, token, fetched,
                     due, verified>>
  BY DEF Publish, caches, locals
<1>2. TypeOK'
  BY <1>1 DEF IInv, TypeOK
<1>3. ASSUME NEW r \in Requests PROVE RequestInPlace(r)' /\ DueInPlace(r)'
  BY <1>1 DEF IInv, RequestInPlace, DueInPlace, Kid, Signed, Live
<1>4. Quiet' /\ CachesKnown' /\ VerifiedRemembered'
  BY <1>1 DEF IInv, Quiet, CachesKnown, VerifiedRemembered
<1> QED BY <1>2, <1>3, <1>4 DEF IInv

\* Whose key is retired has no right any more, and nobody else loses it.
LEMMA RetireInv ==
  ASSUME IInv, NEW k \in Kids, Retire(k)
  PROVE  IInv'
<1>1. /\ k \in published /\ published' = published \ {k} /\ retired' = retired \cup {k}
      /\ due' = {r \in due : token[r].header.kid # k}
      /\ UNCHANGED <<now, verifier, up, keyCache, setCache, pc, token, fetched, known, verified>>
  BY DEF Retire, caches, locals
<1>2. TypeOK'
  BY <1>1 DEF IInv, TypeOK
<1>3. ASSUME NEW r \in Requests PROVE RequestInPlace(r)' /\ DueInPlace(r)'
  BY <1>1 DEF IInv, RequestInPlace, DueInPlace, Kid, Signed, Live
<1>4. Quiet' /\ CachesKnown' /\ VerifiedRemembered'
  BY <1>1 DEF IInv, Quiet, CachesKnown, VerifiedRemembered
<1> QED BY <1>2, <1>3, <1>4 DEF IInv

-----------------------------------------------------------------------------
(* The process.                                                            *)

LEMMA BootInv == IInv /\ Boot => IInv'
<1> SUFFICES ASSUME IInv, Boot PROVE IInv'
  OBVIOUS
<1>1. /\ ~up /\ up' = TRUE /\ known' = published
      /\ setCache' = [keys |-> published, at |-> now] \/ setCache' = setCache
      /\ UNCHANGED <<now, verifier, published, retired, keyCache, pc, token, fetched, due, verified>>
  BY DEF Boot, provider, locals
<1>2. /\ keyCache = {} /\ setCache = None /\ due = {} /\ verified = {}
      /\ \A r \in Requests : pc[r] = "idle" /\ fetched[r] = {}
  BY <1>1 DEF IInv, Quiet
<1>3. TypeOK'
  <2>1. [keys |-> published, at |-> now] \in JwkSets
    BY TimesAssumption DEF JwkSets, IInv, TypeOK
  <2>2. setCache' \in JwkSets \cup {None}
    BY <1>1, <1>2, <2>1
  <2> QED BY <1>1, <2>2 DEF IInv, TypeOK
<1>4. \A r \in Requests : RequestInPlace(r)' /\ DueInPlace(r)'
  BY <1>1, <1>2 DEF RequestInPlace, DueInPlace
<1>5. Quiet' /\ CachesKnown' /\ VerifiedRemembered'
  <2>1. setCache' # None => setCache'.keys = published
    BY <1>1, <1>2
  <2> QED BY <1>1, <1>2, <2>1 DEF Quiet, CachesKnown, VerifiedRemembered
<1> QED BY <1>3, <1>4, <1>5 DEF IInv

LEMMA DieInv == IInv /\ Die => IInv'
<1> SUFFICES ASSUME IInv, Die PROVE IInv'
  OBVIOUS
<1>1. /\ up' = FALSE /\ pc' = [r \in Requests |-> "idle"] /\ token' = [r \in Requests |-> None]
      /\ fetched' = [r \in Requests |-> {}] /\ keyCache' = {} /\ setCache' = None /\ due' = {}
      /\ verified' = {} /\ UNCHANGED <<now, verifier, published, retired, known>>
  BY DEF Die, provider
<1>2. TypeOK'
  BY <1>1 DEF IInv, TypeOK
<1>3. \A r \in Requests : RequestInPlace(r)' /\ DueInPlace(r)'
  BY <1>1 DEF RequestInPlace, DueInPlace
<1>4. Quiet' /\ CachesKnown' /\ VerifiedRemembered'
  BY <1>1 DEF Quiet, CachesKnown, VerifiedRemembered
<1> QED BY <1>2, <1>3, <1>4 DEF IInv

-----------------------------------------------------------------------------
(* Requests.                                                               *)

\* What the step of one request leaves of another.
LEMMA OtherRequest ==
  ASSUME IInv, NEW r \in Requests, RequestInPlace(r), DueInPlace(r),
         pc'[r] = pc[r], token'[r] = token[r], fetched'[r] = fetched[r],
         r \in due' <=> r \in due, keyCache \subseteq keyCache',
         UNCHANGED <<now, verifier, published, known>>
  PROVE  RequestInPlace(r)' /\ DueInPlace(r)'
<1>1. RequestInPlace(r)'
  BY DEF RequestInPlace, Kid
<1>2. DueInPlace(r)'
  BY DEF DueInPlace, Kid, Signed, Live
<1> QED BY <1>1, <1>2

LEMMA PresentInv ==
  ASSUME IInv, NEW r \in Requests, NEW t \in Tokens, Present(r, t)
  PROVE  IInv'
<1>1. /\ up /\ pc[r] = "idle" /\ token' = [token EXCEPT ![r] = t]
      /\ UNCHANGED <<now, verifier, published, retired, up, keyCache, setCache, fetched,
                     known, verified>>
  BY DEF Present, At, provider, caches
<1>2. PICK label \in {"decode", "lookup", "refused"} :
        /\ pc' = [pc EXCEPT ![r] = label]
        /\ label = "decode" => verifier = "secret"
        /\ label = "lookup" <=> verifier = "jwks"
  <2>1. pc' = [pc EXCEPT ![r] = CASE verifier = "secret" -> "decode"
                                  [] verifier = "jwks" -> "lookup"
                                  [] OTHER -> "refused"]
    BY DEF Present, Goto
  <2>2. CASE verifier = "secret"
    BY <2>1, <2>2
  <2>3. CASE verifier = "jwks"
    BY <2>1, <2>3
  <2>4. CASE verifier \notin {"secret", "jwks"}
    BY <2>1, <2>4
  <2> QED BY <2>2, <2>3, <2>4
<1>3. /\ due' \in {due, due \cup {r}}
      /\ r \in due' /\ r \notin due =>
           verifier = "jwks" /\ Signed(t.header) /\ t.header.kid \in published
  BY DEF Present
<1>4. r \notin due
  BY <1>1 DEF IInv, DueInPlace
<1>5. TypeOK'
  <2>1. token' \in [Requests -> Tokens \cup {None}] /\ pc' \in [Requests -> Labels]
    BY <1>1, <1>2 DEF IInv, TypeOK, Labels
  <2>2. \A q \in Requests : pc'[q] = "idle" <=> token'[q] = None
    BY <1>1, <1>2, TokensAssumption DEF IInv, TypeOK
  <2> QED BY <1>1, <1>3, <2>1, <2>2 DEF IInv, TypeOK, Labels
<1>6. RequestInPlace(r)' /\ DueInPlace(r)'
  <2>1. pc'[r] \in {"decode", "lookup", "refused"} /\ token'[r] = t /\ pc'[r] = label
    BY <1>1, <1>2 DEF IInv, TypeOK
  <2>2. RequestInPlace(r)'
    BY <1>1, <1>2, <2>1 DEF RequestInPlace
  <2>3. DueInPlace(r)'
    <3>1. CASE r \notin due'
      BY <3>1 DEF DueInPlace
    <3>2. CASE r \in due'
      <4>1. verifier = "jwks" /\ Signed(t.header) /\ t.header.kid \in published
        BY <1>3, <1>4, <3>2
      <4>2. t.header.alg = "ES256" /\ pc'[r] = "lookup"
        BY <1>2, <2>1, <4>1, SignedIsES256 DEF IInv, TypeOK
      <4> QED BY <1>1, <2>1, <4>1, <4>2 DEF DueInPlace, Kid, Signed
    <3> QED BY <3>1, <3>2
  <2> QED BY <2>2, <2>3
<1>7. ASSUME NEW q \in Requests, q # r PROVE RequestInPlace(q)' /\ DueInPlace(q)'
  BY <1>1, <1>2, <1>3, <1>7, OtherRequest DEF IInv, TypeOK
<1>8. Quiet' /\ CachesKnown' /\ VerifiedRemembered'
  BY <1>1 DEF IInv, Quiet, CachesKnown, VerifiedRemembered
<1> QED BY <1>5, <1>6, <1>7, <1>8 DEF IInv

\* A kid that is found is remembered, and was known before.
LEMMA LookupInv ==
  ASSUME IInv, NEW r \in Requests, Lookup(r)
  PROVE  IInv'
<1>1. /\ up /\ pc[r] = "lookup" /\ verifier = "jwks"
      /\ UNCHANGED <<now, verifier, published, retired, up, setCache, token, fetched, known, due,
                     verified>>
  BY DEF Lookup, At, provider, ghosts, IInv, RequestInPlace
<1>2. Trusted \subseteq known /\ keyCache \subseteq known /\ known \subseteq Kids
  BY <1>1 DEF Trusted, IInv, CachesKnown, TypeOK
<1>3. PICK label \in {"decode", "fetch"} :
        /\ pc' = [pc EXCEPT ![r] = label]
        /\ keyCache \subseteq keyCache' /\ keyCache' \subseteq known
        /\ label = "decode" => Kid(r) \in keyCache'
  BY <1>2 DEF Lookup, Goto
<1>4. TypeOK'
  <2>1. pc' \in [Requests -> Labels]
    BY <1>3 DEF IInv, TypeOK, Labels
  <2>2. \A q \in Requests : pc'[q] = "idle" <=> token'[q] = None
    BY <1>1, <1>3 DEF IInv, TypeOK
  <2> QED BY <1>1, <1>2, <1>3, <2>1, <2>2 DEF IInv, TypeOK, Labels
<1>5. RequestInPlace(r)' /\ DueInPlace(r)'
  <2>1. pc'[r] = label
    BY <1>3 DEF IInv, TypeOK
  <2> QED BY <1>1, <1>3, <2>1 DEF IInv, RequestInPlace, DueInPlace, Kid, Signed
<1>6. ASSUME NEW q \in Requests, q # r PROVE RequestInPlace(q)' /\ DueInPlace(q)'
  BY <1>1, <1>3, <1>6, OtherRequest DEF IInv, TypeOK
<1>7. Quiet' /\ CachesKnown' /\ VerifiedRemembered'
  BY <1>1, <1>3 DEF IInv, Quiet, CachesKnown, VerifiedRemembered
<1> QED BY <1>4, <1>5, <1>6, <1>7 DEF IInv

LEMMA FetchInv ==
  ASSUME IInv, NEW r \in Requests, Fetch(r)
  PROVE  IInv'
<1>1. /\ up /\ pc[r] = "fetch" /\ pc' = [pc EXCEPT ![r] = "arrive"]
      /\ fetched' = [fetched EXCEPT ![r] = published]
      /\ UNCHANGED <<now, verifier, published, retired, up, keyCache, setCache, token, known, due,
                     verified>>
  BY DEF Fetch, At, Goto, provider, caches, ghosts
<1>2. TypeOK'
  <2>1. /\ pc' \in [Requests -> Labels] /\ fetched' \in [Requests -> SUBSET Kids]
        /\ \A q \in Requests : pc'[q] = "idle" <=> token'[q] = None
    BY <1>1 DEF IInv, TypeOK, Labels
  <2> QED BY <1>1, <2>1 DEF IInv, TypeOK, Labels
<1>3. RequestInPlace(r)' /\ DueInPlace(r)'
  <2>1. pc'[r] = "arrive" /\ fetched'[r] = published
    BY <1>1 DEF IInv, TypeOK
  <2> QED BY <1>1, <2>1 DEF IInv, RequestInPlace, DueInPlace, Kid, Signed
<1>4. ASSUME NEW q \in Requests, q # r PROVE RequestInPlace(q)' /\ DueInPlace(q)'
  BY <1>1, <1>4, OtherRequest DEF IInv, TypeOK
<1>5. Quiet' /\ VerifiedRemembered'
  BY <1>1 DEF IInv, Quiet, VerifiedRemembered
<1>6. CachesKnown'
  BY <1>1 DEF IInv, TypeOK, CachesKnown
<1> QED BY <1>2, <1>3, <1>4, <1>5, <1>6 DEF IInv

\* The set that arrives for a due request holds its kid.
LEMMA ArriveInv ==
  ASSUME IInv, NEW r \in Requests, Arrive(r)
  PROVE  IInv'
<1>1. /\ up /\ pc[r] = "arrive" /\ verifier = "jwks"
      /\ setCache' = [keys |-> fetched[r], at |-> now]
      /\ fetched' = [fetched EXCEPT ![r] = {}]
      /\ UNCHANGED <<now, verifier, published, retired, up, token, known, due, verified>>
  BY DEF Arrive, At, provider, ghosts, IInv, RequestInPlace
<1>2. fetched[r] \subseteq known /\ keyCache \subseteq known /\ known \subseteq Kids
  BY <1>1 DEF IInv, CachesKnown, TypeOK
<1>3. PICK label \in {"decode", "refused"} :
        /\ pc' = [pc EXCEPT ![r] = label]
        /\ keyCache \subseteq keyCache' /\ keyCache' \subseteq known
        /\ label = "decode" => Kid(r) \in keyCache'
        /\ label = "refused" => Kid(r) \notin fetched[r]
  BY <1>2 DEF Arrive, Goto
<1>4. TypeOK'
  <2>1. /\ pc' \in [Requests -> Labels] /\ fetched' \in [Requests -> SUBSET Kids]
        /\ \A q \in Requests : pc'[q] = "idle" <=> token'[q] = None
    BY <1>1, <1>3 DEF IInv, TypeOK, Labels
  <2>2. setCache' \in JwkSets
    BY <1>1 DEF IInv, TypeOK, JwkSets
  <2> QED BY <1>1, <1>2, <1>3, <2>1, <2>2 DEF IInv, TypeOK, Labels
<1>5. RequestInPlace(r)' /\ DueInPlace(r)'
  <2>1. pc'[r] = label
    BY <1>3 DEF IInv, TypeOK
  <2> QED BY <1>1, <1>3, <2>1 DEF IInv, RequestInPlace, DueInPlace, Kid, Signed
<1>6. ASSUME NEW q \in Requests, q # r PROVE RequestInPlace(q)' /\ DueInPlace(q)'
  BY <1>1, <1>3, <1>6, OtherRequest DEF IInv, TypeOK
<1>7. Quiet' /\ VerifiedRemembered'
  BY <1>1, <1>3 DEF IInv, Quiet, VerifiedRemembered
<1>8. CachesKnown'
  <2>1. setCache'.keys = fetched[r] /\ \A q \in Requests : fetched'[q] \subseteq known
    BY <1>1 DEF IInv, TypeOK, CachesKnown
  <2> QED BY <1>1, <1>2, <1>3, <2>1 DEF IInv, CachesKnown
<1> QED BY <1>4, <1>5, <1>6, <1>7, <1>8 DEF IInv

LEMMA FetchFailsInv ==
  ASSUME IInv, NEW r \in Requests, FetchFails(r)
  PROVE  IInv'
<1>1. /\ up /\ pc[r] \in {"fetch", "arrive"} /\ pc' = [pc EXCEPT ![r] = "refused"]
      /\ setCache' = None /\ fetched' = [fetched EXCEPT ![r] = {}] /\ due' = due \ {r}
      /\ UNCHANGED <<now, verifier, published, retired, up, keyCache, token, known, verified>>
  BY DEF FetchFails, Goto, provider
<1>2. TypeOK'
  <2>1. /\ pc' \in [Requests -> Labels] /\ fetched' \in [Requests -> SUBSET Kids]
        /\ \A q \in Requests : pc'[q] = "idle" <=> token'[q] = None
    BY <1>1 DEF IInv, TypeOK, Labels
  <2> QED BY <1>1, <2>1 DEF IInv, TypeOK, Labels
<1>3. RequestInPlace(r)' /\ DueInPlace(r)'
  <2>1. pc'[r] = "refused"
    BY <1>1 DEF IInv, TypeOK
  <2> QED BY <1>1, <2>1 DEF RequestInPlace, DueInPlace
<1>4. ASSUME NEW q \in Requests, q # r PROVE RequestInPlace(q)' /\ DueInPlace(q)'
  BY <1>1, <1>4, OtherRequest DEF IInv, TypeOK
<1>5. Quiet' /\ VerifiedRemembered'
  BY <1>1 DEF IInv, Quiet, VerifiedRemembered
<1>6. CachesKnown'
  BY <1>1 DEF IInv, TypeOK, CachesKnown
<1> QED BY <1>2, <1>3, <1>4, <1>5, <1>6 DEF IInv

\* With the provider's keys, a signature that holds is that of the kid, which is known.
LEMMA DecodeInv ==
  ASSUME IInv, NEW r \in Requests, Decode(r)
  PROVE  IInv'
<1>1. /\ up /\ pc[r] = "decode"
      /\ UNCHANGED <<now, verifier, published, retired, up, keyCache, setCache, token, fetched,
                     known, due>>
  BY DEF Decode, At, provider, caches
<1>2. token[r] \in Tokens /\ keyCache \subseteq known
  BY <1>1 DEF IInv, TypeOK, CachesKnown
<1> DEFINE h == token[r].header
<1>3. CASE SignatureHolds(h) /\ Live(token[r])
  <2>1. pc' = [pc EXCEPT ![r] = "accepted"] /\ verified' = verified \cup ({Kid(r)} \ {None})
    BY <1>3 DEF Decode, Goto
  <2>2. /\ \/ verifier = "secret" /\ h.signer = "secret"
           \/ verifier = "jwks" /\ h.signer \in known
        /\ Kid(r) # None => Kid(r) \in keyCache
    <3>1. CASE verifier = "secret"
      <4>1. h.signer = "secret"
        BY <1>3, <3>1 DEF SignatureHolds
      <4> QED BY <1>2, <3>1, <4>1, SecretNamesNone DEF Kid
    <3>2. CASE verifier # "secret"
      <4>1. verifier = "jwks" /\ Kid(r) \in keyCache
        BY <1>1, <3>2 DEF IInv, RequestInPlace
      <4>2. h.signer = Kid(r)
        BY <1>3, <3>2 DEF SignatureHolds, JwksAlgs, Signed, Kid
      <4> QED BY <1>2, <4>1, <4>2
    <3> QED BY <3>1, <3>2
  <2>3. pc'[r] = "accepted"
    BY <2>1 DEF IInv, TypeOK
  <2>4. TypeOK'
    <3>1. /\ pc' \in [Requests -> Labels]
          /\ \A q \in Requests : pc'[q] = "idle" <=> token'[q] = None
      BY <1>1, <2>1 DEF IInv, TypeOK, Labels
    <3>2. verified' \subseteq Kids
      BY <2>1, <2>2 DEF IInv, TypeOK
    <3> QED BY <1>1, <3>1, <3>2 DEF IInv, TypeOK, Labels
  <2>5. RequestInPlace(r)' /\ DueInPlace(r)'
    BY <1>1, <2>2, <2>3 DEF IInv, RequestInPlace, DueInPlace, Kid, Signed
  <2>6. ASSUME NEW q \in Requests, q # r PROVE RequestInPlace(q)' /\ DueInPlace(q)'
    BY <1>1, <2>1, <2>6, OtherRequest DEF IInv, TypeOK
  <2>7. Quiet' /\ CachesKnown' /\ VerifiedRemembered'
    BY <1>1, <2>1, <2>2 DEF IInv, Quiet, CachesKnown, VerifiedRemembered
  <2> QED BY <2>4, <2>5, <2>6, <2>7 DEF IInv
<1>4. CASE ~(SignatureHolds(h) /\ Live(token[r]))
  <2>1. pc' = [pc EXCEPT ![r] = "refused"] /\ verified' = verified
    BY <1>4 DEF Decode, Goto
  <2>2. pc'[r] = "refused"
    BY <2>1 DEF IInv, TypeOK
  <2>3. TypeOK'
    <3>1. /\ pc' \in [Requests -> Labels]
          /\ \A q \in Requests : pc'[q] = "idle" <=> token'[q] = None
      BY <1>1, <2>1 DEF IInv, TypeOK, Labels
    <3> QED BY <1>1, <2>1, <3>1 DEF IInv, TypeOK, Labels
  <2>4. RequestInPlace(r)' /\ DueInPlace(r)'
    <3>1. RequestInPlace(r)'
      BY <2>2 DEF RequestInPlace
    <3>2. CASE r \notin due
      BY <1>1, <3>1, <3>2 DEF DueInPlace
    <3>3. CASE r \in due
      <4>1. verifier = "jwks" /\ Signed(h) /\ h.alg = "ES256"
        BY <3>3 DEF IInv, DueInPlace
      <4>2. SignatureHolds(h)
        BY <4>1 DEF SignatureHolds, JwksAlgs
      <4>3. ~Live(token[r])
        BY <1>4, <4>2
      <4> QED BY <1>1, <2>2, <3>1, <4>3 DEF IInv, DueInPlace, Kid, Signed, Live
    <3> QED BY <3>2, <3>3
  <2>5. ASSUME NEW q \in Requests, q # r PROVE RequestInPlace(q)' /\ DueInPlace(q)'
    BY <1>1, <2>1, <2>5, OtherRequest DEF IInv, TypeOK
  <2>6. Quiet' /\ CachesKnown' /\ VerifiedRemembered'
    BY <1>1, <2>1 DEF IInv, Quiet, CachesKnown, VerifiedRemembered
  <2> QED BY <2>3, <2>4, <2>5, <2>6 DEF IInv
<1> QED BY <1>3, <1>4

LEMMA LeaveInv ==
  ASSUME IInv, NEW r \in Requests, Leave(r)
  PROVE  IInv'
<1>1. /\ up /\ pc' = [pc EXCEPT ![r] = "idle"] /\ token' = [token EXCEPT ![r] = None]
      /\ due' = due \ {r}
      /\ UNCHANGED <<now, verifier, published, retired, up, keyCache, setCache, fetched, known,
                     verified>>
  BY DEF Leave, Goto, provider, caches
<1>2. TypeOK'
  <2>1. /\ pc' \in [Requests -> Labels] /\ token' \in [Requests -> Tokens \cup {None}]
        /\ \A q \in Requests : pc'[q] = "idle" <=> token'[q] = None
    BY <1>1 DEF IInv, TypeOK, Labels
  <2> QED BY <1>1, <2>1 DEF IInv, TypeOK, Labels
<1>3. RequestInPlace(r)' /\ DueInPlace(r)'
  <2>1. pc'[r] = "idle"
    BY <1>1 DEF IInv, TypeOK
  <2> QED BY <1>1, <2>1 DEF RequestInPlace, DueInPlace
<1>4. ASSUME NEW q \in Requests, q # r PROVE RequestInPlace(q)' /\ DueInPlace(q)'
  BY <1>1, <1>4, OtherRequest DEF IInv, TypeOK
<1>5. Quiet' /\ CachesKnown' /\ VerifiedRemembered'
  BY <1>1 DEF IInv, Quiet, CachesKnown, VerifiedRemembered
<1> QED BY <1>2, <1>3, <1>4, <1>5 DEF IInv

-----------------------------------------------------------------------------
LEMMA StepInv == IInv /\ [Next]_vars => IInv'
<1> SUFFICES ASSUME IInv, [Next]_vars PROVE IInv'
  OBVIOUS
<1>1. CASE Tick \/ Boot \/ Die
  BY <1>1, TickInv, BootInv, DieInv
<1>2. ASSUME NEW k \in Kids, Publish(k) \/ Retire(k) PROVE IInv'
  BY <1>2, PublishInv, RetireInv
<1>3. ASSUME NEW r \in Requests, Serve(r) PROVE IInv'
  BY <1>3, PresentInv, LookupInv, FetchInv, ArriveInv, FetchFailsInv, DecodeInv, LeaveInv DEF Serve
<1>4. CASE UNCHANGED vars
  BY <1>4 DEF vars, provider, caches, locals, ghosts, IInv, TypeOK, Quiet, CachesKnown,
     RequestInPlace, DueInPlace, VerifiedRemembered, Kid, Signed, Live
<1> QED BY <1>1, <1>2, <1>3, <1>4 DEF Next

\* Only a lookup leads to a fetch, and only for a kid that is not remembered.
LEMMA FetchesAreNeeded ==
  ASSUME IInv, [Next]_vars, NEW r \in Requests, pc'[r] = "fetch", pc[r] # "fetch"
  PROVE  Kid(r) \notin verified
<1>1. ~UNCHANGED vars
  BY DEF vars, locals
<1>2. ~(Tick \/ Boot \/ Die) /\ \A k \in Kids : ~Publish(k) /\ ~Retire(k)
  BY DEF Tick, Boot, Die, Publish, Retire, locals
<1>3. PICK q \in Requests : Serve(q)
  BY <1>1, <1>2 DEF Next
<1>4. pc \in [Requests -> Labels]
  BY DEF IInv, TypeOK, Labels
<1>5. ASSUME NEW label, Goto(q, label) PROVE q = r /\ label = "fetch"
  BY <1>4, <1>5 DEF Goto
<1>6. ~(Fetch(q) \/ Arrive(q) \/ FetchFails(q) \/ Decode(q) \/ Leave(q))
  BY <1>5 DEF Fetch, Arrive, FetchFails, Decode, Leave
<1>7. ASSUME NEW t \in Tokens PROVE ~Present(q, t)
  <2> SUFFICES ASSUME Present(q, t) PROVE FALSE
    OBVIOUS
  <2> DEFINE label == CASE verifier = "secret" -> "decode"
                        [] verifier = "jwks" -> "lookup"
                        [] OTHER -> "refused"
  <2>1. Goto(q, label)
    BY DEF Present
  <2>2. label # "fetch"
    OBVIOUS
  <2> QED BY <1>5, <2>1, <2>2
<1>8. Lookup(q)
  BY <1>3, <1>6, <1>7 DEF Serve
<1>9. q = r
  BY <1>5, <1>8 DEF Lookup
<1>10. Kid(r) \notin keyCache
  BY <1>5, <1>8, <1>9 DEF Lookup
<1> QED BY <1>10 DEF IInv, VerifiedRemembered

-----------------------------------------------------------------------------
(* Theorems.                                                               *)

\* The strengthening is an invariant of every behaviour.
THEOREM Invariance == Spec => []IInv
<1>1. IInv /\ [Next]_vars => IInv'
  BY StepInv
<1> QED BY InitInv, <1>1, PTL DEF Spec

\* Every variable keeps its range; in particular a slot has a token exactly while it
\* serves a request.
THEOREM TypeCorrect == Spec => []TypeOK
<1>1. IInv => TypeOK
  BY DEF IInv
<1> QED BY Invariance, <1>1, PTL

\* verify_user_jwt lets nobody in but the bearer of a token that the secret, or a key
\* published since the start of the process, has signed.
THEOREM OnlyKnownKeysOpen == Spec => []AcceptedIsSignedByKnownKey
<1>1. IInv => AcceptedIsSignedByKnownKey
  BY DEF IInv, RequestInPlace, AcceptedIsSignedByKnownKey
<1> QED BY Invariance, <1>1, PTL

\* The valid token of a published key is not refused unless a fetch for it fails or it
\* dies on the way.
THEOREM RotationRefusesNobody == Spec => []FreshTokenAccepted
<1>1. IInv => FreshTokenAccepted
  BY DEF IInv, TypeOK, DueInPlace, FreshTokenAccepted
<1> QED BY Invariance, <1>1, PTL

\* get_signing_key asks the provider for no kid that a token was verified with since the
\* start.
THEOREM VerifiedKeysStayLocal == Spec => KnownKeyNeedsNoNetwork
<1>1. IInv /\ [Next]_vars =>
        [\A r \in Requests : pc'[r] = "fetch" /\ pc[r] # "fetch" => Kid(r) \notin verified]_vars
  BY FetchesAreNeeded
<1> QED BY Invariance, <1>1, PTL DEF Spec, KnownKeyNeedsNoNetwork
=============================================================================
