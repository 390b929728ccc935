------------------------------ MODULE UserAuth ------------------------------
(***************************************************************************)
(* Verification of user tokens (src/auth/user_jwt.py) against the keys of  *)
(* the identity provider (src/auth/jwks_cache.py), which rotates them and  *)
(* may be out of reach.  The key client is PyJWT's PyJWKClient, modelled   *)
(* from its use: verified keys are remembered by kid for the life of the   *)
(* process, the last JWK set for a while, and an unknown kid fetches the   *)
(* set again.  A lookup runs in a thread, so lookups overlap.              *)
(***************************************************************************)
EXTENDS Naturals

CONSTANTS
  Requests,      \* slots for requests with a bearer token
  Kids,          \* signing keys the provider makes in the course of time
  Verifiers,     \* configurations: "secret", "jwks" and "none"
  Leeway,        \* _LEEWAY_SEC, in ticks
  Lifespan,      \* how long the key client trusts a JWK set, in ticks
  Horizon,       \* bound on the clock
  None

ASSUME VerifiersAssumption == Verifiers \subseteq {"secret", "jwks", "none"}
ASSUME TimesAssumption == Leeway \in Nat /\ Lifespan \in Nat /\ Horizon \in Nat
ASSUME NoneAssumption == None \notin Kids \cup {"secret", "nobody"}
ASSUME KidsAssumption == {"secret", "nobody"} \cap Kids = {}

VARIABLES
  now,
  verifier,      \* what the settings configure
  published,     \* keys in the provider's JWK set
  retired,       \* keys that were, and no longer are
  up,            \* it serves requests
  keyCache,      \* kids get_signing_key has found: lru_cache, without expiry
  setCache,      \* the last JWK set and when it came, or None
  pc, token, fetched,   \* of each request: its place, its token, the set it fetched
  known,         \* keys published at some time since the start
  due,           \* requests that have a right to be let in
  verified       \* kids of tokens let in since the start

provider == <<published, retired>>
caches == <<keyCache, setCache>>
locals == <<pc, token, fetched>>
ghosts == <<known, due, verified>>
vars == <<now, verifier, provider, up, caches, locals, ghosts>>

\* Who signed a token is not what its header says: one that names a key is signed by
\* that key or by nobody who matters.  Tokens of the secret (mint_dev_user_token.py)
\* name no key.
Headers ==
  [alg: {"ES256", "HS256"}, signer: {"nobody"}, kid: Kids \cup {None}]
  \cup {[alg |-> "ES256", signer |-> k, kid |-> k] : k \in Kids}
  \cup {[alg |-> "HS256", signer |-> "secret", kid |-> None]}

\* exp: when it expires, or None if a claim is missing or wrong: exp, aud or sub.
Tokens == [header: Headers, exp: 1..Horizon \cup {None}]

ASSUME TokensAssumption == None \notin Tokens

JwkSets == [keys: SUBSET Kids, at: Nat]

-----------------------------------------------------------------------------
Init ==
  /\ now = 0
  /\ verifier \in Verifiers
  /\ published \in SUBSET Kids \ {{}}
  /\ retired = {}
  /\ up = FALSE
  /\ keyCache = {}
  /\ setCache = None
  /\ pc = [r \in Requests |-> "idle"]
  /\ token = [r \in Requests |-> None]
  /\ fetched = [r \in Requests |-> {}]
  /\ known = {}
  /\ due = {}
  /\ verified = {}

Tick ==
  /\ now < Horizon
  /\ now' = now + 1
  /\ UNCHANGED <<verifier, provider, up, caches, locals, ghosts>>

-----------------------------------------------------------------------------
(* The identity provider.                                                  *)

\* A key is never published again.
Publish(k) ==
  /\ k \notin published \cup retired
  /\ published' = published \cup {k}
  /\ known' = known \cup {k}
  /\ UNCHANGED <<now, verifier, retired, up, caches, locals, due, verified>>

\* The provider is never without a key.
Retire(k) ==
  /\ k \in published
  /\ published # {k}
  /\ published' = published \ {k}
  /\ retired' = retired \cup {k}
  /\ due' = {r \in due : token[r].header.kid # k}
  /\ UNCHANGED <<now, verifier, up, caches, locals, known, verified>>

-----------------------------------------------------------------------------
(* The process.                                                            *)

\* lifespan: best-effort prewarm, only when tokens are verified by the provider's
\* keys.  The service starts although the fetch fails.
Boot ==
  /\ ~up
  /\ up' = TRUE
  /\ \/ verifier = "jwks" /\ setCache' = [keys |-> published, at |-> now]
     \/ UNCHANGED setCache
  /\ known' = published
  /\ UNCHANGED <<now, verifier, provider, keyCache, locals, due, verified>>

\* The end of the process, by a deployment or otherwise: the client is a global of
\* the module, and nothing of it is kept.
Die ==
  /\ up
  /\ up' = FALSE
  /\ pc' = [r \in Requests |-> "idle"]
  /\ token' = [r \in Requests |-> None]
  /\ fetched' = [r \in Requests |-> {}]
  /\ keyCache' = {}
  /\ setCache' = None
  /\ due' = {}
  /\ verified' = {}
  /\ UNCHANGED <<now, verifier, provider, known>>

-----------------------------------------------------------------------------
(* A request.                                                              *)

At(r, label) == up /\ pc[r] = label
Goto(r, label) == pc' = [pc EXCEPT ![r] = label]
Kid(r) == token[r].header.kid

Signed(h) == h.signer = h.kid

Live(t) == t.exp # None /\ now < t.exp + Leeway

\* Anybody may send anything, but nobody signs with a key that does not exist yet.
Present(r, t) ==
  /\ At(r, "idle")
  /\ t.header.signer \in {"secret", "nobody"} \cup published \cup retired
  /\ token' = [token EXCEPT ![r] = t]
  /\ Goto(r, CASE verifier = "secret" -> "decode"
               [] verifier = "jwks" -> "lookup"
               [] OTHER -> "refused")
  /\ due' = IF verifier = "jwks" /\ Signed(t.header) /\ t.header.kid \in published
            THEN due \cup {r} ELSE due
  /\ UNCHANGED <<now, verifier, provider, up, caches, fetched, known, verified>>

\* The set that need not be fetched again, if there is one.
Trusted == IF setCache = None \/ now > setCache.at + Lifespan THEN {} ELSE setCache.keys

\* Mutant of Lookup: keys are not remembered by kid.
LookupForgetful(r) ==
  /\ At(r, "lookup")
  /\ IF Kid(r) \in Trusted
     THEN keyCache' = keyCache \cup {Kid(r)} /\ Goto(r, "decode")
     ELSE Goto(r, "fetch") /\ UNCHANGED keyCache
  /\ UNCHANGED <<now, verifier, provider, up, setCache, token, fetched, ghosts>>

\* Mutant of Lookup: a set that is trusted is believed to be complete.
LookupTrusting(r) ==
  /\ At(r, "lookup")
  /\ CASE Kid(r) \in keyCache \cup Trusted ->
            keyCache' = keyCache \cup {Kid(r)} /\ Goto(r, "decode")
       [] Trusted # {} /\ Kid(r) \notin keyCache \cup Trusted ->
            Goto(r, "refused") /\ UNCHANGED keyCache
       [] OTHER -> Goto(r, "fetch") /\ UNCHANGED keyCache
  /\ UNCHANGED <<now, verifier, provider, up, setCache, token, fetched, ghosts>>

\* get_signing_key: by kid, else in the set, else the set is fetched.
Lookup(r) ==
  /\ At(r, "lookup")
  /\ IF Kid(r) \in keyCache \cup Trusted
     THEN keyCache' = keyCache \cup {Kid(r)} /\ Goto(r, "decode")
     ELSE Goto(r, "fetch") /\ UNCHANGED keyCache
  /\ UNCHANGED <<now, verifier, provider, up, setCache, token, fetched, ghosts>>

\* The provider answers with the set it has at this moment.  Of a set that has expired
\* and lacks the kid the client makes two fetches, of which this is the last.
Fetch(r) ==
  /\ At(r, "fetch")
  /\ fetched' = [fetched EXCEPT ![r] = published]
  /\ Goto(r, "arrive")
  /\ UNCHANGED <<now, verifier, provider, up, caches, token, ghosts>>

\* The set arrives, after others perhaps, and replaces the one that is there.
Arrive(r) ==
  /\ At(r, "arrive")
  /\ setCache' = [keys |-> fetched[r], at |-> now]
  /\ fetched' = [fetched EXCEPT ![r] = {}]
  /\ IF Kid(r) \in fetched[r]
     THEN keyCache' = keyCache \cup {Kid(r)} /\ Goto(r, "decode")
     ELSE Goto(r, "refused") /\ UNCHANGED keyCache
  /\ UNCHANGED <<now, verifier, provider, up, token, ghosts>>

\* The provider is out of reach; the set is forgotten, the error becomes a 401.
FetchFails(r) ==
  /\ pc[r] \in {"fetch", "arrive"} /\ up
  /\ setCache' = None
  /\ fetched' = [fetched EXCEPT ![r] = {}]
  /\ Goto(r, "refused")
  /\ due' = due \ {r}
  /\ UNCHANGED <<now, verifier, provider, up, keyCache, token, known, verified>>

\* Mutant of JwksAlgs: the algorithm is taken from the token.
JwksAlgsAny == {"ES256", "HS256"}

\* _JWKS_ALGS is pinned (RS256 is like ES256).
JwksAlgs == {"ES256"}

\* Whether the signature holds.  A public key is no secret: taken for one, anybody
\* could have signed with it.
SignatureHolds(h) ==
  IF verifier = "secret" THEN h.signer = "secret"
  ELSE h.alg \in JwksAlgs /\ (h.alg = "ES256" => Signed(h))

Decode(r) ==
  /\ At(r, "decode")
  /\ IF SignatureHolds(token[r].header) /\ Live(token[r])
     THEN Goto(r, "accepted") /\ verified' = verified \cup ({Kid(r)} \ {None})
     ELSE Goto(r, "refused") /\ UNCHANGED verified
  /\ UNCHANGED <<now, verifier, provider, up, caches, token, fetched, known, due>>

\* Mutant of Leave: the slot keeps the token.
LeaveKeepingToken(r) ==
  /\ up
  /\ pc[r] \in {"accepted", "refused"}
  /\ Goto(r, "idle")
  /\ due' = due \ {r}
  /\ UNCHANGED <<now, verifier, provider, up, caches, token, fetched, known, verified>>

\* The handler goes on with the principal, or 401 is answered.
Leave(r) ==
  /\ up
  /\ pc[r] \in {"accepted", "refused"}
  /\ Goto(r, "idle")
  /\ token' = [token EXCEPT ![r] = None]
  /\ due' = due \ {r}
  /\ UNCHANGED <<now, verifier, provider, up, caches, fetched, known, verified>>

Serve(r) ==
  \/ \E t \in Tokens : Present(r, t)
  \/ Lookup(r) \/ Fetch(r) \/ Arrive(r) \/ FetchFails(r)
  \/ Decode(r) \/ Leave(r)

Next ==
  \/ Tick
  \/ \E k \in Kids : Publish(k) \/ Retire(k)
  \/ Boot \/ Die
  \/ \E r \in Requests : Serve(r)

Spec == Init /\ [][Next]_vars

-----------------------------------------------------------------------------
(* Properties.                                                             *)

TypeOK ==
  /\ now \in 0..Horizon
  /\ verifier \in Verifiers
  /\ published \subseteq Kids
  /\ retired \subseteq Kids \ published
  /\ up \in BOOLEAN
  /\ keyCache \subseteq Kids
  /\ setCache \in JwkSets \cup {None}
  /\ pc \in [Requests ->
       {"idle", "lookup", "fetch", "arrive", "decode", "accepted", "refused"}]
  /\ token \in [Requests -> Tokens \cup {None}]
  /\ \A r \in Requests : pc[r] = "idle" <=> token[r] = None
  /\ fetched \in [Requests -> SUBSET Kids]
  /\ known \subseteq Kids
  /\ due \subseteq Requests
  /\ verified \subseteq Kids

\* Nobody gets in but the bearer of a token signed by a key that the provider has
\* published at some time since this process started; in particular a restart ends
\* the trust in retired keys.  With a secret, the secret has signed; with neither,
\* nobody gets in.
AcceptedIsSignedByKnownKey ==
  \A r \in Requests : pc[r] = "accepted" =>
    \/ verifier = "jwks" /\ token[r].header.signer \in known
    \/ verifier = "secret" /\ token[r].header.signer = "secret"

\* Rotation turns nobody away: a valid token of a key that is published is let in, as
\* long as the provider answers the fetches made for it, whatever sets other requests
\* have fetched before, and in whichever order these arrived.
FreshTokenAccepted ==
  \A r \in due : pc[r] = "refused" => ~Live(token[r])

\* A kid that has been verified since the start costs no network call any more, however
\* old the JWK set is: users of that key get in while the provider is down.
KnownKeyNeedsNoNetwork ==
  [][\A r \in Requests : pc'[r] = "fetch" /\ pc[r] # "fetch" => Kid(r) \notin verified]_vars

=============================================================================
