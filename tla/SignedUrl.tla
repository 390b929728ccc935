------------------------------ MODULE SignedUrl ------------------------------
(***************************************************************************)
(* Signed reads of private objects: POST /api/storage/sign mints a URL     *)
(* (create_signed_url.py, presign_get), GET /files-signed verifies it      *)
(* (signed_get.py, signing.py).  The clock runs in ticks, several to a     *)
(* second: the URL carries whole seconds, the announced expiry does not.   *)
(* HMAC-SHA256 is taken to be injective and unforgeable: a signature is    *)
(* the secret and the message it was made from.                            *)
(***************************************************************************)
EXTENDS Naturals, FiniteSets

CONSTANTS
  Keys,          \* "bucket/key" names that the grammar accepts from a service
  AtKeys,        \* those among them with "@" in a segment
  Ticks,         \* ticks of the clock in a second
  MaxTtl,        \* bound of expires_in (86400), in seconds
  Horizon,       \* bound on the clock, in ticks
  MaxUrls,       \* bound on the number of URLs minted
  Garbled,       \* a signature that no secret produces, in ASCII
  NonAscii,      \* one with other characters
  None           \* no URL, no reply

ASSUME KeysAssumption == AtKeys \subseteq Keys
ASSUME ClockAssumption ==
  /\ Ticks \in Nat \ {0}
  /\ MaxTtl \in Nat /\ Horizon \in Nat /\ MaxUrls \in Nat

VARIABLES
  now,           \* the clock, in ticks
  urls,          \* URLs handed out, with their ttl, announced expiry, instant of minting
  minting,       \* URL whose expires_at is still to be computed, or None
  reply          \* the read answered at this instant: key, exp, sig, status; or None

vars == <<now, urls, minting, reply>>

\* int(time.time())
Seconds(t) == t \div Ticks

\* Mutant of Message: the expiry is not signed.
MessageTimeless(key, exp) == <<key>>

\* "{bucket}/{key}:{exp}" names one key and one expiry: a bucket has no "/" and a key
\* no ":".
Message(key, exp) == <<key, exp>>

Sign(key, exp) == [message |-> Message(key, exp)]

Expiries == 0..(Seconds(Horizon) + MaxTtl)

ASSUME SignaturesAssumption ==
  \A key \in Keys, exp \in Expiries : Sign(key, exp) \notin {Garbled, NonAscii}

Init ==
  /\ now = 0
  /\ urls = {}
  /\ minting = None
  /\ reply = None

Tick ==
  /\ now < Horizon
  /\ now' = now + 1
  /\ reply' = None
  /\ UNCHANGED <<urls, minting>>

-----------------------------------------------------------------------------
(* POST /api/storage/sign, with an API key and a key of the grammar.       *)

\* Field(gt=0, le=86400) of SignRequest; other values are answered 400.
InRange(ttl) == ttl > 0 /\ ttl <= MaxTtl

\* presign_get reads the clock in whole seconds ...
Presign(key, ttl) ==
  /\ minting = None
  /\ Cardinality(urls) < MaxUrls
  /\ InRange(ttl)
  /\ LET exp == Seconds(now) + ttl
     IN minting' = [key |-> key, exp |-> exp, sig |-> Sign(key, exp), ttl |-> ttl,
                    minted |-> now]
  /\ reply' = None
  /\ UNCHANGED <<now, urls>>

\* ... and the handler reads it again, exactly, for expires_at.
ExpiresAt(ttl) == now + ttl * Ticks

Announce ==
  /\ minting # None
  /\ urls' = urls \cup {[key |-> minting.key, exp |-> minting.exp, sig |-> minting.sig,
                         ttl |-> minting.ttl, minted |-> minting.minted,
                         expiresAt |-> ExpiresAt(minting.ttl)]}
  /\ minting' = None
  /\ reply' = None
  /\ UNCHANGED now

-----------------------------------------------------------------------------
(* GET /files-signed                                                       *)

\* Mutant of Expired: the last second counts.
ExpiredLate(exp) == exp < Seconds(now)

\* Mutant of Expired: a second of grace too few.
ExpiredEarly(exp) == exp <= Seconds(now) + 1

Expired(exp) == exp <= Seconds(now)

\* signing.verify: compare_digest raises TypeError on a string that is not ASCII.
Verify(key, exp, sig) ==
  IF Expired(exp) THEN 403
  ELSE IF sig = NonAscii THEN 500
  ELSE IF sig = Sign(key, exp) THEN 200
  ELSE 403

\* The grammar is asked without allow_at; 200 hands the file over to nginx.
SignedGet(key, exp, sig) ==
  /\ reply' = [key |-> key, exp |-> exp, sig |-> sig,
               status |-> IF key \in AtKeys THEN 400 ELSE Verify(key, exp, sig)]
  /\ UNCHANGED <<now, urls, minting>>

\* Readers hold the signatures of minted URLs, and may present them with any key and
\* expiry.
Next ==
  \/ Tick
  \/ \E key \in Keys, ttl \in 0..(MaxTtl + 1) : Presign(key, ttl)
  \/ Announce
  \/ \E key \in Keys, exp \in Expiries,
        sig \in {u.sig : u \in urls} \cup {Garbled, NonAscii} : SignedGet(key, exp, sig)

Spec == Init /\ [][Next]_vars

-----------------------------------------------------------------------------
(* Properties.                                                             *)

Signed == [message: Keys \X Expiries]
Drafts == [key: Keys, exp: Expiries, sig: Signed, ttl: 1..MaxTtl, minted: 0..Horizon]
Urls == [key: Keys, exp: Expiries, sig: Signed, ttl: 1..MaxTtl, minted: 0..Horizon,
         expiresAt: 0..(Horizon + MaxTtl * Ticks)]
Replies == [key: Keys, exp: Expiries, sig: Signed \cup {Garbled, NonAscii},
            status: {200, 400, 403, 500}]

TypeOK ==
  /\ now \in 0..Horizon
  /\ urls \subseteq Urls
  /\ minting \in Drafts \cup {None}
  /\ reply \in Replies \cup {None}

\* The reply answers exactly what was handed out as u.
Redeems(u) == reply.key = u.key /\ reply.exp = u.exp /\ reply.sig = u.sig

\* A read is granted only for the key and the expiry of a URL that a service minted,
\* however signatures, keys and expiries of several URLs are recombined.
GrantedOnlyAsMinted ==
  reply # None /\ reply.status = 200 => \E u \in urls : Redeems(u)

\* A URL is dead by the time announced as its expires_at, although that is computed
\* from another reading of the clock and to a finer grain.
DeadWhenAnnounced ==
  reply # None /\ reply.status = 200 =>
    \A u \in urls : Redeems(u) => now < u.expiresAt

\* Rounding to whole seconds costs a URL less than one second of its life.
LosesLessThanASecond ==
  reply # None /\ reply.key \notin AtKeys =>
    \A u \in urls : Redeems(u) /\ now <= u.minted + (u.ttl - 1) * Ticks
      => reply.status = 200

\* A URL that POST /sign minted opens its object until it expires.
MintedUrlOpens ==
  reply # None =>
    \A u \in urls : Redeems(u) /\ now < u.exp * Ticks => reply.status = 200

=============================================================================
