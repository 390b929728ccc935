---------------------------- MODULE SignedUrlProofs ----------------------------
(***************************************************************************)
(* Theorems about SignedUrl, for any grain of the clock, any lives of URLs *)
(* and any number of them.                                                 *)
(***************************************************************************)
EXTENDS SignedUrl, TLAPS

-----------------------------------------------------------------------------
(* Whole seconds.                                                          *)

\* int() rounds down by less than a second.
LEMMA SecondsRoundDown ==
  ASSUME NEW t \in Nat
  PROVE  /\ Seconds(t) \in Nat
         /\ Seconds(t) * Ticks <= t
         /\ t < Seconds(t) * Ticks + Ticks
BY ClockAssumption DEF Seconds

\* Multiplication by the number of ticks keeps the order.
LEMMA TicksMonotone ==
  ASSUME NEW m \in Nat, NEW n \in Nat, m <= n
  PROVE  m * Ticks <= n * Ticks
<1>1. PICK d \in Nat : n = m + d
  <2>1. n - m \in Nat /\ n = m + (n - m)
    OBVIOUS
  <2> QED BY <2>1
<1>2. n * Ticks = m * Ticks + d * Ticks
  BY <1>1, ClockAssumption
<1>3. d * Ticks \in Nat /\ m * Ticks \in Nat
  BY ClockAssumption
<1> QED BY <1>2, <1>3

-----------------------------------------------------------------------------
(* The inductive invariant.                                                *)

\* A draft or a URL carries a signature of its own key and expiry, and its expiry is
\* its life counted from the whole second of its minting.
Honest(u) ==
  /\ u.sig = Sign(u.key, u.exp)
  /\ u.exp = Seconds(u.minted) + u.ttl
  /\ u.minted <= now

\* What is announced is not before what was signed.
Announced(u) == u.exp * Ticks <= u.expiresAt

\* A reply is the one of this instant, to somebody who had the signature.
ReplyInPlace ==
  reply # None =>
    /\ reply.status = IF reply.key \in AtKeys THEN 400
                      ELSE Verify(reply.key, reply.exp, reply.sig)
    /\ reply.sig \in {u.sig : u \in urls} \cup {Garbled, NonAscii}

IInv ==
  /\ TypeOK
  /\ minting # None => Honest(minting)
  /\ \A u \in urls : Honest(u) /\ Announced(u)
  /\ ReplyInPlace

LEMMA InitInv == Init => IInv
BY ClockAssumption DEF Init, IInv, TypeOK, ReplyInPlace

LEMMA TickInv ==
  ASSUME IInv, Tick
  PROVE  IInv'
<1>1. now \in Nat /\ now' = now + 1 /\ now' \in 0..Horizon
  BY ClockAssumption DEF IInv, TypeOK, Tick
<1>2. ASSUME NEW u, u.minted \in Nat, Honest(u) PROVE Honest(u)'
  BY <1>1, <1>2 DEF Honest
<1>3. minting # None => minting.minted \in Nat
  BY ClockAssumption DEF IInv, TypeOK, Drafts
<1>4. \A u \in urls : u.minted \in Nat
  BY ClockAssumption DEF IInv, TypeOK, Urls
<1>5. minting' # None => Honest(minting)'
  BY <1>2, <1>3 DEF IInv, Tick, Honest
<1>6. \A u \in urls' : Honest(u)' /\ Announced(u)'
  BY <1>2, <1>4 DEF IInv, Tick, Announced
<1> QED BY <1>1, <1>5, <1>6 DEF IInv, TypeOK, ReplyInPlace, Tick

LEMMA PresignInv ==
  ASSUME IInv, NEW key \in Keys, NEW ttl \in 0..(MaxTtl + 1), Presign(key, ttl)
  PROVE  IInv'
<1> DEFINE exp == Seconds(now) + ttl
           draft == [key |-> key, exp |-> exp, sig |-> Sign(key, exp), ttl |-> ttl,
                     minted |-> now]
<1>1. now \in 0..Horizon /\ now \in Nat /\ Horizon \in Nat /\ MaxTtl \in Nat
  BY ClockAssumption DEF IInv, TypeOK
<1>2. ttl \in 1..MaxTtl
  BY <1>1 DEF Presign, InRange
<1>3. Seconds(now) <= Seconds(Horizon) /\ Seconds(now) \in Nat /\ Seconds(Horizon) \in Nat
  <2>1. /\ Seconds(now) \in Nat /\ Seconds(now) * Ticks <= now
        /\ Seconds(Horizon) \in Nat /\ Horizon < Seconds(Horizon) * Ticks + Ticks
    BY <1>1, SecondsRoundDown
  <2>2. CASE Seconds(Horizon) + 1 <= Seconds(now)
    <3>1. (Seconds(Horizon) + 1) * Ticks <= Seconds(now) * Ticks
      BY <2>1, <2>2, TicksMonotone
    <3>2. (Seconds(Horizon) + 1) * Ticks = Seconds(Horizon) * Ticks + Ticks
      BY <2>1, ClockAssumption
    <3>3. Seconds(now) * Ticks \in Nat /\ Seconds(Horizon) * Ticks + Ticks \in Nat
      BY <2>1, ClockAssumption
    <3> QED BY <1>1, <2>1, <3>1, <3>2, <3>3
  <2> QED BY <2>1, <2>2
<1>4. exp \in Expiries
  BY <1>1, <1>2, <1>3 DEF Expiries
<1>5. Sign(key, exp) \in Signed
  BY <1>4 DEF Sign, Message, Signed
<1>6. draft \in Drafts
  BY <1>1, <1>2, <1>4, <1>5 DEF Drafts
<1>7. minting' = draft /\ reply' = None /\ UNCHANGED <<now, urls>>
  BY DEF Presign
<1>8. Honest(draft)
  BY <1>1 DEF Honest
<1> HIDE DEF draft
<1>9. Honest(minting)'
  BY <1>7, <1>8 DEF Honest
<1>10. \A u \in urls' : Honest(u)' /\ Announced(u)'
  BY <1>7 DEF IInv, Honest, Announced
<1> QED BY <1>6, <1>7, <1>9, <1>10 DEF IInv, TypeOK, ReplyInPlace

LEMMA AnnounceInv ==
  ASSUME IInv, Announce
  PROVE  IInv'
<1> DEFINE url == [key |-> minting.key, exp |-> minting.exp, sig |-> minting.sig,
                   ttl |-> minting.ttl, minted |-> minting.minted,
                   expiresAt |-> ExpiresAt(minting.ttl)]
<1>1. minting \in Drafts /\ Honest(minting) /\ now \in 0..Horizon
  BY DEF IInv, TypeOK, Announce
<1>2. /\ minting.ttl \in 1..MaxTtl /\ minting.minted \in 0..Horizon
      /\ minting.exp \in Expiries /\ minting.key \in Keys /\ minting.sig \in Signed
  BY <1>1 DEF Drafts
<1>3. Horizon \in Nat /\ MaxTtl \in Nat /\ Ticks \in Nat
  BY ClockAssumption
<1>4. minting.ttl \in Nat /\ minting.ttl <= MaxTtl /\ minting.minted \in Nat /\ now \in Nat
  BY <1>1, <1>2, <1>3
<1>5. minting.ttl * Ticks \in Nat /\ MaxTtl * Ticks \in Nat
  BY <1>3, <1>4
<1>6. minting.ttl * Ticks <= MaxTtl * Ticks
  BY <1>3, <1>4, TicksMonotone
<1>7. ExpiresAt(minting.ttl) \in 0..(Horizon + MaxTtl * Ticks)
  BY <1>1, <1>3, <1>5, <1>6 DEF ExpiresAt
<1>8. url \in Urls
  BY <1>2, <1>7 DEF Urls
<1>9. Seconds(minting.minted) \in Nat /\ Seconds(minting.minted) * Ticks <= minting.minted
  BY <1>4, SecondsRoundDown
<1>10. minting.exp * Ticks = Seconds(minting.minted) * Ticks + minting.ttl * Ticks
  BY <1>1, <1>3, <1>4, <1>9 DEF Honest
<1>11. Seconds(minting.minted) * Ticks \in Nat /\ minting.minted <= now
  BY <1>1, <1>3, <1>9 DEF Honest
<1>12. minting.exp * Ticks <= now + minting.ttl * Ticks
  BY <1>4, <1>5, <1>9, <1>10, <1>11
<1>13. Honest(url) /\ Announced(url)
  BY <1>1, <1>12 DEF Honest, Announced, ExpiresAt
<1>14. urls' = urls \cup {url} /\ minting' = None /\ reply' = None /\ now' = now
  BY DEF Announce
<1> HIDE DEF url
<1>15. \A u \in urls' : Honest(u)' /\ Announced(u)'
  BY <1>13, <1>14 DEF IInv, Honest, Announced
<1> QED BY <1>8, <1>14, <1>15 DEF IInv, TypeOK, ReplyInPlace

LEMMA SignedGetInv ==
  ASSUME IInv, NEW key \in Keys, NEW exp \in Expiries,
         NEW sig \in {u.sig : u \in urls} \cup {Garbled, NonAscii}, SignedGet(key, exp, sig)
  PROVE  IInv'
<1>1. sig \in Signed \cup {Garbled, NonAscii}
  BY DEF IInv, TypeOK, Urls
<1>2. Verify(key, exp, sig) \in {200, 403, 500}
  BY DEF Verify
<1>3. reply' \in Replies
  BY <1>1, <1>2 DEF SignedGet, Replies
<1>4. ReplyInPlace'
  BY DEF SignedGet, ReplyInPlace, Verify, Expired
<1>5. \A u \in urls' : Honest(u)' /\ Announced(u)'
  BY DEF IInv, SignedGet, Honest, Announced
<1>6. minting' # None => Honest(minting)'
  BY DEF IInv, SignedGet, Honest
<1> QED BY <1>3, <1>4, <1>5, <1>6 DEF IInv, TypeOK, SignedGet

LEMMA StepInv == IInv /\ [Next]_vars => IInv'
<1>1. ASSUME IInv, UNCHANGED vars PROVE IInv'
  BY <1>1 DEF vars, IInv, TypeOK, ReplyInPlace, Honest, Announced, Verify, Expired
<1> QED BY <1>1, TickInv, PresignInv, AnnounceInv, SignedGetInv DEF Next

\* The invariant from which the theorems below follow.
THEOREM Invariance == Spec => []IInv
BY InitInv, StepInv, PTL DEF Spec

-----------------------------------------------------------------------------
(* What readers and services may rely on.                                  *)

\* The state is well typed; no life exceeds the bound of SignRequest.
THEOREM TypeCorrect == Spec => []TypeOK
<1>1. IInv => TypeOK
  BY DEF IInv
<1> QED BY <1>1, Invariance, PTL

\* A granted reply: not expired, and its signature one that was handed out.
LEMMA GrantedFacts ==
  ASSUME IInv, reply # None, reply.status = 200
  PROVE  /\ reply.sig = Sign(reply.key, reply.exp)
         /\ ~Expired(reply.exp)
         /\ \E u \in urls : u.sig = reply.sig
<1>1. reply.key \in Keys /\ reply.exp \in Expiries
  BY DEF IInv, TypeOK, Replies
<1>2. ~Expired(reply.exp) /\ reply.sig = Sign(reply.key, reply.exp)
  BY DEF IInv, ReplyInPlace, Verify
<1>3. reply.sig \notin {Garbled, NonAscii}
  BY <1>1, <1>2, SignaturesAssumption
<1> QED BY <1>2, <1>3 DEF IInv, ReplyInPlace

\* Whatever signatures, keys and expiries a reader recombines, a read is granted for
\* what a service has minted and for nothing else.
THEOREM OnlyMintedIsGranted == Spec => []GrantedOnlyAsMinted
<1>1. IInv => GrantedOnlyAsMinted
  <2> SUFFICES ASSUME IInv, reply # None, reply.status = 200
               PROVE  \E u \in urls : Redeems(u)
    BY DEF GrantedOnlyAsMinted
  <2>1. PICK u \in urls : u.sig = reply.sig
    BY GrantedFacts
  <2>2. Sign(u.key, u.exp) = Sign(reply.key, reply.exp)
    BY <2>1, GrantedFacts DEF IInv, Honest
  <2>3. u.key = reply.key /\ u.exp = reply.exp
    BY <2>2 DEF Sign, Message
  <2> QED BY <2>1, <2>3 DEF Redeems
<1> QED BY <1>1, Invariance, PTL

\* No read is granted at or after the announced expiry, for any grain of the clock and
\* any delay between its two readings.
THEOREM NoReadAfterExpiry == Spec => []DeadWhenAnnounced
<1>1. IInv => DeadWhenAnnounced
  <2> SUFFICES ASSUME IInv, reply # None, reply.status = 200, NEW u \in urls, Redeems(u)
               PROVE  now < u.expiresAt
    BY DEF DeadWhenAnnounced
  <2>1. now \in Nat /\ Ticks \in Nat /\ u.exp \in Expiries /\ u.expiresAt \in Nat
    BY ClockAssumption DEF IInv, TypeOK, Urls
  <2>2. Seconds(Horizon) \in Nat /\ Seconds(now) \in Nat /\ now < Seconds(now) * Ticks + Ticks
    BY <2>1, ClockAssumption, SecondsRoundDown
  <2>3. u.exp \in Nat
    BY <2>1, <2>2, ClockAssumption DEF Expiries
  <2>4. Seconds(now) + 1 <= u.exp
    BY <2>2, <2>3, GrantedFacts DEF Expired, Redeems
  <2>5. (Seconds(now) + 1) * Ticks <= u.exp * Ticks
    BY <2>2, <2>3, <2>4, TicksMonotone
  <2>6. (Seconds(now) + 1) * Ticks = Seconds(now) * Ticks + Ticks
    BY <2>1, <2>2
  <2>7. Seconds(now) * Ticks + Ticks \in Nat /\ u.exp * Ticks \in Nat
    BY <2>1, <2>2, <2>3
  <2>8. u.exp * Ticks <= u.expiresAt
    BY DEF IInv, Announced
  <2> QED BY <2>1, <2>2, <2>5, <2>6, <2>7, <2>8
<1> QED BY <1>1, Invariance, PTL

\* A minted URL opens for at least its life less one second.
THEOREM RoundingIsBounded == Spec => []LosesLessThanASecond
<1>1. IInv => LosesLessThanASecond
  <2> SUFFICES ASSUME IInv, reply # None, reply.key \notin AtKeys, NEW u \in urls, Redeems(u),
                      now <= u.minted + (u.ttl - 1) * Ticks
               PROVE  reply.status = 200
    BY DEF LosesLessThanASecond
  <2>1. /\ now \in Nat /\ Ticks \in Nat \ {0} /\ u.minted \in Nat /\ u.ttl \in Nat \ {0}
        /\ u.key \in Keys /\ u.exp \in Expiries
    BY ClockAssumption DEF IInv, TypeOK, Urls
  <2>2. reply.sig = Sign(reply.key, reply.exp) /\ reply.sig # NonAscii
    BY <2>1, SignaturesAssumption DEF IInv, Honest, Redeems
  <2>3. /\ Seconds(now) \in Nat /\ Seconds(now) * Ticks <= now
        /\ Seconds(u.minted) \in Nat /\ u.minted < Seconds(u.minted) * Ticks + Ticks
    BY <2>1, SecondsRoundDown
  <2>4. CASE u.exp <= Seconds(now)
    <3> DEFINE m == Seconds(u.minted)
    <3>1. m + u.ttl <= Seconds(now)
      BY <2>4 DEF IInv, Honest
    <3>2. (m + u.ttl) * Ticks <= Seconds(now) * Ticks
      BY <2>1, <2>3, <3>1, TicksMonotone
    <3>3. (m + u.ttl) * Ticks = m * Ticks + Ticks + (u.ttl - 1) * Ticks
      BY <2>1, <2>3
    <3>4. m * Ticks \in Nat /\ (u.ttl - 1) * Ticks \in Nat /\ Seconds(now) * Ticks \in Nat
      <4>1. u.ttl - 1 \in Nat
        BY <2>1
      <4> QED BY <2>1, <2>3, <4>1
    <3> QED BY <2>1, <2>3, <3>2, <3>3, <3>4
  <2>5. CASE ~Expired(u.exp)
    BY <2>2, <2>5 DEF IInv, ReplyInPlace, Verify, Redeems
  <2> QED BY <2>4, <2>5 DEF Expired
<1> QED BY <1>1, Invariance, PTL
=============================================================================
