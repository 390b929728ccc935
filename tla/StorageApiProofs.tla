--------------------------- MODULE StorageApiProofs ---------------------------
(***************************************************************************)
(* Theorems about StorageApi: whatever HTTP clients do, the driver behaves *)
(* as LocalFsDriver says, so all that is proved of it holds of the         *)
(* service; the keys kept for services are changed for services only; no   *)
(* byte above a cap is kept; answers tell what was done; and what was      *)
(* acknowledged stays stored.                                              *)
(***************************************************************************)
EXTENDS StorageApi, LocalFsDriverProofs

-----------------------------------------------------------------------------
(* Every step of the service is a step of the driver or leaves it alone.   *)

\* A request that passes the gates asks the driver for one of its operations.
LEMMA AdmitIsStart ==
  ASSUME NEW c \in Calls, NEW r \in HttpRequests, Admit(c, r)
  PROVE  StartCall(c) \/ UNCHANGED vars
<1>1. CASE StartWrite(c, r)
  <2>1. r.key \in Keys
    BY DEF Admit, Refusal, WellFormed, Pass
  <2>2. r.payload \in Payloads /\ (~r.upsert) \in BOOLEAN
    BY <1>1 DEF StartWrite, HttpRequests
  <2> QED BY <1>1, <2>1, <2>2 DEF StartWrite, StartCall
<1>2. CASE StartLookup(c, r) \/ StartRemoval(c, r)
  <2>1. r.key \in Keys
    BY DEF Admit, Refusal, WellFormed, Pass
  <2> QED BY <1>2, <2>1 DEF StartLookup, StartRemoval, StartCall
<1>3. CASE HandOff(c, r)
  BY <1>3 DEF HandOff
<1> QED BY <1>1, <1>2, <1>3 DEF Admit

LEMMA WorkIsCallStep ==
  ASSUME NEW c \in Calls, Work(c) \/ Disconnect(c)
  PROVE  CallStep(c)
BY DEF Work, Disconnect, NextChunk, TooLarge, CallStep, PutStep

LEMMA ApiStepIsDriverStep ==
  ASSUME [ApiNext]_apiVars
  PROVE  [Next]_vars
<1>1. CASE UNCHANGED apiVars
  BY <1>1 DEF apiVars
<1>2. CASE Background
  BY <1>2 DEF Background, Next, Upkeep
<1>3. ASSUME NEW c \in Calls, Serve(c)
      PROVE  StartCall(c) \/ CallStep(c) \/ Return(c) \/ UNCHANGED vars
  BY <1>3, AdmitIsStart, WorkIsCallStep DEF Serve, Refuse, Respond, Close
<1> QED BY <1>1, <1>2, <1>3 DEF ApiNext, Next

\* The service runs the driver exactly as LocalFsDriver specifies it.
THEOREM ApiRunsDriver == ApiSpec => Spec
<1>1. ApiInit => Init
  BY DEF ApiInit
<1> QED BY <1>1, ApiStepIsDriverStep, PTL DEF ApiSpec, Spec

\* Whatever requests come in, a file below the storage root that carries the name of
\* an object is a complete upload under that name.
THEOREM ServedObjectsAreWhole == ApiSpec => []NoPartialObject
BY ApiRunsDriver, ObjectsAreWhole, PTL

\* Requests that do not overlap, whatever they ask for and however their uploads end,
\* leave each object with its own sidecar.
THEOREM ServedSidecarsAreExact ==
  ASSUME SidecarFollows, \A c, d \in Calls : c = d
  PROVE  ApiSpec /\ [](crashes = 0) => []QuiescentSidecarExact
BY ApiRunsDriver, OneCallAtATime, PTL

-----------------------------------------------------------------------------
(* The slot of a driver call and the exchange it serves belong together.   *)

\* A driver call runs only for an exchange without an answer, under the key of its
\* request; it changes objects only for a request to write or delete; and such a
\* request for a key kept for services came with an API key.
ExchangeInPlace(c) ==
  /\ req[c] # None =>
       /\ Running(c)
       /\ req[c].key = http[c].key
       /\ req[c].op \in {"put", "delete"} => http[c].route \in {"PUT", "POST", "DELETE"}
  /\ http[c] # None /\ http[c].code = Pass /\ http[c].route \in {"PUT", "POST", "DELETE"} =>
       (http[c].key \in ServiceOnly \cup AtKeys => http[c].apiKey)

ExchangesInPlace ==
  /\ http \in [Calls -> Exchanges \cup {None}]
  /\ \A c \in Calls : ExchangeInPlace(c)

\* What the gates establish for a request to write or delete.
LEMMA GatesGuard ==
  ASSUME NEW r \in HttpRequests, Refusal(r) = Pass,
         r.route \in {"PUT", "POST", "DELETE"}, r.key \in ServiceOnly \cup AtKeys
  PROVE  r.apiKey
<1>1. Principal(r) # None /\ WellFormed(r)
  BY DEF Refusal, Pass
<1>2. ~(Principal(r) = "user" /\ r.key \in ServiceOnly)
  BY DEF Refusal, PutGate, UploadGate, RemovalGate, Principal, RequireApiKey, Pass
<1>3. Principal(r) \in {"service", "user"}
  BY <1>1 DEF Principal, RequireApiKey, RequireUserJwt, RequireEither
<1>4. Principal(r) = "service"
  BY <1>1, <1>2, <1>3 DEF WellFormed
<1>5. r.apiKey
  BY <1>1, <1>4 DEF Principal, RequireApiKey, RequireUserJwt, RequireEither
<1> QED BY <1>5

LEMMA ExchangesAtFirst == ApiInit => ExchangesInPlace
BY DEF ApiInit, Init, ExchangesInPlace, ExchangeInPlace

\* No step of a driver call changes what is asked.
LEMMA CallKeepsRequest ==
  ASSUME NEW c \in Calls, CallStep(c)
  PROVE  UNCHANGED req
BY DEF CallStep, PutStep, HeadStep, GetStep, DeleteStep, CheckExists, OpenStaging,
   WriteChunk, AbortStream, SyncStaging, PlaceObject, FailPut, UnlinkStaging, StageSidecar,
   CommitSidecar, Stat, ReadSidecar, Rehash, CheckFile, OpenRead, UnlinkObject,
   UnlinkSidecar

\* What a slot remembers of a request is a well-typed exchange.
LEMMA OpenIsExchange ==
  ASSUME NEW r \in HttpRequests, NEW cap \in Nat, NEW fits \in BOOLEAN,
         NEW code \in Statuscodes
  PROVE  Open(r, cap, fits, code) \in Exchanges
BY DEF Open, Exchanges, HttpRequests

LEMMA PassIsCode == 0 \in Nat /\ TRUE \in BOOLEAN /\ Pass \in Statuscodes
BY DEF Pass, Statuscodes

\* The statuses a handler may answer.
LEMMA RefusalIsCode ==
  ASSUME NEW r \in HttpRequests
  PROVE  Refusal(r) \in Statuscodes
<1>1. /\ PutGate(r) \in Statuscodes
      /\ UploadGate(r) \in Statuscodes
      /\ RemovalGate(r) \in Statuscodes
  BY DEF PutGate, UploadGate, RemovalGate, Statuscodes, Pass
<1>2. r.route \in {"PUT", "POST", "HEAD", "DELETE", "GET"}
  BY DEF HttpRequests
<1>3. {Pass, 400, 401, 403} \subseteq Statuscodes
  BY DEF Statuscodes
<1> QED BY <1>1, <1>2, <1>3 DEF Refusal

LEMMA CodeIsCode ==
  ASSUME TypeOK, NEW c \in Calls, res[c].status # "pending"
  PROVE  Code(c) \in Statuscodes \ {Pass}
<1>1. res[c].status \in Statuses
  BY DEF TypeOK, Replies
<1> QED BY <1>1 DEF Code, DriverCodes, Statuses, PutFailures, Statuscodes, Pass

LEMMA CapIsNat ==
  ASSUME NEW r \in HttpRequests, Refusal(r) = Pass, r.route \in {"PUT", "POST"}
  PROVE  Cap(r) \in Nat /\ Fits(r) \in BOOLEAN
<1>1. r.key \in Keys
  BY DEF Refusal, WellFormed, Pass
<1>2. r.payload \in Payloads
  BY DEF HttpRequests
<1>3. CASE r.route = "PUT"
  BY <1>1, <1>3, CapsAssumption DEF Cap, Fits
<1>4. CASE r.route = "POST"
  <2>1. r.mime # None /\ MimeCap[r.mime] # None
    BY <1>4, CapsAssumption DEF Refusal, UploadGate, Pass
  <2>2. r.mime \in Mimes
    BY <1>4, <2>1 DEF HttpRequests
  <2> QED BY <1>4, <2>1, <2>2, CapsAssumption DEF Cap, Fits
<1> QED BY <1>3, <1>4

\* The slot of an admitted request, once the driver call q has started for it.
LEMMA SlotOpens ==
  ASSUME ExchangesInPlace, IInv, NEW c \in Calls, NEW r \in HttpRequests, NEW q,
         NEW seen \in Exchanges,
         Refusal(r) = Pass, req' = [req EXCEPT ![c] = q],
         q.key = r.key, q.op \in {"put", "delete"} => r.route \in {"PUT", "POST", "DELETE"},
         seen.route = r.route, seen.key = r.key, seen.apiKey = r.apiKey, seen.code = Pass,
         http'[c] = seen
  PROVE  ExchangeInPlace(c)'
<1>1. req'[c] = q
  BY DEF IInv, TypeOK
<1>2. Running(c)'
  BY ExchangeAssumption DEF Running
<1>3. r.route \in {"PUT", "POST", "DELETE"} /\ r.key \in ServiceOnly \cup AtKeys => r.apiKey
  BY GatesGuard
<1> QED BY <1>1, <1>2, <1>3 DEF ExchangeInPlace

\* A slot that keeps its driver request and loses nothing of its exchange.
LEMMA SlotStays ==
  ASSUME NEW c \in Calls, ExchangeInPlace(c), UNCHANGED req[c],
         \/ UNCHANGED http[c]
         \/ /\ http[c] # None /\ http'[c] # None
            /\ http'[c].route = http[c].route /\ http'[c].key = http[c].key
            /\ http'[c].apiKey = http[c].apiKey /\ http'[c].code = http[c].code
  PROVE  ExchangeInPlace(c)'
BY DEF ExchangeInPlace, Running

LEMMA WriteOpens ==
  ASSUME ExchangesInPlace, IInv, NEW c \in Calls, NEW r \in HttpRequests,
         Admit(c, r), StartWrite(c, r)
  PROVE  ExchangesInPlace'
<1> DEFINE opened == Open(r, Cap(r), Fits(r), Pass)
           seen == [opened EXCEPT !.clash = DeleteUnderWay(r.key)]
           q == [op |-> "put", key |-> r.key, payload |-> r.payload, create |-> ~r.upsert]
<1>1. Refusal(r) = Pass /\ r.route \in {"PUT", "POST"}
  BY DEF Admit, StartWrite
<1>2. opened \in Exchanges
  BY <1>1, OpenIsExchange, CapIsNat DEF Pass, Statuscodes
<1>3. DeleteUnderWay(r.key) \in BOOLEAN
  BY DEF DeleteUnderWay
<1>4. seen \in Exchanges
  BY <1>2, <1>3 DEF Exchanges
<1>5. seen.route = r.route /\ seen.key = r.key /\ seen.apiKey = r.apiKey /\ seen.code = Pass
  BY <1>2 DEF Exchanges, Open
<1>6. http' = [http EXCEPT ![c] = seen] /\ req' = [req EXCEPT ![c] = q]
  BY DEF StartWrite, StartPut, Start
<1>7. q.key = r.key
  OBVIOUS
<1> HIDE DEF seen, q
<1>8. http' \in [Calls -> Exchanges \cup {None}]
  BY <1>4, <1>6 DEF ExchangesInPlace
<1>9. ExchangeInPlace(c)'
  <2>1. http'[c] = seen
    BY <1>6 DEF ExchangesInPlace
  <2> QED BY <1>1, <1>4, <1>5, <1>6, <1>7, <2>1, SlotOpens
<1>10. ASSUME NEW d \in Calls, d # c PROVE ExchangeInPlace(d)'
  BY <1>6, <1>10, SlotStays DEF ExchangesInPlace
<1> QED BY <1>8, <1>9, <1>10 DEF ExchangesInPlace

LEMMA LookupOpens ==
  ASSUME ExchangesInPlace, IInv, NEW c \in Calls, NEW r \in HttpRequests,
         Admit(c, r), StartLookup(c, r)
  PROVE  ExchangesInPlace'
<1> DEFINE seen == Open(r, 0, TRUE, Pass)
<1>1. Refusal(r) = Pass
  BY DEF Admit
<1>2. seen \in Exchanges
  BY OpenIsExchange, PassIsCode
<1>3. seen.route = r.route /\ seen.key = r.key /\ seen.apiKey = r.apiKey /\ seen.code = Pass
  BY DEF Open
<1>4. http' = [http EXCEPT ![c] = seen]
  BY DEF StartLookup
<1>5. PICK q \in [op: {"head", "get"}, key: {r.key}, payload: {None}, create: {FALSE}] :
        req' = [req EXCEPT ![c] = q]
  BY DEF StartLookup, StartHead, StartGet, Start
<1> HIDE DEF seen
<1>6. http' \in [Calls -> Exchanges \cup {None}]
  BY <1>2, <1>4 DEF ExchangesInPlace
<1>7. ExchangeInPlace(c)'
  <2>1. http'[c] = seen
    BY <1>4 DEF ExchangesInPlace
  <2>2. q.key = r.key /\ q.op \notin {"put", "delete"}
    OBVIOUS
  <2> QED BY <1>1, <1>2, <1>3, <1>5, <2>1, <2>2, SlotOpens
<1>8. ASSUME NEW d \in Calls, d # c PROVE ExchangeInPlace(d)'
  BY <1>4, <1>5, <1>8, SlotStays DEF ExchangesInPlace
<1> QED BY <1>6, <1>7, <1>8 DEF ExchangesInPlace

\* Noting a clash changes nothing else of an exchange.
LEMMA ClashNoted ==
  ASSUME NEW x \in Exchanges
  PROVE  LET y == [x EXCEPT !.clash = TRUE]
         IN  /\ y \in Exchanges
             /\ y.route = x.route /\ y.key = x.key /\ y.apiKey = x.apiKey /\ y.code = x.code
BY DEF Exchanges

LEMMA RemovalOpens ==
  ASSUME ExchangesInPlace, IInv, NEW c \in Calls, NEW r \in HttpRequests,
         Admit(c, r), StartRemoval(c, r)
  PROVE  ExchangesInPlace'
<1> DEFINE seen == Open(r, 0, TRUE, Pass)
           q == [op |-> "delete", key |-> r.key, payload |-> None, create |-> FALSE]
<1>1. Refusal(r) = Pass /\ r.route = "DELETE"
  BY DEF Admit, StartRemoval
<1>2. seen \in Exchanges
  BY OpenIsExchange, PassIsCode
<1>3. seen.route = r.route /\ seen.key = r.key /\ seen.apiKey = r.apiKey /\ seen.code = Pass
  BY DEF Open
<1>4. req' = [req EXCEPT ![c] = q] /\ http'[c] = seen
  BY DEF StartRemoval, StartDelete, Start
<1>5. ASSUME NEW d \in Calls, d # c
      PROVE  \/ http'[d] = http[d]
             \/ http[d] # None /\ http'[d] = [http[d] EXCEPT !.clash = TRUE]
  BY <1>5 DEF StartRemoval, Running
<1>6. q.key = r.key
  OBVIOUS
<1> HIDE DEF seen, q
<1>7. ASSUME NEW d \in Calls PROVE http'[d] \in Exchanges \cup {None}
  <2>1. CASE d = c
    BY <1>2, <1>4, <2>1
  <2>2. CASE d # c /\ http'[d] # http[d]
    <3>1. http[d] \in Exchanges
      BY <1>5, <2>2 DEF ExchangesInPlace
    <3>2. http'[d] = [http[d] EXCEPT !.clash = TRUE]
      BY <1>5, <2>2
    <3> QED BY <3>1, <3>2, ClashNoted
  <2> QED BY <2>1, <2>2 DEF ExchangesInPlace
<1>8. http' \in [Calls -> Exchanges \cup {None}]
  BY <1>7 DEF StartRemoval
<1>9. ExchangeInPlace(c)'
  BY <1>1, <1>2, <1>3, <1>4, <1>6, SlotOpens
<1>10. ASSUME NEW d \in Calls, d # c PROVE ExchangeInPlace(d)'
  <2>1. req'[d] = req[d] /\ ExchangeInPlace(d)
    BY <1>4, <1>10 DEF ExchangesInPlace
  <2>2. CASE http'[d] = http[d]
    BY <2>1, <2>2, SlotStays
  <2>3. CASE http'[d] # http[d]
    <3>1. http[d] \in Exchanges /\ http'[d] = [http[d] EXCEPT !.clash = TRUE]
      BY <1>5, <1>10, <2>3 DEF ExchangesInPlace
    <3>2. /\ http'[d] # None
          /\ http'[d].route = http[d].route /\ http'[d].key = http[d].key
          /\ http'[d].apiKey = http[d].apiKey /\ http'[d].code = http[d].code
      BY <3>1, ClashNoted, ExchangeAssumption
    <3> QED BY <2>1, <3>1, <3>2, ExchangeAssumption, SlotStays
  <2> QED BY <2>2, <2>3
<1> QED BY <1>8, <1>9, <1>10 DEF ExchangesInPlace

\* An exchange that starts or ends with its answer has no driver call.
LEMMA SlotAnswered ==
  ASSUME NEW c \in Calls, req'[c] = None,
         http'[c] = None \/ http'[c].code # Pass
  PROVE  ExchangeInPlace(c)'
BY DEF ExchangeInPlace

LEMMA IdleHasNoRequest ==
  ASSUME IInv, ExchangesInPlace, NEW c \in Calls, ~Running(c)
  PROVE  req[c] = None
BY DEF ExchangesInPlace, ExchangeInPlace

LEMMA AnswersClose ==
  ASSUME ExchangesInPlace, IInv, NEW c \in Calls,
         \/ \E r \in HttpRequests : Refuse(c, r) \/ (Admit(c, r) /\ HandOff(c, r))
         \/ Respond(c)
         \/ Close(c)
  PROVE  ExchangesInPlace'
<1>1. PICK e \in Exchanges \cup {None} :
        /\ http' = [http EXCEPT ![c] = e]
        /\ e = None \/ e.code # Pass
  <2>1. ASSUME NEW r \in HttpRequests, Refuse(c, r)
        PROVE  \E e \in Exchanges : http' = [http EXCEPT ![c] = e] /\ e.code # Pass
    <3>1. Open(r, 0, Refusal(r) = 413 => Fits(r), Refusal(r)) \in Exchanges
      BY OpenIsExchange, RefusalIsCode, (Refusal(r) = 413 => Fits(r)) \in BOOLEAN DEF Fits
    <3> QED BY <2>1, <3>1 DEF Refuse, Open
  <2>2. ASSUME NEW r \in HttpRequests, HandOff(c, r)
        PROVE  \E e \in Exchanges : http' = [http EXCEPT ![c] = e] /\ e.code # Pass
    <3>1. 200 \in Statuscodes /\ 200 # Pass
      BY DEF Statuscodes, Pass
    <3>2. Open(r, 0, TRUE, 200) \in Exchanges
      BY <3>1, OpenIsExchange, PassIsCode
    <3>3. Open(r, 0, TRUE, 200).code = 200
      BY DEF Open
    <3>4. http' = [http EXCEPT ![c] = Open(r, 0, TRUE, 200)]
      BY <2>2 DEF HandOff
    <3> QED BY <3>1, <3>2, <3>3, <3>4
  <2>3. CASE Respond(c)
    <3>1. http[c] \in Exchanges
      BY <2>3 DEF Respond, Running, ExchangesInPlace
    <3>2. res[c].status # "pending"
      BY <2>3 DEF Respond, Return, At, IInv, AnswersInPlace
    <3>3. Code(c) \in Statuscodes \ {Pass}
      BY <3>2, CodeIsCode DEF IInv
    <3>4. [http[c] EXCEPT !.code = Code(c)] \in Exchanges
      BY <3>1, <3>3 DEF Exchanges
    <3>5. [http[c] EXCEPT !.code = Code(c)].code # Pass
      BY <3>1, <3>3 DEF Exchanges
    <3>6. http' = [http EXCEPT ![c] = [http[c] EXCEPT !.code = Code(c)]]
      BY <2>3 DEF Respond
    <3> QED BY <3>4, <3>5, <3>6
  <2>4. CASE Close(c)
    BY <2>4 DEF Close
  <2> QED BY <2>1, <2>2, <2>3, <2>4
<1>2. req' = [req EXCEPT ![c] = None]
  <2>1. CASE Respond(c)
    BY <2>1 DEF Respond, Return
  <2>2. CASE ~Respond(c)
    <3>1. UNCHANGED req /\ ~Running(c)
      BY <2>2 DEF Refuse, Admit, HandOff, Close, Free, Running, vars, locals
    <3> QED BY <3>1, IdleHasNoRequest DEF IInv, TypeOK
  <2> QED BY <2>1, <2>2
<1>3. http'[c] = e /\ req'[c] = None
  BY <1>1, <1>2 DEF ExchangesInPlace, IInv, TypeOK
<1>4. ExchangeInPlace(c)'
  BY <1>1, <1>3, SlotAnswered
<1>5. ASSUME NEW d \in Calls, d # c PROVE ExchangeInPlace(d)'
  BY <1>1, <1>2, <1>5, SlotStays DEF ExchangesInPlace
<1> QED BY <1>1, <1>4, <1>5 DEF ExchangesInPlace

LEMMA WorkKeeps ==
  ASSUME ExchangesInPlace, IInv, NEW c \in Calls, Work(c) \/ Disconnect(c)
  PROVE  ExchangesInPlace'
<1>1. UNCHANGED req
  BY WorkIsCallStep, CallKeepsRequest
<1>2. http[c] \in Exchanges
  BY DEF Work, Disconnect, Running, ExchangesInPlace
<1>3. PICK e \in Exchanges :
        /\ http' = [http EXCEPT ![c] = e]
        /\ e.route = http[c].route /\ e.key = http[c].key
        /\ e.apiKey = http[c].apiKey /\ e.code = http[c].code
  <2>1. CASE Work(c)
    <3> DEFINE e == [http[c] EXCEPT !.effect = http[c].effect \/ TakesEffect(c)]
    <3>1. (http[c].effect \/ TakesEffect(c)) \in BOOLEAN
      OBVIOUS
    <3>2. e \in Exchanges
      BY <1>2, <3>1 DEF Exchanges
    <3>3. /\ e.route = http[c].route /\ e.key = http[c].key
          /\ e.apiKey = http[c].apiKey /\ e.code = http[c].code
      BY <1>2 DEF Exchanges
    <3>4. http' = [http EXCEPT ![c] = e]
      BY <2>1 DEF Work
    <3> HIDE DEF e
    <3> QED BY <3>2, <3>3, <3>4
  <2>2. CASE Disconnect(c)
    <3> DEFINE e == [http[c] EXCEPT !.gone = TRUE]
    <3>1. e \in Exchanges
      BY <1>2 DEF Exchanges
    <3>2. /\ e.route = http[c].route /\ e.key = http[c].key
          /\ e.apiKey = http[c].apiKey /\ e.code = http[c].code
      BY <1>2 DEF Exchanges
    <3>3. http' = [http EXCEPT ![c] = e]
      BY <2>2 DEF Disconnect
    <3> HIDE DEF e
    <3> QED BY <3>1, <3>2, <3>3
  <2> QED BY <2>1, <2>2
<1>4. ASSUME NEW d \in Calls PROVE ExchangeInPlace(d)'
  <2>1. CASE d = c
    <3>1. http'[c] = e /\ e # None /\ http[c] # None
      BY <1>2, <1>3, ExchangeAssumption DEF ExchangesInPlace
    <3> QED BY <1>1, <1>3, <2>1, <3>1, SlotStays DEF ExchangesInPlace
  <2>2. CASE d # c
    BY <1>1, <1>3, <2>2, SlotStays DEF ExchangesInPlace
  <2> QED BY <2>1, <2>2
<1> QED BY <1>3, <1>4 DEF ExchangesInPlace

LEMMA BackgroundKeeps ==
  ASSUME ExchangesInPlace, IInv, Background
  PROVE  ExchangesInPlace'
<1>1. ASSUME NEW dead \in SUBSET Calls, Crash(dead),
             http' = [c \in Calls |-> IF c \in dead THEN None ELSE http[c]]
      PROVE  ExchangesInPlace'
  <2>1. ASSUME NEW c \in Calls, c \in dead PROVE ExchangeInPlace(c)'
    <3>1. http'[c] = None /\ req'[c] = None
      BY <1>1, <2>1 DEF Crash
    <3> QED BY <3>1 DEF ExchangeInPlace
  <2>2. ASSUME NEW c \in Calls, c \notin dead PROVE ExchangeInPlace(c)'
    <3>1. http'[c] = http[c] /\ req'[c] = req[c]
      BY <1>1, <2>2 DEF Crash
    <3> QED BY <3>1, SlotStays DEF ExchangesInPlace
  <2>3. http' \in [Calls -> Exchanges \cup {None}]
    BY <1>1 DEF ExchangesInPlace
  <2> QED BY <2>1, <2>2, <2>3 DEF ExchangesInPlace
<1>2. CASE UNCHANGED <<http, req>>
  BY <1>2, SlotStays DEF ExchangesInPlace
<1> QED BY <1>1, <1>2 DEF Background, Restart, SweepUnlink, Age, SweepMark, locals

LEMMA ExchangesStay ==
  ASSUME ExchangesInPlace, IInv, [ApiNext]_apiVars
  PROVE  ExchangesInPlace'
<1>1. CASE UNCHANGED apiVars
  <2>1. UNCHANGED <<http, req>>
    BY <1>1 DEF apiVars, vars, locals
  <2> QED BY <2>1, SlotStays DEF ExchangesInPlace
<1>2. CASE Background
  BY <1>2, BackgroundKeeps
<1>3. ASSUME NEW c \in Calls, Serve(c) PROVE ExchangesInPlace'
  <2>1. ASSUME NEW r \in HttpRequests, Admit(c, r) PROVE ExchangesInPlace'
    BY <2>1, WriteOpens, LookupOpens, RemovalOpens, AnswersClose DEF Admit
  <2> QED BY <1>3, <2>1, AnswersClose, WorkKeeps DEF Serve
<1> QED BY <1>1, <1>2, <1>3 DEF ApiNext

LEMMA ExchangesInvariance == ApiSpec => []ExchangesInPlace
<1>1. ExchangesInPlace /\ IInv /\ [ApiNext]_apiVars => ExchangesInPlace'
  BY ExchangesStay
<1> QED BY <1>1, ExchangesAtFirst, ApiRunsDriver, Invariance, PTL DEF ApiSpec

\* For every number of users and services and any interleaving of their requests: an
\* object under a service-only prefix, or a rendition, changes only on behalf of a
\* caller that holds an API key.
THEOREM ServiceKeysAreGuarded == ApiSpec => ServiceKeysGuarded
<1>1. ASSUME ExchangesInPlace,
             [\A k \in Keys : object'[k] # object[k] =>
                \E c \in Calls :
                  /\ req[c] # None /\ req[c].key = k
                  /\ res[c].status = "pending"
                  /\ \/ req[c].op = "put" /\ res'[c].status = "stored" /\ object'[k] = res'[c].etag
                     \/ req[c].op = "delete" /\ res'[c].status = "deleted" /\ object'[k] = None]_vars
      PROVE  [\A k \in ServiceOnly \cup AtKeys : object'[k] # object[k] =>
                \E c \in Calls : /\ http[c] # None
                                 /\ http[c].apiKey
                                 /\ http[c].key = k]_apiVars
  <2>1. ASSUME NEW k \in ServiceOnly \cup AtKeys, object'[k] # object[k]
        PROVE  \E c \in Calls : /\ http[c] # None
                                /\ http[c].apiKey
                                /\ http[c].key = k
    <3>1. k \in Keys
      BY KeySetsAssumption
    <3>2. ~UNCHANGED vars
      BY <2>1 DEF vars, files
    <3>3. PICK c \in Calls : req[c] # None /\ req[c].key = k /\ req[c].op \in {"put", "delete"}
      BY <1>1, <2>1, <3>1, <3>2
    <3>4. /\ http[c] # None /\ http[c].code = Pass /\ req[c].key = http[c].key
          /\ http[c].route \in {"PUT", "POST", "DELETE"}
      BY <1>1, <3>3 DEF ExchangesInPlace, ExchangeInPlace, Running
    <3>5. http[c].apiKey
      BY <1>1, <3>3, <3>4 DEF ExchangesInPlace, ExchangeInPlace
    <3> QED BY <3>3, <3>4, <3>5
  <2> QED BY <2>1
<1> QED
  BY <1>1, ExchangesInvariance, ApiRunsDriver, OnlyCallsChangeObjects, PTL
     DEF ServiceKeysGuarded, OnlyCallsOnKeyChangeIt

-----------------------------------------------------------------------------
(* What the caps and the answers promise.                                  *)

\* How far the driver is with a request to write, and what the slot says of it: the
\* cap is one its caller may use, not a chunk more is hashed, the effect is noted when
\* the rename is made, and a body breaks off because it is too large or nobody sends it.
WriteInPlace(c) ==
  /\ req[c].op = "put"
  /\ http[c].cap \in LimitFor(http[c].key)
  /\ http[c].cap \in Nat
  /\ http[c].fits <=> Size[req[c].payload] <= http[c].cap
  /\ sent[c] <= http[c].cap
  /\ res[c].status \in {"pending", "exists", "stored"} \cup PutFailures
  /\ http[c].effect <=> res[c].status = "stored"
  /\ res[c].status = "aborted" => http[c].gone \/ ~http[c].fits

RemovalInPlace(c) ==
  /\ req[c].op = "delete"
  /\ res[c].status \in {"pending", "deleted", "absent"}

LookupInPlace(c) ==
  /\ req[c].op \in {"head", "get"}
  /\ res[c].status \in {"pending", "found", "missing", "sent", "broken"}
  /\ ~http[c].effect

\* An answer that tells what was done.
AnswerInPlace(c) ==
  /\ http[c].route \in {"PUT", "POST"} => (http[c].effect <=> http[c].code \in {200, 201})
  /\ http[c].route \notin {"PUT", "POST"} /\ http[c].effect =>
       http[c].route = "DELETE" /\ http[c].code = 200
  /\ http[c].code = 413 => ~http[c].fits

SlotInPlace(c) ==
  http[c] # None =>
    /\ http[c].code # Pass => AnswerInPlace(c)
    /\ http[c].code = Pass =>
         /\ http[c].route \in {"PUT", "POST"} => WriteInPlace(c)
         /\ http[c].route = "DELETE" => RemovalInPlace(c)
         /\ http[c].route \in {"HEAD", "GET"} => LookupInPlace(c)

SlotsInPlace == \A c \in Calls : SlotInPlace(c)

AInv == IInv /\ ExchangesInPlace /\ SlotsInPlace

-----------------------------------------------------------------------------
(* Steps of the driver, as far as a slot sees them.                        *)

\* The count of another call's chunks stays.
LEMMA OthersCount ==
  ASSUME IInv, NEW c \in Calls, StartCall(c) \/ CallStep(c) \/ Return(c),
         NEW d \in Calls, d # c
  PROVE  sent'[d] = sent[d]
<1>1. CASE StartCall(c) \/ Return(c)
  BY <1>1 DEF IInv, TypeOK, StartCall, Start, StartPut, StartHead, StartGet, StartDelete,
     Return
<1>2. CASE CallStep(c)
  BY <1>2 DEF IInv, TypeOK, CallStep, PutStep, HeadStep, GetStep, DeleteStep, CheckExists,
     OpenStaging, WriteChunk, AbortStream, SyncStaging, PlaceObject, FailPut, UnlinkStaging,
     StageSidecar, CommitSidecar, Stat, ReadSidecar, Rehash, CheckFile, OpenRead,
     UnlinkObject, UnlinkSidecar
<1> QED BY <1>1, <1>2

\* A step of a put is its rename, after which it is "stored", or leaves all objects
\* alone and does not make it "stored".
LEMMA PutStepEffect ==
  ASSUME IInv, NEW c \in Calls, CallStep(c), req[c].op = "put"
  PROVE  \/ /\ PlaceObject(c)
            /\ pc[c] = "place" /\ pc'[c] = "meta_stage"
            /\ res'[c].status = "stored"
         \/ /\ UNCHANGED object
            /\ ~(pc[c] = "place" /\ pc'[c] = "meta_stage")
            /\ \/ res'[c].status = res[c].status
               \/ /\ res[c].status = "pending"
                  /\ res'[c].status \in {"exists", "insufficient_storage", "io_error"}
               \/ /\ AbortStream(c)
                  /\ res[c].status = "pending"
                  /\ res'[c].status = "aborted"
<1>1. pc \in [Calls -> Labels] /\ res \in [Calls -> Replies]
  BY DEF IInv, TypeOK
<1>2. pc[c] \in {"exists", "open", "stream", "place"} => res[c].status = "pending"
  BY DEF IInv, AnswersInPlace, Pending
<1>3. CASE PlaceObject(c)
  BY <1>1, <1>3 DEF PlaceObject, At, Goto, Answer
<1>4. CASE AbortStream(c)
  BY <1>1, <1>2, <1>4 DEF AbortStream, At, Goto, Report, Answer, files
<1>5. CASE FailPut(c)
  <2>1. PICK e \in Errnos \cup {"ENOENT"} : Raises(c, e) /\ Report(c, PutError(e))
    BY <1>5 DEF FailPut
  <2>2. res[c].status = "pending"
    BY <1>2, <2>1 DEF Raises, At
  <2>3. res'[c].status \in {"insufficient_storage", "io_error"}
    BY <1>1, <2>1 DEF Report, Answer, PutError
  <2>4. pc'[c] # "meta_stage"
    BY <1>1, <1>5 DEF FailPut, Goto
  <2> QED BY <1>5, <2>2, <2>3, <2>4 DEF FailPut, files
<1>6. CASE CheckExists(c)
  BY <1>1, <1>2, <1>6 DEF CheckExists, At, Goto, Report, Answer, files
<1>7. CASE OpenStaging(c) \/ WriteChunk(c) \/ SyncStaging(c) \/ UnlinkStaging(c)
           \/ StageSidecar(c) \/ CommitSidecar(c)
  BY <1>1, <1>7 DEF OpenStaging, WriteChunk, SyncStaging, UnlinkStaging, StageSidecar,
     CommitSidecar, At, Goto, files
<1>8. CASE Stat(c)
  BY <1>1, <1>8 DEF Stat, At, Goto, Report, Answer, files
<1>9. CASE ReadSidecar(c) \/ Rehash(c)
  BY <1>1, <1>9 DEF ReadSidecar, Rehash, At, Goto, Answer, files
<1>10. ~GetStep(c) /\ ~DeleteStep(c)
  BY DEF IInv, RequestsInPlace, GetStep, DeleteStep, CheckFile, OpenRead, UnlinkObject,
     UnlinkSidecar, At
<1> QED BY <1>3, <1>4, <1>5, <1>6, <1>7, <1>8, <1>9, <1>10 DEF CallStep, PutStep, HeadStep

\* A step of a delete leaves the status of one.
LEMMA DeleteStepStatus ==
  ASSUME IInv, NEW c \in Calls, CallStep(c), req[c].op = "delete"
  PROVE  res'[c].status \in {res[c].status, "deleted", "absent"}
<1>1. DeleteStep(c)
  BY DEF IInv, RequestsInPlace, CallStep, PutStep, HeadStep, GetStep, CheckExists,
     OpenStaging, WriteChunk, AbortStream, SyncStaging, PlaceObject, FailPut, Raises,
     UnlinkStaging, StageSidecar, CommitSidecar, Stat, ReadSidecar, Rehash, CheckFile,
     OpenRead, At
<1> QED BY <1>1 DEF IInv, TypeOK, DeleteStep, UnlinkObject, UnlinkSidecar, Report, Answer

\* A step of a head or a get changes no object and leaves the status of one.
LEMMA LookupStepLooks ==
  ASSUME IInv, NEW c \in Calls, CallStep(c), req[c].op \in {"head", "get"}
  PROVE  /\ UNCHANGED object /\ pc[c] # "place"
         /\ res'[c].status \in {res[c].status, "found", "missing", "sent", "broken"}
<1>1. HeadStep(c) \/ GetStep(c)
  BY DEF IInv, RequestsInPlace, CallStep, PutStep, DeleteStep, CheckExists,
     OpenStaging, WriteChunk, AbortStream, SyncStaging, PlaceObject, FailPut, Raises,
     UnlinkStaging, StageSidecar, CommitSidecar, UnlinkObject, UnlinkSidecar, At
<1>2. pc[c] # "place"
  BY DEF IInv, RequestsInPlace
<1>3. res \in [Calls -> Replies]
  BY DEF IInv, TypeOK
<1> QED BY <1>1, <1>2, <1>3 DEF HeadStep, GetStep, Stat, ReadSidecar, Rehash, CheckFile,
     OpenRead, Report, Answer, files

\* The counter lets a chunk through only below the cap, and raises only at it.
LEMMA WorkCounts ==
  ASSUME IInv, NEW c \in Calls, Work(c), http[c].cap \in Nat, sent[c] <= http[c].cap
  PROVE  /\ sent'[c] <= http[c].cap
         /\ AbortStream(c) => ~(Size[req[c].payload] <= http[c].cap)
<1>1. sent \in [Calls -> Nat]
  BY DEF IInv, TypeOK
<1>2. CASE pc[c] = "stream"
  <2>1. Size[req[c].payload] \in Nat
    BY <1>2, HashFacts, SizeAssumption
  <2>2. pc'[c] = "cleanup" /\ sent' = sent => sent'[c] <= http[c].cap
    OBVIOUS
  <2>3. CASE NextChunk(c)
    <3>1. sent'[c] = sent[c] + 1 /\ pc' = pc
      BY <1>1, <2>3 DEF NextChunk, WriteChunk
    <3>2. ~AbortStream(c)
      BY <1>2, <3>1 DEF AbortStream, Goto, IInv, TypeOK
    <3> QED BY <1>1, <2>3, <3>1, <3>2 DEF NextChunk
  <2>4. CASE TooLarge(c)
    BY <1>1, <2>1, <2>4 DEF TooLarge, AbortStream
  <2>5. CASE SyncStaging(c) \/ FailPut(c)
    <3>1. UNCHANGED sent
      BY <2>5 DEF SyncStaging, FailPut
    <3>2. ~AbortStream(c)
      <4>1. CASE SyncStaging(c)
        BY <4>1 DEF SyncStaging, AbortStream, Goto, IInv, TypeOK
      <4>2. CASE FailPut(c)
        BY <4>2 DEF FailPut, AbortStream, Report, Answer, PutError, IInv, TypeOK
      <4> QED BY <2>5, <4>1, <4>2
    <3> QED BY <3>1, <3>2
  <2> QED BY <1>2, <2>3, <2>4, <2>5 DEF Work
<1>3. CASE pc[c] # "stream"
  <2>1. CallStep(c) /\ ~WriteChunk(c) /\ ~AbortStream(c)
    BY <1>3 DEF Work, WriteChunk, AbortStream, At
  <2>2. UNCHANGED sent
    BY <2>1 DEF CallStep, PutStep, HeadStep, GetStep, DeleteStep, CheckExists, OpenStaging,
       SyncStaging, PlaceObject, FailPut, UnlinkStaging, StageSidecar, CommitSidecar, Stat,
       ReadSidecar, Rehash, CheckFile, OpenRead, UnlinkObject, UnlinkSidecar
  <2> QED BY <2>1, <2>2
<1> QED BY <1>2, <1>3

-----------------------------------------------------------------------------
(* Every step keeps the slots as they should be.                           *)

\* A slot whose driver call stands still and which at most learns of a clash.
LEMMA SlotKeeps ==
  ASSUME NEW c \in Calls, SlotInPlace(c),
         UNCHANGED req[c], UNCHANGED sent[c], UNCHANGED res[c],
         \/ UNCHANGED http[c]
         \/ /\ http[c] # None /\ http'[c] # None
            /\ http'[c].route = http[c].route /\ http'[c].key = http[c].key
            /\ http'[c].cap = http[c].cap /\ http'[c].fits = http[c].fits
            /\ http'[c].gone = http[c].gone /\ http'[c].effect = http[c].effect
            /\ http'[c].code = http[c].code
  PROVE  SlotInPlace(c)'
<1>1. CASE UNCHANGED http[c]
  BY <1>1 DEF SlotInPlace, AnswerInPlace, WriteInPlace, RemovalInPlace, LookupInPlace, LimitFor
<1>2. CASE ~UNCHANGED http[c]
  <2>1. AnswerInPlace(c) => AnswerInPlace(c)'
    BY <1>2 DEF AnswerInPlace
  <2>2. WriteInPlace(c) => WriteInPlace(c)'
    BY <1>2 DEF WriteInPlace, LimitFor
  <2>3. RemovalInPlace(c) => RemovalInPlace(c)'
    BY <1>2 DEF RemovalInPlace
  <2>4. LookupInPlace(c) => LookupInPlace(c)'
    BY <1>2 DEF LookupInPlace
  <2> QED BY <1>2, <2>1, <2>2, <2>3, <2>4 DEF SlotInPlace
<1> QED BY <1>1, <1>2

LEMMA OthersKeep ==
  ASSUME AInv, NEW c \in Calls, StartCall(c) \/ CallStep(c) \/ Return(c) \/ UNCHANGED vars,
         SlotInPlace(c)',
         \A d \in Calls : d # c => http'[d] = http[d]
  PROVE  SlotsInPlace'
<1>1. ASSUME NEW d \in Calls, d # c PROVE SlotInPlace(d)'
  <2>1. UNCHANGED req[d] /\ UNCHANGED sent[d] /\ UNCHANGED res[d]
    BY <1>1, OthersStay, OthersCount DEF AInv, vars, locals
  <2> QED BY <1>1, <2>1, SlotKeeps DEF AInv, SlotsInPlace
<1> QED BY <1>1 DEF SlotsInPlace

\* The cap that a request to write is admitted with is one that its caller may use.
LEMMA CapIsGranted ==
  ASSUME NEW r \in HttpRequests, Refusal(r) = Pass, r.route \in {"PUT", "POST"}
  PROVE  Cap(r) \in LimitFor(r.key)
<1>1. CASE r.route = "PUT"
  BY <1>1 DEF Cap, LimitFor
<1>2. CASE r.route = "POST"
  <2>0. UploadGate(r) = Pass
    BY <1>2 DEF Refusal, Pass
  <2>1. r.mime \in Mimes /\ MimeCap[r.mime] # None
    <3>1. r.mime # None /\ MimeCap[r.mime] # None
      BY <2>0 DEF UploadGate, Pass
    <3> QED BY <1>2, <3>1 DEF HttpRequests
  <2>2. r.key \notin ServiceOnly
    BY <2>0 DEF UploadGate, Pass
  <2>3. Principal(r) # "service"
    BY <1>2, <2>1 DEF Principal, RequireUserJwt, Refusal, Pass
  <2>4. r.key \notin AtKeys
    BY <2>3 DEF Refusal, WellFormed, Pass
  <2> QED BY <1>2, <2>1, <2>2, <2>4 DEF Cap, LimitFor
<1> QED BY <1>1, <1>2

\* A refusal is an error, and 413 only for what is too large.
LEMMA RefusalIsError ==
  ASSUME NEW r \in HttpRequests, Refusal(r) # Pass
  PROVE  Refusal(r) \notin {200, 201} /\ (Refusal(r) = 413 => ~Fits(r))
<1>1. /\ PutGate(r) \notin {200, 201} /\ (PutGate(r) = 413 => ~Fits(r))
      /\ UploadGate(r) \notin {200, 201} /\ (UploadGate(r) = 413 => ~Fits(r))
      /\ RemovalGate(r) \in {Pass, 403}
  BY DEF PutGate, UploadGate, RemovalGate, Pass
<1>2. r.route \in {"PUT", "POST", "HEAD", "DELETE", "GET"}
  BY DEF HttpRequests
<1> QED BY <1>1, <1>2 DEF Refusal, Pass

LEMMA RefuseKeepsSlots ==
  ASSUME AInv, NEW c \in Calls, NEW r \in HttpRequests, Refuse(c, r)
  PROVE  SlotsInPlace'
<1> DEFINE seen == Open(r, 0, Refusal(r) = 413 => Fits(r), Refusal(r))
<1>1. http' = [http EXCEPT ![c] = seen] /\ UNCHANGED vars /\ Refusal(r) # Pass
  BY DEF Refuse
<1>2. http'[c] = seen
  BY <1>1 DEF AInv, ExchangesInPlace
<1>3. Refusal(r) \notin {200, 201} /\ (Refusal(r) = 413 => ~Fits(r))
  BY <1>1, RefusalIsError
<1>4. /\ seen.code = Refusal(r) /\ seen.effect = FALSE
      /\ seen.fits = (Refusal(r) = 413 => Fits(r))
  BY DEF Open
<1> HIDE DEF seen
<1>5. SlotInPlace(c)'
  <2>1. AnswerInPlace(c)'
    <3>1. seen.code \notin {200, 201} /\ ~seen.effect
      BY <1>1, <1>4, RefusalIsError
    <3>2. ASSUME seen.code = 413 PROVE ~seen.fits
      <4>1. Refusal(r) = 413
        BY <1>4, <3>2, Zenon
      <4>2. ~Fits(r)
        BY <4>1, <1>3, Zenon
      <4>3. (Refusal(r) = 413 => Fits(r)) = FALSE
        BY <4>1, <4>2
      <4> QED BY <1>4, <4>3, Zenon
    <3> QED BY <1>2, <3>1, <3>2 DEF AnswerInPlace
  <2>2. http'[c].code # Pass
    BY <1>1, <1>2, <1>4
  <2> QED BY <2>1, <2>2, Zenon DEF SlotInPlace
<1> QED BY <1>1, <1>5, OthersKeep DEF AInv, ExchangesInPlace

LEMMA HandOffKeepsSlots ==
  ASSUME AInv, NEW c \in Calls, NEW r \in HttpRequests, HandOff(c, r)
  PROVE  SlotsInPlace'
<1> DEFINE seen == Open(r, 0, TRUE, 200)
<1>1. http' = [http EXCEPT ![c] = seen] /\ UNCHANGED vars /\ r.route = "GET"
  BY DEF HandOff
<1>2. http'[c] = seen
  BY <1>1 DEF AInv, ExchangesInPlace
<1>3. seen.code = 200 /\ seen.effect = FALSE /\ seen.route = "GET"
  BY <1>1 DEF Open
<1> HIDE DEF seen
<1>4. SlotInPlace(c)'
  <2>1. AnswerInPlace(c)'
    BY <1>2, <1>3 DEF AnswerInPlace
  <2>2. http'[c].code # Pass
    BY <1>2, <1>3 DEF Pass
  <2> QED BY <2>1, <2>2, Zenon DEF SlotInPlace
<1> QED BY <1>1, <1>4, OthersKeep DEF AInv, ExchangesInPlace

LEMMA CloseKeepsSlots ==
  ASSUME AInv, NEW c \in Calls, Close(c)
  PROVE  SlotsInPlace'
<1>1. http' = [http EXCEPT ![c] = None] /\ UNCHANGED vars
  BY DEF Close
<1>2. http'[c] = None
  BY <1>1 DEF AInv, ExchangesInPlace
<1>3. SlotInPlace(c)'
  BY <1>2 DEF SlotInPlace
<1> QED BY <1>1, <1>3, OthersKeep DEF AInv, ExchangesInPlace

LEMMA WriteKeepsSlots ==
  ASSUME AInv, NEW c \in Calls, NEW r \in HttpRequests, Admit(c, r), StartWrite(c, r)
  PROVE  SlotsInPlace'
<1> DEFINE opened == Open(r, Cap(r), Fits(r), Pass)
           seen == [opened EXCEPT !.clash = DeleteUnderWay(r.key)]
           q == [op |-> "put", key |-> r.key, payload |-> r.payload, create |-> ~r.upsert]
<1>1. Refusal(r) = Pass /\ r.route \in {"PUT", "POST"}
  BY DEF Admit, StartWrite
<1>2. /\ opened.route = r.route /\ opened.key = r.key /\ opened.cap = Cap(r)
      /\ opened.fits = Fits(r) /\ opened.effect = FALSE /\ opened.code = Pass
  BY DEF Open
<1>3. /\ seen.route = r.route /\ seen.key = r.key /\ seen.cap = Cap(r)
      /\ seen.fits = Fits(r) /\ seen.effect = FALSE /\ seen.code = Pass
  BY DEF Open
<1>4. http' = [http EXCEPT ![c] = seen] /\ req' = [req EXCEPT ![c] = q]
  BY DEF StartWrite, StartPut, Start
<1>5. q.op = "put" /\ q.payload = r.payload
  OBVIOUS
<1>6. pc[c] = "idle" /\ UNCHANGED <<sent, res>>
  BY DEF StartWrite, StartPut, Start, At
<1> HIDE DEF opened, seen, q
<1>7. http'[c] = seen /\ req'[c] = q
  BY <1>4 DEF AInv, ExchangesInPlace, IInv, TypeOK
<1>8. sent'[c] = 0 /\ res'[c].status = "pending"
  BY <1>6 DEF AInv, IInv, HashInPlace, AnswersInPlace, Pending
<1>9. Cap(r) \in Nat /\ Cap(r) \in LimitFor(r.key)
  BY <1>1, CapIsNat, CapIsGranted
<1>10. WriteInPlace(c)'
  <2>1. (sent[c] <= http[c].cap)' /\ (http[c].cap \in Nat)'
    BY <1>3, <1>7, <1>8, <1>9
  <2>2. (http[c].cap \in LimitFor(http[c].key))'
    BY <1>3, <1>7, <1>9 DEF LimitFor
  <2>3. (http[c].fits <=> Size[req[c].payload] <= http[c].cap)'
    BY <1>3, <1>5, <1>7 DEF Fits
  <2> QED BY <1>3, <1>5, <1>7, <1>8, <2>1, <2>2, <2>3 DEF WriteInPlace
<1>11. SlotInPlace(c)'
  BY <1>1, <1>3, <1>7, <1>10 DEF SlotInPlace
<1>12. StartCall(c) \/ UNCHANGED vars
  BY AdmitIsStart
<1> QED BY <1>4, <1>11, <1>12, OthersKeep DEF AInv, ExchangesInPlace

LEMMA LookupKeepsSlots ==
  ASSUME AInv, NEW c \in Calls, NEW r \in HttpRequests, Admit(c, r), StartLookup(c, r)
  PROVE  SlotsInPlace'
<1> DEFINE seen == Open(r, 0, TRUE, Pass)
<1>1. r.route \in {"HEAD", "GET"}
  BY DEF StartLookup
<1>2. seen.route = r.route /\ seen.effect = FALSE /\ seen.code = Pass
  BY DEF Open
<1>3. http' = [http EXCEPT ![c] = seen]
  BY DEF StartLookup
<1>4. PICK q \in [op: {"head", "get"}, key: {r.key}, payload: {None}, create: {FALSE}] :
        req' = [req EXCEPT ![c] = q]
  BY DEF StartLookup, StartHead, StartGet, Start
<1> HIDE DEF seen
<1>5. http'[c] = seen /\ req'[c] = q
  BY <1>3, <1>4 DEF AInv, ExchangesInPlace, IInv, TypeOK
<1>6. SlotInPlace(c)'
  <2>1. res'[c].status = "pending"
    BY DEF StartLookup, StartHead, StartGet, Start, At, AInv, IInv, AnswersInPlace, Pending
  <2> QED BY <1>1, <1>2, <1>5, <2>1 DEF SlotInPlace, LookupInPlace
<1>7. StartCall(c) \/ UNCHANGED vars
  BY AdmitIsStart
<1> QED BY <1>3, <1>6, <1>7, OthersKeep DEF AInv, ExchangesInPlace

LEMMA RemovalKeepsSlots ==
  ASSUME AInv, NEW c \in Calls, NEW r \in HttpRequests, Admit(c, r), StartRemoval(c, r)
  PROVE  SlotsInPlace'
<1> DEFINE seen == Open(r, 0, TRUE, Pass)
           q == [op |-> "delete", key |-> r.key, payload |-> None, create |-> FALSE]
<1>1. seen.route = "DELETE" /\ seen.code = Pass
  BY DEF StartRemoval, Open
<1>2. req' = [req EXCEPT ![c] = q] /\ http'[c] = seen /\ UNCHANGED res /\ pc[c] = "idle"
  BY DEF StartRemoval, StartDelete, Start, At
<1>3. q.op = "delete"
  OBVIOUS
<1>4. ASSUME NEW d \in Calls, d # c
      PROVE  \/ http'[d] = http[d]
             \/ http[d] # None /\ http'[d] = [http[d] EXCEPT !.clash = TRUE]
  BY <1>4 DEF StartRemoval, Running
<1> HIDE DEF seen, q
<1>5. req'[c] = q /\ res'[c].status = "pending"
  BY <1>2 DEF AInv, IInv, TypeOK, AnswersInPlace, Pending
<1>6. SlotInPlace(c)'
  BY <1>1, <1>2, <1>3, <1>5 DEF SlotInPlace, RemovalInPlace
<1>7. ASSUME NEW d \in Calls, d # c PROVE SlotInPlace(d)'
  <2>1. StartCall(c) \/ UNCHANGED vars
    BY AdmitIsStart
  <2>2. UNCHANGED req[d] /\ UNCHANGED sent[d] /\ UNCHANGED res[d] /\ SlotInPlace(d)
    BY <1>7, <2>1, OthersStay, OthersCount DEF AInv, SlotsInPlace, vars, locals
  <2>3. CASE http'[d] = http[d]
    BY <2>2, <2>3, SlotKeeps
  <2>4. CASE http'[d] # http[d]
    <3>1. http[d] \in Exchanges /\ http'[d] = [http[d] EXCEPT !.clash = TRUE]
      BY <1>4, <1>7, <2>4 DEF AInv, ExchangesInPlace
    <3>2. http'[d] \in Exchanges
      BY <3>1 DEF Exchanges
    <3>3. /\ http'[d].route = http[d].route /\ http'[d].key = http[d].key
          /\ http'[d].cap = http[d].cap /\ http'[d].fits = http[d].fits
          /\ http'[d].gone = http[d].gone /\ http'[d].effect = http[d].effect
          /\ http'[d].code = http[d].code
      BY <3>1 DEF Exchanges
    <3> QED BY <2>2, <3>1, <3>2, <3>3, ExchangeAssumption, SlotKeeps
  <2> QED BY <2>3, <2>4
<1> QED BY <1>6, <1>7 DEF SlotsInPlace

LEMMA RespondKeepsSlots ==
  ASSUME AInv, NEW c \in Calls, Respond(c)
  PROVE  SlotsInPlace'
<1>1. /\ http[c] \in Exchanges /\ http[c] # None /\ http[c].code = Pass
      /\ http' = [http EXCEPT ![c].code = Code(c)]
      /\ Return(c)
  BY DEF Respond, Running, AInv, ExchangesInPlace
<1>2. res[c].status # "pending" /\ res[c].status \in Statuses
  BY <1>1 DEF Return, At, AInv, IInv, AnswersInPlace, TypeOK, Replies
<1>3. Code(c) \in Statuscodes \ {Pass}
  BY <1>2, CodeIsCode DEF AInv, IInv
<1>4. http'[c] = [http[c] EXCEPT !.code = Code(c)]
  BY <1>1 DEF AInv, ExchangesInPlace
<1>5. /\ http'[c].route = http[c].route /\ http'[c].fits = http[c].fits
      /\ http'[c].effect = http[c].effect /\ http'[c].code = Code(c)
  BY <1>1, <1>4 DEF Exchanges
<1>6. SlotInPlace(c)
  BY DEF AInv, SlotsInPlace
<1>7. ASSUME http[c].route \in {"PUT", "POST"}
      PROVE  (http[c].effect <=> Code(c) \in {200, 201}) /\ (Code(c) = 413 => ~http[c].fits)
  <2>1. WriteInPlace(c)
    BY <1>1, <1>6, <1>7 DEF SlotInPlace
  <2>2. CASE res[c].status = "stored"
    <3>1. Code(c) \in {200, 201}
      BY <2>2 DEF Code
    <3> QED BY <2>1, <2>2, <3>1 DEF WriteInPlace
  <2>3. CASE res[c].status = "aborted"
    <3>1. Code(c) \in {500, 413} /\ (Code(c) = 413 => ~http[c].gone)
      BY <2>3 DEF Code
    <3> QED BY <2>1, <2>3, <3>1 DEF WriteInPlace
  <2>4. CASE res[c].status \in {"exists", "insufficient_storage", "io_error"}
    <3>1. Code(c) \in {409, 507, 500}
      BY <2>4 DEF Code, DriverCodes
    <3> QED BY <2>1, <2>4, <3>1 DEF WriteInPlace
  <2> QED BY <1>2, <2>1, <2>2, <2>3, <2>4 DEF WriteInPlace, PutFailures
<1>8. ASSUME http[c].route = "DELETE" PROVE Code(c) = 200
  <2>1. RemovalInPlace(c)
    BY <1>1, <1>6, <1>8 DEF SlotInPlace
  <2> QED BY <1>2, <2>1 DEF RemovalInPlace, Code, DriverCodes
<1>9. ASSUME http[c].route \in {"HEAD", "GET"} PROVE ~http[c].effect
  BY <1>1, <1>6, <1>9 DEF SlotInPlace, LookupInPlace
<1>10. ASSUME http[c].route \in {"HEAD", "GET"} PROVE Code(c) # 413
  <2>1. LookupInPlace(c)
    BY <1>1, <1>6, <1>10 DEF SlotInPlace
  <2>2. res[c].status \in {"found", "missing", "sent", "broken"}
    BY <1>2, <2>1 DEF LookupInPlace
  <2> QED BY <2>2 DEF Code, DriverCodes
<1>11. AnswerInPlace(c)'
  <2>1. http[c].route \in {"PUT", "POST", "HEAD", "DELETE", "GET"}
    BY <1>1 DEF Exchanges
  <2> QED BY <1>5, <1>7, <1>8, <1>9, <1>10, <2>1 DEF AnswerInPlace
<1>12. SlotInPlace(c)'
  BY <1>3, <1>5, <1>11, Zenon DEF SlotInPlace
<1> QED BY <1>1, <1>12, OthersKeep DEF AInv, ExchangesInPlace

LEMMA WorkKeepsSlots ==
  ASSUME AInv, NEW c \in Calls, Work(c)
  PROVE  SlotsInPlace'
<1> DEFINE e == [http[c] EXCEPT !.effect = http[c].effect \/ TakesEffect(c)]
<1>1. http[c] \in Exchanges /\ http[c] # None /\ http[c].code = Pass
  BY DEF Work, Running, AInv, ExchangesInPlace
<1>2. http' = [http EXCEPT ![c] = e] /\ CallStep(c) /\ UNCHANGED req
  BY WorkIsCallStep, CallKeepsRequest DEF Work
<1>3. /\ e.route = http[c].route /\ e.key = http[c].key /\ e.cap = http[c].cap
      /\ e.fits = http[c].fits /\ e.gone = http[c].gone /\ e.code = http[c].code
      /\ e.effect = (http[c].effect \/ TakesEffect(c))
  BY <1>1 DEF Exchanges
<1> HIDE DEF e
<1>4. http'[c] = e
  BY <1>2 DEF AInv, ExchangesInPlace
<1>5. SlotInPlace(c) /\ IInv
  BY DEF AInv, SlotsInPlace
<1>6. ASSUME http[c].route \in {"PUT", "POST"} PROVE WriteInPlace(c)'
  <2>1. WriteInPlace(c)
    BY <1>1, <1>5, <1>6 DEF SlotInPlace
  <2>2. /\ sent'[c] <= http[c].cap
        /\ AbortStream(c) => ~(Size[req[c].payload] <= http[c].cap)
    BY <1>5, <2>1, WorkCounts DEF WriteInPlace
  <2>3. CASE /\ pc[c] = "place" /\ pc'[c] = "meta_stage"
             /\ res'[c].status = "stored"
    <3>1. e.effect
      BY <1>3, <2>3 DEF TakesEffect
    <3> QED BY <1>2, <1>3, <1>4, <2>1, <2>2, <2>3, <3>1 DEF WriteInPlace, LimitFor
  <2>4. CASE /\ UNCHANGED object
             /\ ~(pc[c] = "place" /\ pc'[c] = "meta_stage")
             /\ \/ res'[c].status = res[c].status
                \/ /\ res[c].status = "pending"
                   /\ res'[c].status \in {"exists", "insufficient_storage", "io_error"}
                \/ /\ AbortStream(c)
                   /\ res[c].status = "pending"
                   /\ res'[c].status = "aborted"
    <3>1. e.effect <=> http[c].effect
      BY <1>3, <2>4, Zenon DEF TakesEffect
    <3>2. e.effect <=> res'[c].status = "stored"
      BY <2>1, <2>4, <3>1 DEF WriteInPlace
    <3>3. res'[c].status = "aborted" => e.gone \/ ~e.fits
      BY <1>3, <2>1, <2>2, <2>4 DEF WriteInPlace
    <3>4. res'[c].status \in {"pending", "exists", "stored"} \cup PutFailures
      BY <2>1, <2>4 DEF WriteInPlace, PutFailures
    <3> QED BY <1>2, <1>3, <1>4, <2>1, <2>2, <3>2, <3>3, <3>4 DEF WriteInPlace, LimitFor
  <2> QED BY <1>2, <1>5, <2>1, <2>3, <2>4, PutStepEffect DEF WriteInPlace
<1>7. ASSUME http[c].route = "DELETE" PROVE RemovalInPlace(c)'
  BY <1>1, <1>2, <1>5, <1>7, DeleteStepStatus DEF SlotInPlace, RemovalInPlace
<1>8. ASSUME http[c].route \in {"HEAD", "GET"} PROVE LookupInPlace(c)'
  <2>1. LookupInPlace(c)
    BY <1>1, <1>5, <1>8 DEF SlotInPlace
  <2>2. /\ UNCHANGED object /\ pc[c] # "place"
        /\ res'[c].status \in {res[c].status, "found", "missing", "sent", "broken"}
    BY <1>2, <1>5, <2>1, LookupStepLooks DEF LookupInPlace
  <2>3. ~e.effect
    BY <1>3, <2>1, <2>2 DEF LookupInPlace, TakesEffect
  <2> QED BY <1>2, <1>4, <2>1, <2>2, <2>3 DEF LookupInPlace
<1>9. SlotInPlace(c)'
  BY <1>1, <1>3, <1>4, <1>6, <1>7, <1>8 DEF SlotInPlace
<1> QED BY <1>2, <1>9, OthersKeep DEF AInv, ExchangesInPlace

LEMMA DisconnectKeepsSlots ==
  ASSUME AInv, NEW c \in Calls, Disconnect(c)
  PROVE  SlotsInPlace'
<1> DEFINE e == [http[c] EXCEPT !.gone = TRUE]
<1>1. http[c] \in Exchanges /\ http[c] # None /\ http[c].code = Pass /\ http[c].route = "PUT"
  BY DEF Disconnect, Running, AInv, ExchangesInPlace
<1>2. http' = [http EXCEPT ![c] = e] /\ AbortStream(c) /\ CallStep(c)
  BY WorkIsCallStep DEF Disconnect
<1>3. /\ e.route = http[c].route /\ e.key = http[c].key /\ e.cap = http[c].cap
      /\ e.fits = http[c].fits /\ e.code = http[c].code /\ e.effect = http[c].effect
      /\ e.gone
  BY <1>1 DEF Exchanges
<1> HIDE DEF e
<1>4. http'[c] = e
  BY <1>2 DEF AInv, ExchangesInPlace
<1>5. UNCHANGED <<req, sent>> /\ res'[c].status = "aborted" /\ res[c].status = "pending"
  BY <1>2 DEF AbortStream, At, Report, Answer, AInv, IInv, TypeOK, AnswersInPlace, Pending
<1>6. WriteInPlace(c)
  BY <1>1 DEF AInv, SlotsInPlace, SlotInPlace
<1>7. ~e.effect
  BY <1>3, <1>5, <1>6 DEF WriteInPlace
<1>8. WriteInPlace(c)'
  BY <1>3, <1>4, <1>5, <1>6, <1>7 DEF WriteInPlace, LimitFor, PutFailures
<1>9. SlotInPlace(c)'
  BY <1>1, <1>3, <1>4, <1>8 DEF SlotInPlace
<1> QED BY <1>2, <1>9, OthersKeep DEF AInv, ExchangesInPlace

LEMMA BackgroundKeepsSlots ==
  ASSUME AInv, Background
  PROVE  SlotsInPlace'
<1>1. ASSUME NEW dead \in SUBSET Calls, Crash(dead),
             http' = [c \in Calls |-> IF c \in dead THEN None ELSE http[c]]
      PROVE  SlotsInPlace'
  <2>1. ASSUME NEW c \in Calls, c \in dead PROVE SlotInPlace(c)'
    BY <1>1, <2>1 DEF SlotInPlace
  <2>2. ASSUME NEW c \in Calls, c \notin dead PROVE SlotInPlace(c)'
    <3>1. UNCHANGED http[c] /\ UNCHANGED req[c] /\ UNCHANGED sent[c] /\ UNCHANGED res[c]
      BY <1>1, <2>2 DEF Crash
    <3> QED BY <3>1, SlotKeeps DEF AInv, SlotsInPlace
  <2> QED BY <2>1, <2>2 DEF SlotsInPlace
<1>2. CASE UNCHANGED <<http, req, sent, res>>
  BY <1>2, SlotKeeps DEF AInv, SlotsInPlace
<1> QED BY <1>1, <1>2 DEF Background, Restart, SweepUnlink, Age, SweepMark, locals

LEMMA SlotsStay ==
  ASSUME AInv, [ApiNext]_apiVars
  PROVE  SlotsInPlace'
<1>1. CASE UNCHANGED apiVars
  <2>1. UNCHANGED <<http, req, sent, res>>
    BY <1>1 DEF apiVars, vars, locals
  <2> QED BY <2>1, SlotKeeps DEF AInv, SlotsInPlace
<1>2. CASE Background
  BY <1>2, BackgroundKeepsSlots
<1>3. ASSUME NEW c \in Calls, Serve(c) PROVE SlotsInPlace'
  <2>1. ASSUME NEW r \in HttpRequests, Admit(c, r) PROVE SlotsInPlace'
    BY <2>1, WriteKeepsSlots, LookupKeepsSlots, RemovalKeepsSlots, HandOffKeepsSlots DEF Admit
  <2> QED BY <1>3, <2>1, RefuseKeepsSlots, WorkKeepsSlots, DisconnectKeepsSlots,
             RespondKeepsSlots, CloseKeepsSlots DEF Serve
<1> QED BY <1>1, <1>2, <1>3 DEF ApiNext

LEMMA SlotsInvariance == ApiSpec => []AInv
<1>1. ApiInit => SlotsInPlace
  BY DEF ApiInit, SlotsInPlace, SlotInPlace
<1>2. AInv /\ [ApiNext]_apiVars => SlotsInPlace'
  BY SlotsStay
<1>3. AInv <=> IInv /\ ExchangesInPlace /\ SlotsInPlace
  BY DEF AInv
<1> QED BY <1>1, <1>2, <1>3, ExchangesInvariance, ApiRunsDriver, Invariance, PTL DEF ApiSpec

\* Not one chunk above the cap of its request reaches the disk, whatever body a client
\* sends and whatever other callers may store under the key.
THEOREM StagingStaysWithinCap == ApiSpec => []StagingWithinCap
<1>1. ASSUME AInv, NEW c \in Calls, Running(c), tmp[c] # None, staging[tmp[c]] # None
      PROVE  staging[tmp[c]].len <= http[c].cap
  <2>1. pc[c] \in {"stream", "place", "cleanup"} /\ staging[tmp[c]] = Hashed(c)
    BY <1>1 DEF AInv, IInv, StagingInPlace
  <2>2. req[c].op = "put"
    BY <1>1, <2>1 DEF AInv, IInv, RequestsInPlace
  <2>3. http[c].route \in {"PUT", "POST", "HEAD", "DELETE", "GET"}
    BY <1>1 DEF AInv, ExchangesInPlace, Running, Exchanges
  <2>4. WriteInPlace(c)
    BY <1>1, <2>2, <2>3
       DEF AInv, SlotsInPlace, SlotInPlace, Running, RemovalInPlace, LookupInPlace
  <2>5. staging[tmp[c]].len = sent[c]
    BY <2>1 DEF Hashed
  <2> QED BY <2>4, <2>5 DEF WriteInPlace
<1>2. AInv => StagingWithinCap
  BY <1>1 DEF StagingWithinCap
<1> QED BY <1>2, SlotsInvariance, PTL

\* A client is told what was done: an upload is acknowledged if and only if the
\* object was replaced on its behalf, and after an error nothing has changed.
THEOREM AnswersMatchEffects == ApiSpec => []AnswerMatchesEffect
<1>1. AInv => AnswerMatchesEffect
  BY DEF AInv, SlotsInPlace, SlotInPlace, AnswerInPlace, AnswerMatchesEffect
<1> QED BY <1>1, SlotsInvariance, PTL

\* 413 is answered only to a body larger than its cap.
THEOREM FittingBodiesPass == ApiSpec => []FittingBodyNotRefused
<1>1. AInv => FittingBodyNotRefused
  BY DEF AInv, SlotsInPlace, SlotInPlace, AnswerInPlace, FittingBodyNotRefused, Pass
<1> QED BY <1>1, SlotsInvariance, PTL

\* No object is larger than the caps allow, also when its body declared no length: the
\* file that a put renames has as many chunks as were counted.
THEOREM CapsAreKept == ApiSpec => []CapsHold
<1>1. ApiInit => CapsHold
  BY DEF ApiInit, Init, CapsHold
<1>2. ASSUME AInv, CapsHold, [ApiNext]_apiVars, NEW k \in Keys, object'[k] # None
      PROVE  \E limit \in LimitFor(k) : object'[k].len <= limit
  <2>1. CASE object'[k] = object[k]
    BY <1>2, <2>1 DEF CapsHold
  <2>2. CASE object'[k] # object[k]
    <3>1. PICK c \in Calls : PlaceObject(c) \/ UnlinkObject(c)
      BY <1>2, <2>2, ApiStepIsDriverStep, ObjectChange
    <3>2. object \in [Keys -> Files \cup {None}]
      BY <1>2 DEF AInv, IInv, TypeOK
    <3>3. PlaceObject(c) /\ k = req[c].key /\ object'[k] = staging[tmp[c]]
      BY <1>2, <2>2, <3>1, <3>2 DEF PlaceObject, UnlinkObject
    <3>4. pc[c] = "place" /\ staging[tmp[c]] # None
      BY <3>3 DEF PlaceObject, At
    <3>5. object'[k].len = sent[c]
      <4>1. staging[tmp[c]] = Hashed(c)
        BY <1>2, <3>4 DEF AInv, IInv, StagingInPlace
      <4> QED BY <3>3, <4>1 DEF Hashed
    <3>6. req[c].op = "put" /\ req[c] # None
      BY <1>2, <3>4 DEF AInv, IInv, RequestsInPlace
    <3>7. Running(c) /\ http[c].key = k
      BY <1>2, <3>3, <3>6 DEF AInv, ExchangesInPlace, ExchangeInPlace
    <3>8. http[c].route \in {"PUT", "POST", "HEAD", "DELETE", "GET"}
      BY <1>2, <3>7 DEF AInv, ExchangesInPlace, Running, Exchanges
    <3>9. WriteInPlace(c)
      BY <1>2, <3>6, <3>7, <3>8
         DEF AInv, SlotsInPlace, SlotInPlace, Running, RemovalInPlace, LookupInPlace
    <3> QED BY <3>5, <3>7, <3>9 DEF WriteInPlace
  <2> QED BY <2>1, <2>2
<1>3. AInv /\ CapsHold /\ [ApiNext]_apiVars => CapsHold'
  BY <1>2 DEF CapsHold, LimitFor
<1> QED BY <1>1, <1>3, SlotsInvariance, PTL DEF ApiSpec

-----------------------------------------------------------------------------
(* An acknowledged upload stays stored.                                    *)

Writing(c) == Running(c) /\ http[c].route \in {"PUT", "POST"}
Removing(c) == Running(c) /\ http[c].route = "DELETE"

\* A delete under way has withdrawn the acknowledgement of its key and is known to
\* every upload to it.
DeletesSeen ==
  \A c \in Calls : Removing(c) =>
    /\ http[c].key \notin acked
    /\ \A d \in Calls : Writing(d) /\ http[d].key = http[c].key => http[d].clash

\* What an upload has put in place, and no delete has touched, is there.
StoredStays ==
  \A c \in Calls : Writing(c) /\ res[c].status = "stored" /\ ~http[c].clash =>
    object[http[c].key] # None

SInv ==
  /\ acked \in SUBSET Keys
  /\ AckedIsStored
  /\ DeletesSeen
  /\ StoredStays

\* The key of an upload that is in place.
LEMMA StoredKey ==
  ASSUME AInv, NEW c \in Calls, Running(c), res[c].status # "pending"
  PROVE  req[c].key = http[c].key /\ http[c].key \in Keys
<1>1. pc[c] # "idle"
  BY DEF AInv, IInv, AnswersInPlace, Pending
<1>2. req[c] # None /\ req[c].key \in Keys
  BY <1>1, CallFacts DEF AInv, IInv, RequestsInPlace
<1> QED BY <1>2 DEF AInv, ExchangesInPlace, ExchangeInPlace

\* A step that changes neither objects nor acknowledgements, starts no write or
\* delete, and puts nothing in place.
LEMMA StoredQuietly ==
  ASSUME SInv, UNCHANGED <<object, acked>>,
         \A d \in Calls :
           /\ Removing(d)' => Removing(d) /\ http'[d].key = http[d].key
           /\ Writing(d)' =>
                /\ Writing(d)
                /\ http'[d].key = http[d].key
                /\ http'[d].clash = http[d].clash
                /\ res'[d].status = "stored" => res[d].status = "stored"
  PROVE  SInv'
<1>1. AckedIsStored'
  BY DEF SInv, AckedIsStored
<1>2. DeletesSeen'
  BY DEF SInv, DeletesSeen
<1>3. StoredStays'
  BY DEF SInv, StoredStays
<1> QED BY <1>1, <1>2, <1>3 DEF SInv

\* A slot that opens for neither a write nor a delete, or closes, or answers.
LEMMA StoredBeside ==
  ASSUME AInv, SInv, NEW c \in Calls, UNCHANGED <<object, acked>>,
         StartCall(c) \/ CallStep(c) \/ Return(c) \/ UNCHANGED vars,
         \A d \in Calls : d # c => http'[d] = http[d],
         ~Writing(c)' /\ ~Removing(c)'
  PROVE  SInv'
<1>1. ASSUME NEW d \in Calls, d # c
      PROVE  res'[d] = res[d] /\ (Removing(d)' => Removing(d)) /\ (Writing(d)' => Writing(d))
  <2>1. res'[d] = res[d]
    BY <1>1, OthersStay DEF AInv, vars, locals
  <2> QED BY <1>1, <2>1 DEF Writing, Removing, Running
<1> QED BY <1>1, StoredQuietly

LEMMA StoredWrite ==
  ASSUME AInv, SInv, NEW c \in Calls, NEW r \in HttpRequests, Admit(c, r), StartWrite(c, r)
  PROVE  SInv'
<1> DEFINE opened == Open(r, Cap(r), Fits(r), Pass)
           seen == [opened EXCEPT !.clash = DeleteUnderWay(r.key)]
<1>1. UNCHANGED <<object, acked, res>> /\ pc[c] = "idle"
  BY DEF StartWrite, StartPut, Start, At, files
<1>2. http' = [http EXCEPT ![c] = seen]
  BY DEF StartWrite
<1>3. seen.key = r.key /\ seen.route \in {"PUT", "POST"} /\ seen.clash = DeleteUnderWay(r.key)
  BY DEF StartWrite, Open
<1> HIDE DEF seen
<1>4. http'[c] = seen /\ \A d \in Calls : d # c => http'[d] = http[d]
  BY <1>2 DEF AInv, ExchangesInPlace
<1>5. AckedIsStored'
  BY <1>1 DEF SInv, AckedIsStored
<1>6. ASSUME NEW d \in Calls, Removing(d)'
      PROVE  /\ http'[d].key \notin acked'
             /\ \A w \in Calls : Writing(w)' /\ http'[w].key = http'[d].key => http'[w].clash
  <2>1. d # c
    BY <1>3, <1>4, <1>6 DEF Removing
  <2>2. Removing(d) /\ http'[d] = http[d]
    BY <1>4, <1>6, <2>1 DEF Removing, Running
  <2>3. ASSUME NEW w \in Calls, Writing(w)', http'[w].key = http'[d].key
        PROVE  http'[w].clash
    <3>1. CASE w = c
      <4>1. DeleteUnderWay(r.key)
        BY <1>3, <1>4, <2>2, <2>3, <3>1 DEF DeleteUnderWay, Removing
      <4> QED BY <1>3, <1>4, <3>1, <4>1
    <3>2. CASE w # c
      <4>1. Writing(w) /\ http'[w] = http[w]
        BY <1>4, <2>3, <3>2 DEF Writing, Running
      <4> QED BY <2>2, <2>3, <4>1 DEF SInv, DeletesSeen
    <3> QED BY <3>1, <3>2
  <2> QED BY <1>1, <2>2, <2>3 DEF SInv, DeletesSeen
<1>7. ASSUME NEW d \in Calls, Writing(d)', res'[d].status = "stored", ~http'[d].clash
      PROVE  object'[http'[d].key] # None
  <2>1. d # c
    BY <1>1, <1>7 DEF AInv, IInv, AnswersInPlace, Pending
  <2>2. Writing(d) /\ http'[d] = http[d]
    BY <1>4, <1>7, <2>1 DEF Writing, Running
  <2> QED BY <1>1, <1>7, <2>2 DEF SInv, StoredStays
<1>8. DeletesSeen'
  BY <1>6 DEF DeletesSeen
<1>9. StoredStays'
  BY <1>7 DEF StoredStays
<1> QED BY <1>1, <1>5, <1>8, <1>9 DEF SInv

LEMMA StoredRemoval ==
  ASSUME AInv, SInv, NEW c \in Calls, NEW r \in HttpRequests, Admit(c, r), StartRemoval(c, r)
  PROVE  SInv'
<1> DEFINE seen == Open(r, 0, TRUE, Pass)
<1>1. UNCHANGED <<object, res>> /\ acked' = acked \ {r.key}
  BY DEF StartRemoval, StartDelete, Start, files
<1>2. http'[c] = seen /\ seen.key = r.key /\ seen.route = "DELETE"
  BY DEF StartRemoval, Open
<1> HIDE DEF seen
<1>3. ASSUME NEW d \in Calls, d # c
      PROVE  \/ http'[d] = http[d] /\ ~(Writing(d) /\ http[d].key = r.key)
             \/ /\ Writing(d) /\ http[d].key = r.key
                /\ http'[d] = [http[d] EXCEPT !.clash = TRUE]
  BY <1>3 DEF StartRemoval, Writing
<1>4. ASSUME NEW d \in Calls, d # c
      PROVE  /\ http'[d] # None => http[d] # None
             /\ Running(d)' => Running(d)
             /\ Running(d)' => http'[d].route = http[d].route /\ http'[d].key = http[d].key
             /\ Writing(d)' => Writing(d)
             /\ Removing(d)' => Removing(d)
             /\ Writing(d)' => \/ http'[d].clash
                               \/ http'[d] = http[d] /\ http[d].key # r.key
  <2>1. CASE http'[d] = http[d] /\ ~(Writing(d) /\ http[d].key = r.key)
    BY <2>1 DEF Writing, Removing, Running
  <2>2. CASE /\ Writing(d) /\ http[d].key = r.key
             /\ http'[d] = [http[d] EXCEPT !.clash = TRUE]
    <3>1. http[d] \in Exchanges /\ http[d] # None
      BY <2>2 DEF Writing, Running, AInv, ExchangesInPlace
    <3>2. /\ http'[d].route = http[d].route /\ http'[d].key = http[d].key
          /\ http'[d].code = http[d].code /\ http'[d].clash
      BY <2>2, <3>1 DEF Exchanges
    <3> QED BY <2>2, <3>1, <3>2 DEF Writing, Removing, Running
  <2> QED BY <1>3, <1>4, <2>1, <2>2
<1>5. AckedIsStored'
  BY <1>1 DEF SInv, AckedIsStored
<1>6. ASSUME NEW d \in Calls, Removing(d)'
      PROVE  /\ http'[d].key \notin acked'
             /\ \A w \in Calls : Writing(w)' /\ http'[w].key = http'[d].key => http'[w].clash
  <2>1. ASSUME NEW w \in Calls, Writing(w)' PROVE w # c
    BY <1>2, <2>1 DEF Writing
  <2>2. CASE d = c
    BY <1>1, <1>2, <1>4, <2>1, <2>2
  <2>3. CASE d # c
    <3>1. Removing(d) /\ http'[d].key = http[d].key
      BY <1>4, <1>6, <2>3 DEF Removing
    <3>2. http'[d].key \notin acked'
      BY <1>1, <3>1 DEF SInv, DeletesSeen
    <3>3. ASSUME NEW w \in Calls, Writing(w)', http'[w].key = http'[d].key
          PROVE  http'[w].clash
      <4>1. Writing(w) /\ http'[w].key = http[w].key
        BY <1>4, <2>1, <3>3 DEF Writing
      <4>2. http[w].clash
        BY <3>1, <3>3, <4>1 DEF SInv, DeletesSeen
      <4> QED BY <1>4, <2>1, <3>3, <4>2
    <3> QED BY <3>2, <3>3
  <2> QED BY <2>2, <2>3
<1>7. ASSUME NEW d \in Calls, Writing(d)', res'[d].status = "stored", ~http'[d].clash
      PROVE  object'[http'[d].key] # None
  <2>1. d # c
    BY <1>2, <1>7 DEF Writing
  <2>2. Writing(d) /\ http'[d] = http[d]
    BY <1>4, <1>7, <2>1
  <2> QED BY <1>1, <1>7, <2>2 DEF SInv, StoredStays
<1>8. DeletesSeen'
  BY <1>6 DEF DeletesSeen
<1>9. StoredStays'
  BY <1>7 DEF StoredStays
<1> QED BY <1>1, <1>5, <1>8, <1>9 DEF SInv

LEMMA StoredRespond ==
  ASSUME AInv, SInv, NEW c \in Calls, Respond(c)
  PROVE  SInv'
<1>1. /\ Running(c) /\ Return(c) /\ UNCHANGED object
      /\ http' = [http EXCEPT ![c].code = Code(c)]
      /\ acked' = IF res[c].status = "stored" /\ ~http[c].clash
                  THEN acked \cup {http[c].key} ELSE acked
  BY DEF Respond, Return, files
<1>2. ~Running(c)'
  <2>1. http[c] \in Exchanges
    BY <1>1 DEF Running, AInv, ExchangesInPlace
  <2>2. res[c].status # "pending"
    BY <1>1 DEF Return, At, AInv, IInv, AnswersInPlace
  <2>3. Code(c) # Pass
    BY <2>2, CodeIsCode DEF AInv, IInv
  <2>4. http'[c].code = Code(c)
    BY <1>1, <2>1 DEF AInv, ExchangesInPlace, Exchanges
  <2> QED BY <2>3, <2>4 DEF Running
<1>3. ASSUME NEW d \in Calls, d # c PROVE http'[d] = http[d] /\ res'[d] = res[d]
  BY <1>1, <1>3, OthersStay DEF AInv, ExchangesInPlace
<1>4. CASE ~(res[c].status = "stored" /\ ~http[c].clash)
  BY <1>1, <1>2, <1>3, <1>4, StoredBeside DEF Writing, Removing
<1>5. CASE res[c].status = "stored" /\ ~http[c].clash
  <2>1. Writing(c)
    <3>1. http[c].route \in {"PUT", "POST", "HEAD", "DELETE", "GET"}
      BY <1>1 DEF Running, AInv, ExchangesInPlace, Exchanges
    <3> QED BY <1>1, <1>5, <3>1 DEF AInv, SlotsInPlace, SlotInPlace, Running, RemovalInPlace,
            LookupInPlace, Writing
  <2>2. object[http[c].key] # None
    BY <1>5, <2>1 DEF SInv, StoredStays
  <2>3. acked' = acked \cup {http[c].key}
    BY <1>1, <1>5
  <2>4. AckedIsStored'
    BY <1>1, <2>2, <2>3 DEF SInv, AckedIsStored
  <2>5. ASSUME NEW d \in Calls, Writing(d)' \/ Removing(d)'
        PROVE  d # c /\ http'[d] = http[d] /\ res'[d] = res[d]
    BY <1>2, <1>3, <2>5 DEF Writing, Removing
  <2>6. ASSUME NEW d \in Calls
        PROVE  (Writing(d)' => Writing(d)) /\ (Removing(d)' => Removing(d))
    BY <2>5 DEF Writing, Removing, Running
  <2>7. DeletesSeen'
    <3>1. ASSUME NEW d \in Calls, Removing(d)' PROVE http'[d].key \notin acked'
      <4>1. Removing(d) /\ http'[d] = http[d]
        BY <2>5, <2>6, <3>1
      <4>2. http[d].key # http[c].key
        BY <1>5, <2>1, <4>1 DEF SInv, DeletesSeen
      <4> QED BY <2>3, <4>1, <4>2 DEF SInv, DeletesSeen
    <3>2. ASSUME NEW d \in Calls, Removing(d)', NEW w \in Calls, Writing(w)',
                 http'[w].key = http'[d].key
          PROVE  http'[w].clash
      BY <2>5, <2>6, <3>2 DEF SInv, DeletesSeen
    <3> QED BY <3>1, <3>2 DEF DeletesSeen
  <2>8. StoredStays'
    BY <1>1, <2>5, <2>6 DEF SInv, StoredStays
  <2>9. acked' \in SUBSET Keys
    BY <1>1, <1>5, <2>3, StoredKey DEF SInv
  <2> QED BY <2>4, <2>7, <2>8, <2>9 DEF SInv
<1> QED BY <1>4, <1>5

LEMMA StoredWork ==
  ASSUME AInv, SInv, NEW c \in Calls, Work(c) \/ Disconnect(c)
  PROVE  SInv'
<1>1. /\ Running(c) /\ CallStep(c) /\ UNCHANGED <<req, acked>>
      /\ http[c] \in Exchanges
      /\ \/ http' = [http EXCEPT ![c].effect = http[c].effect \/ TakesEffect(c)]
         \/ http' = [http EXCEPT ![c].gone = TRUE]
  BY WorkIsCallStep, CallKeepsRequest DEF Work, Disconnect, Running, AInv, ExchangesInPlace
<1>2. /\ http'[c].route = http[c].route /\ http'[c].key = http[c].key
      /\ http'[c].code = http[c].code /\ http'[c].clash = http[c].clash
  BY <1>1 DEF AInv, ExchangesInPlace, Exchanges
<1>3. ASSUME NEW d \in Calls, d # c PROVE http'[d] = http[d] /\ res'[d] = res[d]
  BY <1>1, <1>3, OthersStay DEF AInv, ExchangesInPlace
<1>4. ASSUME NEW d \in Calls
      PROVE  /\ Removing(d)' => Removing(d)
             /\ Writing(d)' => Writing(d)
             /\ Writing(d)' \/ Removing(d)' =>
                  http'[d].key = http[d].key /\ http'[d].clash = http[d].clash
  BY <1>1, <1>2, <1>3 DEF Removing, Writing, Running
<1>5. DeletesSeen'
  BY <1>1, <1>4 DEF SInv, DeletesSeen
<1>6. object \in [Keys -> Files \cup {None}] /\ acked \in SUBSET Keys
  BY DEF AInv, IInv, TypeOK, SInv
<1>7. CASE PlaceObject(c)
  <2>1. pc[c] = "place" /\ req[c].key = http[c].key /\ http[c].key \in Keys
    <3>1. pc[c] = "place"
      BY <1>7 DEF PlaceObject, At
    <3>2. req[c] # None /\ req[c].key \in Keys
      BY <3>1, CallFacts DEF AInv, IInv, RequestsInPlace
    <3> QED BY <3>1, <3>2 DEF AInv, ExchangesInPlace, ExchangeInPlace
  <2>2. object' = [object EXCEPT ![http[c].key] = staging[tmp[c]]] /\ staging[tmp[c]] # None
    BY <1>7, <2>1 DEF PlaceObject
  <2>3. ASSUME NEW k \in Keys, object[k] # None \/ k = http[c].key PROVE object'[k] # None
    BY <1>6, <2>2, <2>3
  <2>4. AckedIsStored'
    BY <1>1, <1>6, <2>3 DEF SInv, AckedIsStored
  <2>5. ASSUME NEW d \in Calls, Writing(d)', res'[d].status = "stored", ~http'[d].clash
        PROVE  object'[http'[d].key] # None
    <3>1. CASE d = c
      BY <1>2, <2>1, <2>3, <3>1
    <3>2. CASE d # c
      <4>1. Writing(d) /\ http'[d] = http[d] /\ res[d].status = "stored"
        BY <1>3, <1>4, <2>5, <3>2
      <4>2. http[d].key \in Keys
        BY <4>1, StoredKey DEF Writing
      <4> QED BY <2>3, <2>5, <4>1, <4>2 DEF SInv, StoredStays
    <3> QED BY <3>1, <3>2
  <2>6. StoredStays'
    BY <2>5 DEF StoredStays
  <2> QED BY <1>1, <1>5, <1>6, <2>4, <2>6 DEF SInv
<1>8. CASE UnlinkObject(c)
  <2>1. pc[c] = "unlink" /\ req[c].op = "delete" /\ req[c] # None /\ req[c].key \in Keys
    <3>1. pc[c] = "unlink"
      BY <1>8 DEF UnlinkObject, At
    <3> QED BY <3>1, CallFacts DEF AInv, IInv, RequestsInPlace
  <2>2. req[c].key = http[c].key /\ Removing(c)
    <3>1. req[c].key = http[c].key /\ http[c].route \in {"PUT", "POST", "DELETE"}
      BY <2>1 DEF AInv, ExchangesInPlace, ExchangeInPlace
    <3> QED BY <1>1, <2>1, <3>1
            DEF AInv, SlotsInPlace, SlotInPlace, Running, WriteInPlace, Removing
  <2>3. ASSUME NEW k \in Keys, k # http[c].key, object[k] # None PROVE object'[k] # None
    BY <1>6, <1>8, <2>2, <2>3 DEF UnlinkObject
  <2>4. http[c].key \notin acked
    BY <2>2 DEF SInv, DeletesSeen
  <2>5. AckedIsStored'
    BY <1>1, <1>6, <2>3, <2>4 DEF SInv, AckedIsStored
  <2>6. ASSUME NEW d \in Calls, Writing(d)', res'[d].status = "stored", ~http'[d].clash
        PROVE  object'[http'[d].key] # None
    <3>1. d # c
      BY <1>4, <2>2, <2>6 DEF Writing, Removing
    <3>2. Writing(d) /\ http'[d] = http[d] /\ res[d].status = "stored"
      BY <1>3, <1>4, <2>6, <3>1
    <3>3. http[d].key \in Keys
      BY <3>2, StoredKey DEF Writing
    <3>4. http[d].key # http[c].key
      BY <2>2, <2>6, <3>2 DEF SInv, DeletesSeen
    <3> QED BY <2>3, <2>6, <3>2, <3>3, <3>4 DEF SInv, StoredStays
  <2>7. StoredStays'
    BY <2>6 DEF StoredStays
  <2> QED BY <1>1, <1>5, <1>6, <2>5, <2>7 DEF SInv
<1>9. CASE ~PlaceObject(c) /\ ~UnlinkObject(c)
  <2>1. UNCHANGED object
    BY <1>1, <1>9 DEF CallStep, PutStep, HeadStep, GetStep, DeleteStep, CheckExists,
       OpenStaging, WriteChunk, AbortStream, SyncStaging, FailPut, UnlinkStaging,
       StageSidecar, CommitSidecar, Stat, ReadSidecar, Rehash, CheckFile, OpenRead,
       UnlinkSidecar, files
  <2>2. ASSUME Writing(c)', res'[c].status = "stored" PROVE res[c].status = "stored"
    <3>1. WriteInPlace(c)
      BY <1>4, <2>2 DEF Writing, Running, AInv, SlotsInPlace, SlotInPlace
    <3> QED BY <1>1, <1>9, <2>2, <3>1, PutStepEffect DEF AInv, WriteInPlace
  <2> QED BY <1>1, <1>3, <1>4, <2>1, <2>2, StoredQuietly
<1> QED BY <1>7, <1>8, <1>9

LEMMA StoredBackground ==
  ASSUME AInv, SInv, Background
  PROVE  SInv'
<1>1. UNCHANGED <<object, acked>>
  BY DEF Background, Crash, Restart, SweepUnlink, Age, SweepMark, files
<1>2. ASSUME NEW dead \in SUBSET Calls, Crash(dead),
             http' = [c \in Calls |-> IF c \in dead THEN None ELSE http[c]],
             NEW d \in Calls, Writing(d)' \/ Removing(d)'
      PROVE  http'[d] = http[d] /\ res'[d] = res[d]
  <2>1. d \notin dead
    BY <1>2 DEF Writing, Removing, Running
  <2> QED BY <1>2, <2>1 DEF Crash
<1>3. ASSUME NEW d \in Calls, Writing(d)' \/ Removing(d)'
      PROVE  http'[d] = http[d] /\ res'[d] = res[d]
  BY <1>2, <1>3 DEF Background, Restart, SweepUnlink, Age, SweepMark, locals
<1>4. ASSUME NEW d \in Calls
      PROVE  /\ Removing(d)' => Removing(d) /\ http'[d].key = http[d].key
             /\ Writing(d)' =>
                  /\ Writing(d)
                  /\ http'[d].key = http[d].key
                  /\ http'[d].clash = http[d].clash
                  /\ res'[d].status = "stored" => res[d].status = "stored"
  BY <1>3 DEF Writing, Removing, Running
<1> QED BY <1>1, <1>4, StoredQuietly

LEMMA StoredStep ==
  ASSUME AInv, SInv, [ApiNext]_apiVars
  PROVE  SInv'
<1>1. CASE UNCHANGED apiVars
  <2>1. UNCHANGED <<object, acked, http, res>>
    BY <1>1 DEF apiVars, vars, files, locals
  <2> QED BY <2>1, StoredQuietly DEF Writing, Removing, Running
<1>2. ASSUME NEW c \in Calls, Serve(c) PROVE SInv'
  <2>1. ASSUME NEW r \in HttpRequests, Refuse(c, r) PROVE SInv'
    <3>1. ~Running(c)'
      BY <2>1 DEF Refuse, Open, Running, AInv, ExchangesInPlace
    <3>2. UNCHANGED <<object, acked>> /\ \A d \in Calls : d # c => http'[d] = http[d]
      BY <2>1 DEF Refuse, vars, files, AInv, ExchangesInPlace
    <3> QED BY <2>1, <3>1, <3>2, StoredBeside DEF Refuse, Writing, Removing
  <2>2. ASSUME NEW r \in HttpRequests, Admit(c, r), StartLookup(c, r) PROVE SInv'
    <3>1. http' = [http EXCEPT ![c] = Open(r, 0, TRUE, Pass)] /\ r.route \in {"HEAD", "GET"}
      BY <2>2 DEF StartLookup
    <3>2. Open(r, 0, TRUE, Pass).route \in {"HEAD", "GET"}
      BY <3>1 DEF Open
    <3>3. ~Writing(c)' /\ ~Removing(c)' /\ \A d \in Calls : d # c => http'[d] = http[d]
      BY <3>1, <3>2 DEF Writing, Removing, AInv, ExchangesInPlace
    <3>4. UNCHANGED <<object, acked>>
      BY <2>2 DEF StartLookup, StartHead, StartGet, Start, files
    <3> QED BY <2>2, <3>3, <3>4, AdmitIsStart, StoredBeside
  <2>3. ASSUME NEW r \in HttpRequests, HandOff(c, r) PROVE SInv'
    <3>1. http' = [http EXCEPT ![c] = Open(r, 0, TRUE, 200)]
      BY <2>3 DEF HandOff
    <3>2. Open(r, 0, TRUE, 200).code # Pass
      BY DEF Open, Pass
    <3>3. ~Running(c)' /\ \A d \in Calls : d # c => http'[d] = http[d]
      BY <3>1, <3>2 DEF Running, AInv, ExchangesInPlace
    <3>4. UNCHANGED <<object, acked>>
      BY <2>3 DEF HandOff, vars, files
    <3> QED BY <2>3, <3>3, <3>4, StoredBeside DEF HandOff, Writing, Removing
  <2>4. CASE Close(c)
    <3>1. ~Running(c)' /\ \A d \in Calls : d # c => http'[d] = http[d]
      BY <2>4 DEF Close, Running, AInv, ExchangesInPlace
    <3>2. UNCHANGED <<object, acked>>
      BY <2>4 DEF Close, vars, files
    <3> QED BY <2>4, <3>1, <3>2, StoredBeside DEF Close, Writing, Removing
  <2>5. ASSUME NEW r \in HttpRequests, Admit(c, r) PROVE SInv'
    BY <2>2, <2>3, <2>5, StoredWrite, StoredRemoval DEF Admit
  <2> QED BY <1>2, <2>1, <2>4, <2>5, StoredWork, StoredRespond DEF Serve
<1> QED BY <1>1, <1>2, StoredBackground DEF ApiNext

LEMMA StoredInvariance == ApiSpec => []SInv
<1>1. ApiInit => SInv
  BY DEF ApiInit, SInv, AckedIsStored, DeletesSeen, StoredStays, Writing, Removing, Running
<1>2. AInv /\ SInv /\ [ApiNext]_apiVars => SInv'
  BY StoredStep
<1> QED BY <1>1, <1>2, SlotsInvariance, PTL DEF ApiSpec

\* An upload that was acknowledged, and that no delete overlapped, stays stored until
\* somebody asks for its deletion: whatever else is uploaded, refused, cut off, swept
\* or killed, for any number of clients, workers and crashes.
THEOREM AckedStaysStored == ApiSpec => []AckedIsStored
<1>1. SInv => AckedIsStored
  BY DEF SInv
<1> QED BY <1>1, StoredInvariance, PTL

\* Type correctness of the service.
THEOREM ApiTypeCorrect == ApiSpec => []ApiTypeOK
<1>1. AInv /\ SInv => ApiTypeOK
  BY DEF AInv, IInv, ExchangesInPlace, SInv, ApiTypeOK
<1> QED BY <1>1, SlotsInvariance, StoredInvariance, PTL
=============================================================================
