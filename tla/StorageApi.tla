----------------------------- MODULE StorageApi -----------------------------
(***************************************************************************)
(* The HTTP surface over the driver: the handlers of /api/storage/objects, *)
(* /api/storage/uploads and /files-signed, with their authentication, key  *)
(* grammar, prefix policy, size caps, and the mapping of driver errors to  *)
(* status codes.  A handler that passes its gates runs a driver call in    *)
(* the same slot; the body of a PUT arrives chunk by chunk and is counted. *)
(***************************************************************************)
EXTENDS LocalFsDriver

CONSTANTS
  Malformed,     \* keys the grammar refuses to everyone, and keys of unknown buckets
  AtKeys,        \* keys with "@" in a segment: renditions, for services only
  ServiceOnly,   \* keys under STORAGE_SERVICE_ONLY_PREFIXES
  ServiceCap,    \* [Keys -> Nat]: resolve_s2s_cap, in chunks
  Mimes,         \* content types
  DevStream,     \* STORAGE_SIGNED_GET_DEV_STREAM
  MimeCap        \* [Mimes -> Nat \cup {None}]: resolve_user_cap, None if not listed

ASSUME KeySetsAssumption ==
  /\ Malformed \cap Keys = {}
  /\ AtKeys \subseteq Keys
  /\ ServiceOnly \subseteq Keys
ASSUME CapsAssumption ==
  /\ ServiceCap \in [Keys -> Nat]
  /\ MimeCap \in [Mimes -> Nat \cup {None}]
  /\ None \notin Mimes \cup Nat
ASSUME DevStreamAssumption == DevStream \in BOOLEAN

VARIABLES
  http,          \* [Calls -> Exchanges \cup {None}]: the exchange each slot serves
  acked          \* keys with an acknowledged upload and no delete asked since it began

apiVars == <<vars, http, acked>>

\* apiKey: X-API-Key is a configured key.  bearer: the token verifies.  signed: exp
\* and sig verify.  declared: the size is known before the body is read, from
\* Content-Length for a PUT and from the parsed form for an upload.
HttpRequests ==
  [route: {"PUT"}, apiKey: BOOLEAN, bearer: BOOLEAN, key: Keys \cup Malformed,
   payload: Payloads, upsert: BOOLEAN, mime: Mimes \cup {None}, declared: BOOLEAN,
   signed: {FALSE}]
  \cup
  [route: {"POST"}, apiKey: BOOLEAN, bearer: BOOLEAN, key: Keys \cup Malformed,
   payload: Payloads, upsert: {TRUE}, mime: Mimes \cup {None}, declared: {TRUE},
   signed: {FALSE}]
  \cup
  [route: {"HEAD", "DELETE"}, apiKey: BOOLEAN, bearer: BOOLEAN, key: Keys \cup Malformed,
   payload: {None}, upsert: {FALSE}, mime: {None}, declared: {FALSE}, signed: {FALSE}]
  \cup
  [route: {"GET"}, apiKey: {FALSE}, bearer: {FALSE}, key: Keys \cup Malformed,
   payload: {None}, upsert: {FALSE}, mime: {None}, declared: {FALSE}, signed: BOOLEAN]

Pass == 0        \* no status yet: the gates are open, the handler is running

Statuscodes == {Pass, 200, 201, 400, 401, 403, 404, 409, 413, 415, 500, 507}

\* What is remembered of a request, the limit of its body and whether the body is
\* within it, whether the client left, and the status answered.  Two more fields
\* serve the properties: the object was changed on behalf of the request (effect), a
\* delete of its key ran while it did (clash).
Exchanges == [route: {"PUT", "POST", "HEAD", "DELETE", "GET"}, apiKey: BOOLEAN,
              key: Keys \cup Malformed, cap: Nat, fits: BOOLEAN, gone: BOOLEAN,
              effect: BOOLEAN, clash: BOOLEAN, code: Statuscodes]

ASSUME ExchangeAssumption == None \notin Exchanges

-----------------------------------------------------------------------------
(* The gates of a handler, in their order.                                 *)

RequireApiKey(r) == IF r.apiKey THEN "service" ELSE None
RequireUserJwt(r) == IF r.bearer THEN "user" ELSE None

\* Mutant of RequireEither: a valid token counts like a key.
RequireEitherLax(r) == IF r.apiKey \/ r.bearer THEN "service" ELSE None

\* A key that does not match falls through to the token.
RequireEither(r) == IF r.apiKey THEN "service" ELSE RequireUserJwt(r)

\* Who calls, or None.  A signed URL speaks for itself.
Principal(r) ==
  CASE r.route \in {"PUT", "HEAD"} -> RequireApiKey(r)
    [] r.route = "POST" -> RequireUserJwt(r)
    [] r.route = "DELETE" -> RequireEither(r)
    [] OTHER -> "anyone"

\* The key grammar; "@" passes for services only (allow_at).
WellFormed(r) == r.key \in Keys /\ (r.key \in AtKeys => Principal(r) = "service")

\* The cap of the key for services, of the content type for users.
Cap(r) == IF r.route = "PUT" THEN ServiceCap[r.key] ELSE MimeCap[r.mime]

Fits(r) == Size[r.payload] <= Cap(r)

\* The declared length only; bodies that do not say are left to the counter.
PutGate(r) ==
  IF r.mime = None THEN 400 ELSE IF r.declared /\ ~Fits(r) THEN 413 ELSE Pass

\* Prefix, content type, size.
UploadGate(r) ==
  IF r.key \in ServiceOnly THEN 403
  ELSE IF r.mime = None \/ MimeCap[r.mime] = None THEN 415
  ELSE IF r.declared /\ ~Fits(r) THEN 413
  ELSE Pass

RemovalGate(r) == IF Principal(r) = "user" /\ r.key \in ServiceOnly THEN 403 ELSE Pass

\* The status of the first gate that is shut, or Pass.
Refusal(r) ==
  IF Principal(r) = None THEN 401
  ELSE IF ~WellFormed(r) THEN 400
  ELSE CASE r.route = "PUT" -> PutGate(r)
         [] r.route = "POST" -> UploadGate(r)
         [] r.route = "DELETE" -> RemovalGate(r)
         [] r.route = "GET" -> IF r.signed THEN Pass ELSE 403
         [] r.route = "HEAD" -> Pass

-----------------------------------------------------------------------------
ApiInit ==
  /\ Init
  /\ http = [c \in Calls |-> None]
  /\ acked = {}

Free(c) == up /\ http[c] = None
Running(c) == http[c] # None /\ http[c].code = Pass

DeleteUnderWay(k) == \E c \in Calls : Running(c) /\ http[c].route = "DELETE" /\ http[c].key = k

Open(r, cap, fits, code) ==
  [route |-> r.route, apiKey |-> r.apiKey, key |-> r.key, cap |-> cap, fits |-> fits,
   gone |-> FALSE, effect |-> FALSE, clash |-> FALSE, code |-> code]

Refuse(c, r) ==
  /\ Free(c)
  /\ Refusal(r) # Pass
  /\ http' = [http EXCEPT ![c] = Open(r, 0, Refusal(r) = 413 => Fits(r), Refusal(r))]
  /\ UNCHANGED <<vars, acked>>

\* A PUT asks the driver for if_none_match unless upsert is set; an upload never does.
StartWrite(c, r) ==
  /\ r.route \in {"PUT", "POST"}
  /\ StartPut(c, r.key, r.payload, ~r.upsert)
  /\ http' = [http EXCEPT ![c] = [Open(r, Cap(r), Fits(r), Pass) EXCEPT
                                    !.clash = DeleteUnderWay(r.key)]]
  /\ UNCHANGED acked

StartLookup(c, r) ==
  /\ \/ r.route = "HEAD" /\ StartHead(c, r.key)
     \/ r.route = "GET" /\ DevStream /\ StartGet(c, r.key)
  /\ http' = [http EXCEPT ![c] = Open(r, 0, TRUE, Pass)]
  /\ UNCHANGED acked

\* In production a signed GET is answered at once: nginx sends the file.
HandOff(c, r) ==
  /\ r.route = "GET"
  /\ ~DevStream
  /\ http' = [http EXCEPT ![c] = Open(r, 0, TRUE, 200)]
  /\ UNCHANGED <<vars, acked>>

StartRemoval(c, r) ==
  /\ r.route = "DELETE"
  /\ StartDelete(c, r.key)
  /\ http' = [d \in Calls |->
       IF d = c THEN Open(r, 0, TRUE, Pass)
       ELSE IF Running(d) /\ http[d].route \in {"PUT", "POST"} /\ http[d].key = r.key
       THEN [http[d] EXCEPT !.clash = TRUE]
       ELSE http[d]]
  /\ acked' = acked \ {r.key}

Admit(c, r) ==
  /\ Free(c)
  /\ Refusal(r) = Pass
  /\ StartWrite(c, r) \/ StartLookup(c, r) \/ HandOff(c, r) \/ StartRemoval(c, r)

\* Mutant of NextChunk: a chunk is written before it is counted.
NextChunkLate(c) == sent[c] <= http[c].cap /\ WriteChunk(c)

\* counting_stream lets a chunk through while the total is within the cap.
NextChunk(c) == sent[c] < http[c].cap /\ WriteChunk(c)

\* Mutant of TooLarge: the counter raises when the cap is reached, not exceeded.
TooLargeEarly(c) == sent[c] >= http[c].cap /\ AbortStream(c)

TooLarge(c) ==
  /\ sent[c] < Size[req[c].payload]
  /\ sent[c] >= http[c].cap
  /\ AbortStream(c)

\* request.stream() raises ClientDisconnect.  The form of an upload was received
\* before its handler began.
Disconnect(c) ==
  /\ Running(c)
  /\ pc[c] = "stream"
  /\ http[c].route = "PUT"
  /\ AbortStream(c)
  /\ http' = [http EXCEPT ![c].gone = TRUE]
  /\ UNCHANGED acked

\* The step that changed the object, if only by putting the same content in place.
TakesEffect(c) == object' # object \/ (pc[c] = "place" /\ pc'[c] = "meta_stage")

\* A step of the driver call of a running handler.
Work(c) ==
  /\ Running(c)
  /\ IF pc[c] = "stream"
     THEN NextChunk(c) \/ TooLarge(c) \/ SyncStaging(c) \/ FailPut(c)
     ELSE CallStep(c)
  /\ http' = [http EXCEPT ![c].effect = @ \/ TakesEffect(c)]
  /\ UNCHANGED acked

\* Mutant of DriverCodes: the handler forgets to look at deduped.
DriverCodesDeduped ==
  [exists |-> 201, insufficient_storage |-> 507, io_error |-> 500, found |-> 200,
   missing |-> 404, sent |-> 200, broken |-> 200, deleted |-> 200, absent |-> 200]

\* Mutant of DriverCodes: a delete that removed nothing is answered "not found".
DriverCodesNotFound ==
  [exists |-> 409, insufficient_storage |-> 507, io_error |-> 500, found |-> 200,
   missing |-> 404, sent |-> 200, broken |-> 200, deleted |-> 200, absent |-> 404]

\* The status of what the driver returned or raised.  A body that breaks does so
\* after its 200 was sent.
DriverCodes ==
  [exists |-> 409, insufficient_storage |-> 507, io_error |-> 500, found |-> 200,
   missing |-> 404, sent |-> 200, broken |-> 200, deleted |-> 200, absent |-> 200]

\* The handler's own: an upsert is 200, a disconnect an unhandled exception that
\* nobody receives.
Code(c) ==
  IF res[c].status = "stored" THEN IF http[c].route = "PUT" /\ ~req[c].create THEN 200 ELSE 201
  ELSE IF res[c].status = "aborted" THEN IF http[c].gone THEN 500 ELSE 413
  ELSE DriverCodes[res[c].status]

Respond(c) ==
  /\ Running(c)
  /\ Return(c)
  /\ http' = [http EXCEPT ![c].code = Code(c)]
  /\ acked' = IF res[c].status = "stored" /\ ~http[c].clash
              THEN acked \cup {http[c].key} ELSE acked

\* The exchange is over.
Close(c) ==
  /\ http[c] # None
  /\ http[c].code # Pass
  /\ http' = [http EXCEPT ![c] = None]
  /\ UNCHANGED <<vars, acked>>

\* What goes on beside the requests.  A crash breaks the connections of its process.
Background ==
  /\ \/ \E dead \in SUBSET Calls :
          /\ Crash(dead)
          /\ http' = [c \in Calls |-> IF c \in dead THEN None ELSE http[c]]
     \/ /\ Restart \/ SweepUnlink \/ \E u \in Uuids : Age(u) \/ SweepMark(u)
        /\ UNCHANGED http
  /\ UNCHANGED acked

Serve(c) ==
  \/ \E r \in HttpRequests : Refuse(c, r) \/ Admit(c, r)
  \/ Work(c) \/ Disconnect(c) \/ Respond(c) \/ Close(c)

ApiNext == (\E c \in Calls : Serve(c)) \/ Background

ApiSpec == ApiInit /\ [][ApiNext]_apiVars

(***************************************************************************)
(* The event loop runs every handler that can take a step; a handler that  *)
(* waits for its client's next chunk cannot.  Clients owe nothing: neither *)
(* chunks, nor disconnects, nor new requests.  The sweeper is as in the    *)
(* driver.                                                                 *)
(***************************************************************************)
AwaitsBody(c) ==
  Running(c) /\ http[c].route = "PUT" /\ pc[c] = "stream"

ApiFairSpec ==
  /\ ApiSpec
  /\ UpkeepFairness
  /\ \A c \in Calls : WF_apiVars(~AwaitsBody(c) /\ (Work(c) \/ Respond(c)))

-----------------------------------------------------------------------------
(* Properties.                                                             *)

ApiTypeOK ==
  /\ TypeOK
  /\ http \in [Calls -> Exchanges \cup {None}]
  /\ acked \in SUBSET Keys

\* Objects under service-only prefixes, and renditions, change only for callers
\* that hold an API key, however their requests interleave with those of users.
ServiceKeysGuarded ==
  [][\A k \in ServiceOnly \cup AtKeys : object'[k] # object[k] =>
       \E c \in Calls : /\ http[c] # None
                        /\ http[c].apiKey
                        /\ http[c].key = k]_apiVars

\* The largest object that any caller may store under k.
LimitFor(k) ==
  {ServiceCap[k]} \cup
  IF k \in ServiceOnly \cup AtKeys THEN {} ELSE {MimeCap[m] : m \in Mimes} \ {None}

\* No object is larger than the caps allow, also when its body declared no length.
CapsHold ==
  \A k \in Keys : object[k] # None => \E limit \in LimitFor(k) : object[k].len <= limit

\* Not one chunk above the cap of the very request, be it the one of its key or of its
\* content type, reaches the disk, not even in a staging file and whatever was declared.
StagingWithinCap ==
  \A c \in Calls : Running(c) /\ tmp[c] # None /\ staging[tmp[c]] # None =>
    staging[tmp[c]].len <= http[c].cap

\* What a client is told is what was done: an upload is acknowledged if and only
\* if it replaced the object, an error means that nothing changed.
AnswerMatchesEffect ==
  \A c \in Calls : http[c] # None /\ http[c].code # Pass =>
    IF http[c].route \in {"PUT", "POST"}
    THEN http[c].effect <=> http[c].code \in {200, 201}
    ELSE http[c].effect => http[c].route = "DELETE" /\ http[c].code = 200

\* An upload that fits its cap and whose client stays is never refused for its size.
FittingBodyNotRefused ==
  \A c \in Calls : http[c] # None /\ http[c].code = 413 => ~http[c].fits

\* An upload that no delete overlapped, once acknowledged, stays stored until somebody
\* asks for its deletion: through uploads that fail, sweeps, crashes and restarts.
AckedIsStored ==
  \A k \in acked : object[k] # None

\* Never 404: a delete that passed authentication and validation is answered 200,
\* even if the disk fails.
AdmittedDelete(c) == Running(c) /\ http[c].route = "DELETE"
DeleteAnswered200 ==
  \A c \in Calls : AdmittedDelete(c) ~> http[c] = None \/ http[c].code = 200

\* Every request is answered, except that a PUT waits for its body.
EveryRequestAnswered ==
  \A c \in Calls : Running(c) ~> ~Running(c) \/ AwaitsBody(c)
=============================================================================
