# A verification of the storybook storage service

TLA+ models, TLC configurations and TLAPS proofs about the object storage
service of this repository (`src/`, a FastAPI service over a local disk).
Paths below are relative to the repository.

## 1. The system

A client names an object by bucket and key.  Services (API key) and browsers
(user JWT) write through the HTTP API; nginx serves public reads straight from
disk and private reads after a signed URL was verified.

| Component | State | Operations | Source |
|---|---|---|---|
| Local filesystem driver | object files, JSON sidecars in `.meta`, staging files in `.tmp`, locals of the coroutines in flight | `put`, `get`, `head`, `delete`, `list`, `presign_get` | `src/drivers/local_fs.py`, `base.py`, `errors.py` |
| Disk layout and sweeper | `.tmp`, modification times, the one sweeper task | `ensure_layout`, `cleanup_stale_tmp` (start-up and hourly) | `src/drivers/paths.py`, `src/main.py` |
| Storage API | one handler per request | PUT, POST upload, HEAD, DELETE, sign | `src/routers/storage/*` |
| Signed reads | exp and HMAC in the URL | sign, verify, redirect or stream | `src/drivers/signing.py`, `src/routers/files/*` |
| Authentication | configured keys, JWKS cache | API key, user JWT, either | `src/auth/*` |
| Validation | configuration | key grammar, prefix policy, size caps | `src/validation/*` |
| Settings, models, error mapping, logging | configuration, none | parsing, envelopes | `src/config`, `src/models`, `src/core` |
| Lifespan and health | driver seam, sweeper task | boot, shutdown, `/healthz` | `src/main.py`, `src/drivers/registry.py` |
| Deployment | image tags, the running container | build, up, health gate, rollback, prune | `deploy/*` |

The handlers are coroutines of one event loop.  Every file-system call is
awaited in a thread (`asyncio.to_thread`), so between any two of them other
requests run, the client may go away, the disk may fail or the container may be
killed (`docker stop` kills after 10 s, `restart: unless-stopped` brings it
back).  `WORKERS` may start several such processes on the same files.  There is no lock per key anywhere; what keeps objects whole is the
rename at the end of `put`.  That is where the difficulty of this code lies, and
where the models start.

### What each component must get right

**Driver** (`local_fs.py`).  State: the object files, the sidecars, the staging
files, and per call the place it has reached, the bytes hashed so far and the
staging name it chose.  `put` hashes and writes the body to `.tmp/<uuid>`, syncs,
renames over the object, then stages and renames the sidecar.  `head` stats, reads
the sidecar, and hashes the file if there is none.  `get` checks and later opens.
`delete` unlinks the object, then the sidecar.  Hard: any of these steps of two
calls may alternate, any may fail, the process may die between two of them.
Correct means: a visible object is always one complete upload; etag and size
belong to the bytes; a call that failed changed nothing; create-only never
overwrites; nothing is leaked.

**Sweeper** (`paths.py`, `main.py`).  Once at start-up and every hour it removes
staging files not written to for an hour.  Hard: it looks at a file and removes it
in two steps, and a slow upload may own that file.  Correct means: what a crash
orphaned goes in the end, and a put that lost its file fails instead of reporting
success.

**Storage API** (`routers/storage`).  State: one handler per request.  Hard: the
gates (authentication, grammar, policy, type, declared size) apply in an order,
differ per route and depend on who calls; the body may have no declared length;
the client may leave.  Correct means: no cap is exceeded, not even on disk for an
instant; a service-only key changes only for a service; the status tells what was
done; an acknowledged object stays.

**Signed reads** (`signing.py`, `create_signed_url.py`, `signed_get.py`).  State:
none but the clock, read three times at different grains.  Correct means: only
minted pairs of key and expiry open, not after the announced expiry, and what was
minted opens until then.

**Grammar, policy, caps** (`validation`, `paths.py`).  Pure functions.  Hard: one
compares text, the other resolves paths; maps are walked in their written order.
Correct means: accepted keys are exact paths, the policy cannot be evaded by
spelling, the longest entry decides.

**Names.**  Keys are paths, and nothing ever removes a directory.  A key may be the
directory of another, and its sidecar `<key>.json` the directory of another's.  Correct
means: no put takes away what is in its way, and `list`, which walks again for every
page, neither repeats a key nor misses one that stays.

**Disk.**  `put` fsyncs the body, not the sidecar and not the directory.  Correct
means: whatever a power loss leaves under a key is a complete upload, and what head
says of it is true of some upload.

**Authentication, JWKS cache.**  State: keys by kid and the last key set, in a client
shared by all requests, whose lookups run in threads.  Hard: the provider rotates its
keys, answers late or not at all, and answers overtake each other.  Correct means: only
who holds a token of a published key gets in, rotation turns nobody away, and a known
key needs no network.

**Deployment.**  State: images by tag, one container, the variables of the script.
Hard: any command may fail or be the last, containers die and come back, operators step
in.  Correct means: the gate passes the new build only, a failed deployment returns to
what was healthy, and pruning leaves an image to return to, even if it fails half-way.

## 2. Modules

| Module | Models | State and actions against the code |
|---|---|---|
| `BlobStore` | the contract of `base.py`: a linearizable store | `store` is what is stored; `Put`, `RefusePut`, `Delete`, `Head`, `Get` are the instants at which calls take effect |
| `LocalFsDriver` | `put`, `head`, `get`, `delete` of `local_fs.py`, the sweeper, crash and restart | one action per awaited thread call; `object`, `sidecar`, `staging` are the files, `stale` the old ones, `doomed` the file the sweeper is about to remove, `metaOrphan` keys with a lost sidecar staging file; `Crash(dead)` ends the server or one worker and its calls |
| `DurableWrite` | the same writes below the level of names | `inode` is what a file holds and how much of it is on the disk, `dir` the names, `journal` the names a power loss would leave; `Writeback` and `CommitJournal` are the kernel's, `Kill` and `PowerLoss` the deaths; `HeadEtag` is what head would say |
| `KeyTree` | names: `makedirs`, `rename`, `unlink` on shared directories, and `list` | `tree` is what each path is; one action per `mkdir`, rename or unlink; `walked`, `page`, `cursor`, `more` are the locals of `list`, `ReadDir` one directory of `os.walk` |
| `StorageApi` | handlers, gates, counter, status codes | EXTENDS `LocalFsDriver`: `Admit` opens the gates and starts a driver call in the same slot, `Work` takes its steps, `Respond` turns its result into a status; `Refuse` is a gate that is shut |
| `SignedUrl` | sign, announce, verify | `Presign` and `Announce` are the two clock readings of the mint, `SignedGet` a read |
| `UserAuth` | `user_jwt.py` and `jwks_cache.py` against a provider that rotates keys | `keyCache` and `setCache` are the two caches of the key client; `Lookup` asks them, `Fetch` and `Arrive` are the two ends of a network call, `Decode` verifies |
| `Deployment` | `deploy.sh`, `compose.yml`, `/healthz`, boot | one action per command of the script, each of which may be the last (`Interrupted`, `UpFails`); pruning is a listing (`ListOld`) and one `RemoveOld` per tag, which may fail; `RemoveContainer`, `RunByHand` and `StopByHand` are the operators; `process` is what runs in the container |
| `Texts` | what clients may send | its one variable only enumerates texts for the next two modules |
| `KeyGrammar` | `validate_key`, `object_path`, `_assert_within`, `check_user_writable` | operators over texts, one per step of the code |
| `CapPolicy` | `resolve_s2s_cap`, `resolve_user_cap` | operators over texts and the orders a configured map may have |
| `*Proofs` | | theorems about the modules they are named for; `ValidationProofs` is about `KeyGrammar` and `CapPolicy` |
| `MC*` | | values of constants for TLC |

`StorageApi` is composed of the driver by extension, `LocalFsDriver` of `BlobStore` by
refinement.  `DurableWrite` and `KeyTree` look at the same functions of `local_fs.py`
from two other sides, and each names at its head what it leaves to the others: errors
and the sweeper to `LocalFsDriver`, names to `KeyTree`, what reaches the disk to
`DurableWrite`.  Their product would be out of TLC's reach and say nothing new: the
order of steps is the same in all three.

Abstractions.  A payload is a value with a length in chunks; a file is a payload and
how much of it was written, and SHA-256, taken to be injective, is the file itself.
Keys of `LocalFsDriver` are distinct paths, none a directory of another.  uuid4 does
not repeat a name in use.  HMAC is injective and unforgeable.  A multipart form is
received before its handler starts.  In `LocalFsDriver` a crash leaves the files as
they are; power loss is in `DurableWrite`, where the file system journals: its
directory changes become durable in order and a rename as a whole, but do not wait for
file data (ext4 without its flush on replacing renames).  In `UserAuth` the provider
always publishes a key, publishes none twice, and has fewer keys than the 16 that
PyJWKClient remembers; where the client would fetch twice, for a set that has expired
and then for a kid it lacks, the model fetches once.  In `Deployment` one deployment
runs at a time (`concurrency` in `deploy.yml`).

Fields and variables there for properties only, on which nothing depends: `effect`,
`clash` and `acked` in `StorageApi`, `steady` and `hits` in `KeyTree`, `lost` in
`DurableWrite`, `known`, `due` and `verified` in `UserAuth`, `green`, `undisturbed` and
`refused` in `Deployment`.

Operators named after another with a suffix (`SyncForgotten`, `NextChunkLate`, ...) and
commented "Mutant of" are wrong on purpose: with one of them in place of the original
the property it belongs to fails, which shows that the property says something
about that code.

## 3. Runs

All constants a run does not name are as small as they can be.  Calls, requests, kids
and commits are interchangeable, and so are staging names; symmetry is used only in
runs without liveness.

| Run | Module | Bounds | Shows |
|---|---|---|---|
| `content_addressed` | `LocalFsDriver` | 2 calls, 1 key with 1 payload, any operation fails, 1 crash | the driver refines `BlobStore`; etags and sizes are true |
| `power_loss` | `DurableWrite` | 2 puts of payloads of 1 and 2 chunks, 1 delete, 1 reader, 2 deaths | objects, reads and etags are those of complete uploads; sidecars are torn by a power loss only; what the journal held does not vanish |
| `key_tree` | `KeyTree` | 2 calls, keys `a.x`, `a.x/b.x`, `a.x.json/b.x`, one too long; pages of 1 | a key goes by its own delete only; renames find their directories; orphaned staging files of sidecars have one cause; pages are exact |
| `api_gates` | `StorageApi` | 1 request at a time, 4 keys (ordinary, service-only, rendition, malformed), all credentials, types, sizes around the caps, uploads fail | caps hold on disk, no fitting body refused, service keys guarded, no staging file left; without overlap and crash, object and sidecar agree |
| `api_durable` | `StorageApi` | 2 requests, 1 key, renames fail, disconnects, sweeps, 1 crash | acknowledged uploads stay; answers match effects; no partial object; failed uploads have no effect |
| `api_live` | `StorageApi` | 1 request, any operation but a sweep fails, 1 crash | every request is answered, an admitted DELETE with 200; an orphaned staging file is swept in the end |
| `signed_url` | `SignedUrl` | 2 URLs, 2 keys, ticks of half a second, lives of up to 2 s, 3.5 s | only minted pairs open, not after expires_at, not a second too short |
| `tokens` | `UserAuth` | 2 requests, 2 signing keys, all headers, 2 ticks, a set is trusted for the tick it came in | only known keys open; rotation refuses nobody; verified keys need no network |
| `deployment` | `Deployment` | 4 commits, 3 images, 2 tags kept, a gate of 2 tries | the gate is for the new build; failed deployments return to the last healthy container; a prune spares the newest whichever of its removals fail, and drops the rest |
| `validation` | `KeyGrammar`, `CapPolicy` | all texts of up to 7 characters over 7; all orders of up to 3 nested prefixes | accepted keys are exact paths; containment exact; policy binding; longest entry; normalisation |

Why these bounds.  Every conflict in the driver is between two calls, or a call and
the sweeper, about one key: the files of different keys are disjoint and there is no
other shared state, so two calls on one key meet all pairs of steps.  Two payloads of
different lengths let one be mistaken for part of another.  One crash puts the
files into every state a crash can; `power_loss` has two, since the second may find
what the first has left.  In `key_tree` the three keys collide in each way two paths
can: object with directory, and sidecar with the directory of a sidecar; with pages of
one key every key is a cursor.  The gates look at one request only, so `api_gates` needs
one at a time and spends its states on the requests: sizes below, at and above each cap.
In `signed_url` two ticks to a second separate the two clock readings and the rounding,
and two URLs can be recombined.  In `tokens` two requests let fetches overtake each
other, two keys make a rotation, and two ticks let the set and then the leeway run out.
In `deployment` four commits are two more than are kept, so that a prune has two removals
and can fail or be killed between them; with three images some commits share one or are
built anew.  Seven characters hold two directories and a name with
an extension, a dot-dot before a name, a sibling of the bucket, a type between blanks
with a parameter, and a key over the limits, which the run sets to 6 and 3.

`power_loss` does not check for deadlock, as its calls run once.  The runs that end in
a violation are the first two disagreements listed next; each checks one property that
the repository states.

## 4. Where code and documents disagree

| Run | What the repository says | What happens |
|---|---|---|
| `race_create` | `if_none_match` "fail-if-exists" (`base.py`) | check and rename are far apart: of clients that only create (`CreatesSpec`), two both answer 201, and the second replaces the first |
| `sign_rendition` | "S2S may sign a sibling rendition key" | the read path refuses "@": the URL always answers 400 |

Also met while modelling; the models have these behaviours, and the properties are
stated around them:

- Two overlapping puts of different content rename in one order and commit their
  sidecars in the other: HEAD reports the loser's etag for good, against the "content
  sha256 ETag" of the README.  A sidecar write that fails on an overwrite, or a crash
  between the two renames, ends the same way, although the docstring of `_write_sidecar`
  says that "sidecar loss never blocks serve (head falls back to stat)".  `EtagTruthful`
  therefore speaks of content-addressed keys, `HeadNamesAnUpload` of some upload.
- The sweep exists "so leaks cannot accumulate" (`main.py`), but a sidecar's staging file
  lies in `.meta`, where no sweep looks.  `OrphansExplained` says when that happens
  without disk errors and crashes.
- After a power loss an upload that was acknowledged may be gone or be the previous one,
  since the directory is not fsynced.  `NeverVanishes` says what is promised.
- A create-only put of a name that is a directory answers 409, HEAD of it 404
  (`os.path.exists` against `os.path.isfile`).
- "Any failure ... collapses to a single 403" (`signing.py`): a signature with a
  non-ASCII character makes `compare_digest` raise, and answers 500.
- "Once prewarmed, a token whose kid is already cached costs no network call"
  (`jwks_cache.py`): the prewarmed set is trusted for five minutes only.  It is true of a
  kid that has been verified, which is `KnownKeyNeedsNoNetwork`.
- The health gate asks a port: the service run by hand answers for a container that
  cannot get it (the exception in `HealthyIsTheNewBuild`).
- A commit that is built again takes the tag of its first image, so that a roll-back to it
  starts the new one (the last line of `LastHealthyRuns`).
- An `up -d` that fails ends the script without a roll-back; failed deployments never
  prune, and their images count among the five that are kept.
- "keep the last $KEEP_TAGS images ... drop the rest" (`deploy.sh`): the removals go from
  the youngest to the oldest, and one that fails is passed over in silence, so that more
  than five, and not only the youngest, may be left until a later prune (`DropsTheRest`).

## 5. Fairness

`UpkeepFairness` (driver): the sweeper task runs again and again while the server is up
(`main.py` loops for ever and survives its own errors), a file that is not written to
gets old, a killed server is restarted (`restart: unless-stopped`).  Nothing is assumed
of calls.

`ApiFairSpec`: the event loop runs each handler that can take a step, by weak fairness
per handler, since `asyncio` resumes every task whose await is done and a thread call
returns, with or without error.  A handler waiting for its client's next chunk is
exempt: clients owe neither chunks, nor a disconnect, nor requests.

`UserAuth` and `Deployment` state no fairness: the provider owes no answer and operators
no deployment, and a script without an end is a script that is killed.

## 6. Proofs

TLC answers for two calls and one or two keys; these theorems hold for every set of
calls, keys, payloads, uuids and faults, any caps and any number of crashes, from the
named assumptions of the modules (sizes and caps are naturals, `None` is none of the
values, restricted keys are keys).

*`LocalFsDriverProofs`.*  The inductive invariant `IInv` adds to the properties what a
step relies on: a call at a label serves a request of that operation
(`RequestsInPlace`), its answer so far is the one of that label (`AnswersInPlace`),
nothing is hashed before the staging file is opened and all of the payload is at the
rename (`HashInPlace`), and a staging name that a call holds is held by no other, belongs
to no finished call, and its file, unless swept, is exactly what the call has hashed
(`StagingInPlace`).  The last is what makes `NoPartialObject`
hold: the rename puts in place what was hashed, and at that label all of it was.
`EtagsAreTruthful` and `RepliesAreConsistent` hold under the condition that each key
has one payload (`ContentAddressed`), and section 4 shows they need it.

`RefinementUnlessRaced`: as long as no create-only put replaces other content
(`CreateOnlyNeverOverwrites`, which `race_create` shows violated), each step of the driver
is a step or a stutter of `BlobStore`, with the instants of effect named in
`LocalFsDriver`, for clients that overwrite keys as they like.  With one payload for each
key the condition holds (`SameContentKeeps`), hence `Refinement`, which the run
`content_addressed` checks.  It also holds if no two puts of one key are past their
existence checks at the same time and stat does not fail (`CreatesKeep`, by the invariant
`KeyIsFree`; `os.path.exists` takes an error for an absence), hence
`RefinementForApartWriters`.

`SidecarsAreExact` is `QuiescentSidecarExact` with the hypotheses it needs: the server
lives, the operations on sidecars and `unlink` work, and no two calls are at the same time
between the object and the sidecar of one key (`SettlingApart`).  Reads, uploads to other
keys, uploads that fail, sweeps and calls that only wait for bytes may overlap as they
like.  The invariant says what such a call owes (`Due`: the object is as it has left it)
and that all other keys are paid for (`Recorded`).  Calls that do not overlap at all are a
special case (`OneCallAtATime`), the one the run `api_gates` checks.

*`StorageApiProofs`.*  `ApiRunsDriver`: each step of the service is a step of the driver
or leaves it alone, so all theorems above hold behind HTTP (`ServedObjectsAreWhole` and
`ServedSidecarsAreExact` are two).  `ServiceKeysAreGuarded`: by the invariant
`ExchangesInPlace` a driver call runs only for an unanswered exchange of its key, and what
the gates established for that exchange stays in its slot; with `OnlyCallsChangeObjects` an object under a restricted
key changes only while such an exchange runs with an API key.  `SlotsInPlace` adds how
far the driver is with each exchange: while a body arrives, no more chunks are hashed than
the cap that the gates granted; the effect is noted exactly when the status is "stored";
a body is broken off only if it is too large or its client has left.  Together with
`StagingInPlace` (a staging file holds what was hashed, also while it is cleaned up) this
gives `StagingStaysWithinCap`, `CapsAreKept`, `FittingBodiesPass` and
`AnswersMatchEffects`.  `AckedStaysStored` needs two facts about pairs of slots, which
neither the gates nor the driver establish alone: a delete under way has withdrawn the
acknowledgement of its key and is known to every upload to it (`DeletesSeen`), and what an
upload has put in place, if no delete overlapped it, is there before it is acknowledged
(`StoredStays`).

*`DurableWriteProofs`.*  Every name has an inode of its own kind (`NamesSorted`); no inode
has a visible name before its call has come to the rename, in the directory, in the
journal or in the hands of a reader (`OwnInodes`); an inode holds what its call has
written so far, and at the rename all of it, on the disk (`OwnWrites`).  Hence
`VisibleWhole`: what is visible, would be after a power loss, or is being read, is
complete and durable, which a power loss does not disturb.

*`KeyTreeProofs`.*  For every tree of names that satisfies the assumptions on `Dirs`.
Directories only come, so a `makedirs` that is done stays done, and no object hangs in
the air (`ObjectsHaveDirs`).  For the pager, `KeyInPlace` says of each key that it is
returned, on the page, or behind the cursor, and of a steady one that the walk has found
it or has still to read one of its directories.

*`SignedUrlProofs`.*  Integer division rounds down by less than a second
(`SecondsRoundDown`); a URL carries the signature of its own key and expiry, which is
its life counted from the whole second of its minting, and announces no less
(`Honest`, `Announced`).

*`UserAuthProofs`.*  All that the process holds was published since it started
(`CachesKnown`), a token comes to be decoded only with a remembered key
(`RequestInPlace`), and a set on its way for a request with a right to be let in holds
its key (`DueInPlace`).

*`DeploymentProofs`.*  What was healthy last is there, or is named by `prev` and still
has its tag (`GreenInPlace`, `TagsInPlace`); from its start to its end the container is the
one the deployment has made, unless an operator has removed it (`NewInPlace`).  No name
goes back to an older image (`NameInPlace`): commits may share an image, since
`.dockerignore` leaves out tests and documents, and then `docker images` may list their
tags in any order.  `PruningKeepsTheLast` rests on what holds between two removals: enough
tags at least as young are not among the lines still to come (`DoomedInPlace`), and the
tags left exceed what is kept by no more than those lines and the removals refused
(`RestInPlace`).  `ListingFacts`, `DroppedFacts` and `FirstLines` count lines.

*`ValidationProofs`.*  For every alphabet, bucket and map, and texts of any length.
`Split`, `Resolve`, `Spelled` and `Longest` are folds; what they compute is proved by
induction along their text, stated for a set of texts (`NatSetInduction`,
`SeqSetInduction`, from well-founded minima).  A key is the spelling of its segments
(`SplitSpelled`), so that accepted keys are exact paths (`KeysCanonical`), no two of them
name one file (`OneKeyPerFile`), and a text that has a service-only prefix is a path below
it (`PolicyBinds`).  `_assert_within` compares texts; a name has no separator, hence the
text of a path starts with that of another and a separator exactly if the path does
(`WithinIsPrefix`, `AssertionCorrect`).  `LongestWins`: a fold over a map in any order ends
with the one longest matching prefix (`LongestIsLongest`).  `CaseAndParameters` follows a
content type through lower-casing, the cut at ";" and the stripping of blanks
(`NormalLowered`, `NormalPadded`).

The assumptions on the configuration: root and bucket consist of names, i.e. neither
empty nor "." nor ".." and without "/"; a service-only prefix is written like a key, with
or without a "/" at its end; a map is finite.  A prefix such as "a.b/" says nothing of a
file whose own name is "a.b", which lies beside what the prefix keeps, not below it:
`PolicyBindsFiles` speaks of the files below the directory.

Model-checked only: liveness (`OrphanEventuallySwept`, `DeleteAnswered200`,
`EveryRequestAnswered`), which is out of the prover's reach.  Every safety property of a
passing run is the subject of a theorem.  Some hold under a condition only: no lost race
of a create-only put (`ImplementsBlobStore`), one payload for each key (in their own words
`EtagTruthful` and `ReplyConsistent`), or sidecars settled one at a time
(`QuiescentSidecarExact`); section 4 says what happens without it.

## 7. Not modelled

- Settings, request models, JSON envelopes, logging, CORS: formatting, or values that are
  constants here.
- Symbolic links below the storage root; file permissions.
- The product of power loss with errors, the sweeper and name collisions (section 2).
- nginx and its configuration: a signed read ends with the hand-over, and public reads
  are those of the reader in `DurableWrite`.
- The comparison of API keys, and the cryptography of tokens and URLs.
- Images without a tag (`docker image prune`), and a second deployment at the same time.
- `presign_put`, which only raises.
