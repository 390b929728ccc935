------------------------------ MODULE BlobStore ------------------------------
(***************************************************************************)
(* What a BlobDriver promises its callers (src/drivers/base.py): a map     *)
(* from keys to whole payloads on which every verb takes effect at one     *)
(* instant between its call and its reply.  There are no files, sidecars,  *)
(* staging names or chunks here; LocalFsDriver is shown to implement this  *)
(* module as long as no create-only put replaces other content.            *)
(***************************************************************************)
EXTENDS Naturals

CONSTANTS
  Calls,        \* slots for calls in flight
  Keys,         \* "bucket/key" names
  Payloads,     \* object contents
  None,         \* no object, no call, no payload
  DiskMayFail   \* whether the storage below may refuse an operation

VARIABLES
  store,        \* [Keys -> Payloads \cup {None}]: the visible objects
  ask,          \* [Calls -> Requests \cup {None}]: the call in flight
  reply         \* [Calls -> [status, payload]]: "pending" until it took effect

vars == <<store, ask, reply>>

Requests == [op: {"put", "head", "get", "delete"}, key: Keys,
             payload: Payloads \cup {None}, create: BOOLEAN]

Pending == [status |-> "pending", payload |-> None]

\* A put may fail because the client gave up, whatever the disk does.
PutFailures == {"aborted", "insufficient_storage", "io_error"}

Init ==
  /\ store = [k \in Keys |-> None]
  /\ ask = [c \in Calls |-> None]
  /\ reply = [c \in Calls |-> Pending]

Awaiting(c, op) ==
  /\ ask[c] # None
  /\ ask[c].op = op
  /\ reply[c] = Pending

Reply(c, status, payload) ==
  reply' = [reply EXCEPT ![c] = [status |-> status, payload |-> payload]]

Call(c) ==
  /\ ask[c] = None
  /\ \E r \in Requests : ask' = [ask EXCEPT ![c] = r]
  /\ UNCHANGED <<store, reply>>

\* A create-only put never replaces another payload.
Put(c) ==
  /\ Awaiting(c, "put")
  /\ ask[c].create => store[ask[c].key] \in {None, ask[c].payload}
  /\ store' = [store EXCEPT ![ask[c].key] = ask[c].payload]
  /\ Reply(c, "stored", None)
  /\ UNCHANGED ask

\* A put that is refused or fails leaves the store as it was.
RefusePut(c) ==
  /\ Awaiting(c, "put")
  /\ \/ /\ ask[c].create
        /\ store[ask[c].key] # None
        /\ Reply(c, "exists", None)
     \/ \E f \in PutFailures : Reply(c, f, None)
  /\ UNCHANGED <<store, ask>>

Delete(c) ==
  /\ Awaiting(c, "delete")
  /\ \/ /\ store[ask[c].key] # None
        /\ Reply(c, "deleted", None)
        /\ store' = [store EXCEPT ![ask[c].key] = None]
     \/ /\ store[ask[c].key] = None \/ DiskMayFail
        /\ Reply(c, "absent", None)
        /\ UNCHANGED store
  /\ UNCHANGED ask

Head(c) ==
  /\ Awaiting(c, "head")
  /\ \/ store[ask[c].key] # None /\ Reply(c, "found", None)
     \/ (store[ask[c].key] = None \/ DiskMayFail) /\ Reply(c, "missing", None)
  /\ UNCHANGED <<store, ask>>

\* "broken": the reply had begun when the object was found to be gone.
Get(c) ==
  /\ Awaiting(c, "get")
  /\ \/ /\ store[ask[c].key] # None
        /\ Reply(c, "sent", store[ask[c].key])
     \/ /\ store[ask[c].key] = None \/ DiskMayFail
        /\ \E s \in {"missing", "broken"} : Reply(c, s, None)
  /\ UNCHANGED <<store, ask>>

Return(c) ==
  /\ ask[c] # None
  /\ reply[c] # Pending
  /\ ask' = [ask EXCEPT ![c] = None]
  /\ reply' = [reply EXCEPT ![c] = Pending]
  /\ UNCHANGED store

\* A crash forgets calls in flight and keeps every visible object.
Crash ==
  \E dead \in SUBSET Calls :
    /\ ask' = [c \in Calls |-> IF c \in dead THEN None ELSE ask[c]]
    /\ reply' = [c \in Calls |-> IF c \in dead THEN Pending ELSE reply[c]]
    /\ UNCHANGED store

Next ==
  \/ \E c \in Calls :
       Call(c) \/ Put(c) \/ RefusePut(c) \/ Delete(c) \/ Head(c) \/ Get(c) \/ Return(c)
  \/ Crash

Spec == Init /\ [][Next]_vars

=============================================================================
