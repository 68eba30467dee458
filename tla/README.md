# contexa and its relay in TLA+

contexa is a daemon that keeps versioned *contexts* (JSON documents) on each of
a user's devices, serves them to local tools over HTTP, and means to replicate
them between trusted devices; the relay is a small WebSocket server that
forwards encrypted frames between devices of one trust group.  This directory
holds TLA+ modules of the parts where the order of steps matters, TLC runs on
small instances, and TLAPS proofs for instances of any size.  `PROJECT.json`
maps every definition to the lines it models.  Paths below are relative to the
repository; `store/`, `sync/`, `api/`, `cli/` and `sdk/` stand for
`contexa/contexa/...`.

## 1. Inventory

| component | state | operations | what is hard |
|---|---|---|---|
| **Context_Store** (`store/context_store.py`, `models.py`, `database.py`, `api/routes/contexts.py`) | tables `contexts`, `context_versions`; one SQLAlchemy `Session` on one SQLite connection | `create`, `update`, `update_label`, `delete`, `get`, `get_version`, `list_all`, `list_versions` | every request shares the session (`daemon.py:110`) and runs on a worker thread; a commit writes the objects of all; nobody calls `rollback()`; *latest* is decided by a wall clock |
| **Sync_Engine** (`sync/engine.py`) | `_pending`, `sync_log`, counters | `sync_with_peer`, `queue_pending`, `retry_pending`, `get_backoff_delay`, `get_sync_log` | the store changes while a cycle runs; every log row is its own commit of the shared session; the queue is in memory |
| **Conflict detection** (`sync/protocol.py:103-165`) | none | `is_ancestor`, `detect_conflict` | the walk must end on any parent map |
| **Trust_Store** (`store/trust_store.py`, `api/routes/trust.py`) | `devices`, `trust_entries` | `register_self`, `add_trusted`, `remove_trusted`, `is_trusted`, `get_public_key` | check-then-insert on the shared session; revocation is a flag; re-trusting keeps the first key |
| **Relay** (`relay/relay/`) | `SessionRegistry._sessions`, a coroutine per connection | `/ws` handshake, `register`, `unregister`, `route` | a device reconnects before its old handler ends; a target is looked up before an await and used after it |
| **Relay_Client** (`sync/relay_client.py`) | `_ws` | `connect`, `disconnect`, `send`, `receive` | `_ws` is set before authentication and stays set if it fails; `disconnect` clears whatever it has become |
| **Daemon lifecycle** (`daemon.py`) | session, stores, uvicorn | migrate, load identity, register, bind, serve, drain, exit | it may die at any of these; until `daemon.py:192` a SIGTERM kills it; the `finally` block commits what refused requests left behind |
| **Device identity** (`sync/crypto.py`) | `device_id`, `device_key.pem` | load or generate; sign, verify, encrypt | two files, truncated and written one after the other; two daemons of a first start |
| **OAuth identity** (`auth.py`) | `identity.json`; `identity_id` columns | device flow, `refresh_token`, `get_identity_id`, `clear_token` | any process of the user runs them on one file; load, POST and save are far apart; expiry and pace are clocks |
| **Embedding_Store** (`store/embedding_store.py`) | `embeddings` | store, search | numeric; no route of the daemon writes it |
| **Local API** (`api/`) | `app.state` | context, trust, sync, health routes; error handlers | `syncs_completed` of `app.state` is never updated; `trigger_sync` starts nothing |
| **SDK** (`sdk/client.py`, `exceptions.py`) | none | one HTTP call per method | a timeout ends the call and not the request; a refused connection, a broken one and a timeout mean different things |
| **CLI** (`cli/`) | PID file | `daemon start/stop/status`, wrappers of the API | commands cross; a number in the file is given to another process |
| Configuration, logging, migrations | files | read at start | pure I/O |

How they interact: the API routes call the stores on the server's thread pool;
the stores, the sync engine and the daemon's shutdown all use the *same*
session; the sync engine reads the Context_Store and the Trust_Store and writes
`sync_log` through that session; the relay knows clients only by their
connections and shares nothing with the daemon.  No code path connects
Sync_Engine and Relay_Client: `daemon.py` builds the engine and no route calls
`sync_with_peer`, `queue_pending` or `retry_pending`, and nothing builds a
`RelayClient`.  `sync_with_peer` is "the in-process version used for testing"
by its own docstring, and its retries send nothing.

What makes each correct:

* *Context_Store*: history is closed under parents and acyclic; versions never
  change; what was answered 201/200 is on disk; a failure says what happened;
  a request ends.  One request at a time, a context is a chain.
* *Conflict detection*: a conflict exactly of unrelated versions; it ends.
* *Sync_Engine*: result and log agree; nothing accepted that we lack; nothing
  queued is dropped silently; a failure comes after its attempts, once.
* *Relay*: only devices of one group hear each other; frames in order and once;
  the registry is the connected devices; every frame is dealt with.
* *Trust_Store*: a key is never replaced, an entry never lost; what was answered
  stays true until somebody asks for something else.
* *Relay_Client*: a `connect` that returned is authenticated; a sent envelope
  arrives or is answered.
* *SDK*: an exception that promises nothing was done is right; a returned value
  lasts; a call sees those before it; it ends.
* *Lifecycle, device identity, PID file*: the registered identity is never
  replaced; a start fails only for a reason; commands find the daemon.
* *OAuth identity*: login and logout alone decide who is logged in.

## 2. Modules

| module | what it is |
|---|---|
| `VersionHistory` | abstract: a chain per context; create, append, delete |
| `ContextStore` | the store, the shared session and the worker threads |
| `ContextStoreHistory` | the refinement mapping of `ContextStore` to `VersionHistory` |
| `ContextStoreProofs` | proofs about the store (closure of the history, immutability, durability, the refinement of `VersionHistory`), and, built on them, about `SdkStore` |
| `Ancestry`, `AncestryProofs` | `is_ancestor`, `detect_conflict` as functions of a parent map; what they compute, proved |
| `ConflictCheck`, `ConflictCheckProofs` | the same as the loops they are; proofs |
| `SyncEngine`, `SyncEngineProofs` | sync cycles, log and retry queue; composes `Ancestry` and the actions of `VersionHistory`; proofs |
| `Relay`, `RelayProofs` | endpoint, registry and router; proofs |
| `TrustStore`, `TrustStoreProofs` | the trust registry on the shared session; proofs |
| `SdkStore` | the SDK's calls, their connections and the daemon's life, composed with `ContextStore`; proofs in `ContextStoreProofs` |
| `RelayClient` | the clients' `_ws`, composed with `Relay`; proofs in `RelayProofs` |
| `Bootstrap`, `BootstrapProofs` | start, stop, status, PID file, migration, identity files, from process start to exit; proofs |
| `Identity`, `IdentityProofs` | device flow, refresh, logout on `identity.json`; proofs |
| `MC...` | tags and symmetry for TLC |

Operators whose comment starts with "Variant of" (Commit, Wait, ...) are what a
plausible bug would make of the definition that follows them; no specification
uses them.

### ContextStore

A request is a record in `req[t]` of the thread that runs it; its `step` names
the next session call.  `create` is `add_context`, `add_version`, `flush`,
`commit`, `reload` (`context_store.py:115-152`); `update` is `find`,
`read_latest`, `add_version`, `flush`, `commit`, `reload` (178-201);
`update_label`, `delete` and `get` likewise.  `commit()` is two steps, because
the flush makes rows visible to the other threads (they use the same
connection) before COMMIT makes them durable.

* `tables` is what the connection sees, `disk` what is committed; `pending` the
  session's unflushed objects, of *all* requests; `poisoned` the state after a
  failed flush, in which SQLAlchemy refuses every call until a `rollback()`
  that no code makes; `committer` the thread inside `commit()`, during which
  calls of other threads may raise.
* `Flush` writes all pending objects, or, if the foreign key or
  `uq_context_version_tag` refuses a row, rolls back, drops them and poisons
  the session.  `Refused` is any call that raises; the request answers 500 and
  leaves what it has added behind.
* `created_at` is stamped at the INSERT by the column default, from a wall
  clock (`clock`, moved by `ClockSteps`); `Latest` is the greatest stamp, with
  ties broken arbitrarily, as `ORDER BY created_at DESC LIMIT 1` does.
* `Crash` and `Shutdown` restart the process on the same file; the latter first
  commits what refused requests left pending (`daemon.py:207`).

Content and checksums are left out: no step changes either.  `get_version`,
`list_all` and `list_versions` only read; the last is the refinement mapping.

COMMIT expires every object of the session, so an attribute that was set
between the flush and the COMMIT of another request is forgotten (`Commit` drops
pending labels); an object that was added survives.

### TrustStore

The same session, seen by the trust routes.  `add_trusted` is `find_device`,
then either `find_entry` (refuse a device in force, `set_mark` on a revoked
one, `add_entry` if there is none) or `add_device`, `add_entry`; then `flush`,
`commit`, `reload` (`trust_store.py:114-145`).  `remove_trusted` is
`find_revoked`, `set_mark`, `flush`, `commit` (156-161).  `tables`, `disk`,
`pending`, `poisoned`, `committer`, `Refused`, `Crash` and `Shutdown` are as in
`ContextStore`; `register_self` runs at every start.

* `pending.mark` is the value of `revoked` that has been set on a stored entry
  and not flushed: the identity map shows it to every request (`Entry`), the
  next flush of *any* request writes it, a COMMIT or a rollback that comes first
  drops it.
* `BeginOther` is a request of another store that is about to commit: its flush
  writes what the trust requests have pending, may fail for reasons of its own,
  and its COMMIT expires their marks.
* An object that two requests add of one device is `"twice"`: the second INSERT
  breaks the primary key.  A key is parsed only for a new device (`FindDevice`).
* `entered` and `said` record answers: devices an add was answered for, and what
  the last answered request made of a device, kept until the next request for
  it begins; `sole` of a request is that no other request for its device ran
  meanwhile, `missed` that its attribute was set while another thread was
  inside `commit()`.

`is_trusted`, `list_trusted` and `get_public_key` only read.  `label` and
`trusted_at` are set and lost together with `revoked` and are left out.

### SyncEngine

One caller runs the engine (`call`), the API changes the store between any two
of its session calls, and a call may be refused.  A cycle reads the summaries
(`Summarise`), then takes the peer's contexts one by one: unknown ones are
accepted (`NextUnknown`), known ones are read again (`NextKnown`, which raises
if the context is gone) and compared (`Compare`).  Every row of the log is a
commit of its own; a refused one leaves its row in the session, where another
request's commit may write it (`SessionChanges`).  `retry_pending` walks the
queue: `Exhaust`, `Wait`, `Attempt`; only `EndRetry` replaces the queue, and an
attempt is counted on the object the queue holds, so a pass that raises halfway
keeps both.  The store is the abstract `VersionHistory`; versions are
`<<context, n>>`, a tag is never equal to an id.  `time.time()` is `clock`, in
whole seconds.

### Relay

A handler's `at` is the await it is in.  `Open` is accept and challenge;
`Register` the verified auth frame up to the send of `auth_ok`; `Greet` that
send, outside the `try` (`main.py:99`); `Receive` takes a frame and runs
`route()` up to its await, with the target's session looked up; `Forward` the
`send_text` to that session, whoever it belongs to by then; `Reply` the error
frame; `Disconnect` and `Close` the `finally` block.  A connection that is lost
may make a send raise or swallow it.  A signature is its two outcomes.  The
clients of `Relay` alone wait for `auth_ok` before they send.

### RelayClient

The clients as they are.  `dial[d]` is where `connect` is: it sets `_ws`
(`Connect`), receives the challenge and answers it (`Answers`), receives the
result (`Returns`), each on what `_ws` is *by then*; it may be cancelled or
raise, and `_ws` stays.  `disconnect` awaits `close()` (`Disconnects`) and then
clears `_ws` (`Forgets`), whatever a `connect` has made of it meanwhile.
`Sends` needs a `_ws` only: before the answer to the challenge the envelope is
what the relay takes for the auth frame (`first`), and the connection is
refused; between answer and `auth_ok` it waits in line.  `RelayClient` has no
reconnection, no timeout and no buffer; nothing in the daemon constructs it.

### SdkStore

`Asks` connects and posts, or finds nobody listening; `Rejects` is the 400 of a
body that does not fit; `Takes` gives the request to a free thread, where it is
a request of `ContextStore`, one step at a time (`Serves`); `Hears` is the
response, turned into a value or an exception by `raise_for_status`; `TimesOut`
ends the call and leaves the request.  `Drains`, `Stops`, `Starts` and `Dies`
are the daemon: while it drains, new connections are refused and accepted ones
served; when it dies, a waiting call gets an httpx error that is no
`ConnectError`.  `search`, `trigger_sync`, `get_sync_log`, `health` and
`get_config` only read and go through the same helpers.

### Bootstrap

A command is `look` (read the PID file), `probe` (`kill(pid, 0)`), `forget`
(unlink), `spawn`, `truncate`, `write` or `kill`; a daemon goes through
`init_db` (`check_schema`, `create_tables`, `stamp`: SQLite commits each table
at once, and Alembic's version last), `load_or_generate_identity` (two files,
each opened and then written), `register_self` (`find_row`, `insert_row`), `bind`,
`serving`, `draining`.  It may die at each, and a SIGTERM kills it until the
handlers are installed (`Unhandled`, `daemon.py:192`).  A process number that is
free may be given to another program (`OtherStarts`).  A file is `Torn` between
opening and writing.  The history variable `past` names the accidents the
properties except: a death inside the migration or between opening and writing
the key (`half`), a daemon that ended without being told (`fell`), two daemons
that made identities at once (`raced`), commands that crossed or were
interrupted (`disturbed`).

### Identity

Each process runs one of `login` (start, sleep, poll, userinfo, then the
file), `refresh_token` (load, POST, then the file), `get_identity_id` (load,
`is_expired`) and `clear_token`.  A token is whose `identity_id`, access token
and refresh token it holds, and what is left until `expires_at` and until the
provider refuses it; `Tick` lets time go by for all.  `code[p]` is the
provider: whether the user has entered the code, and the pace it wants.
`meant` is whom the last login or logout left logged in that no other change
ran beside.  A request ends with an answer or an error after any time: httpx's
`timeout=10.0` limits each connect, read and write and not the request, and
`expires_at` counts from after the answers.  The mark `late` of a token, which
the program does not have, says that more than the buffer went by before.

## 3. Runs

| run | question | instance |
|---|---|---|
| `StoreTwoRequests` | what stays true when two requests interleave, with crashes and shutdowns | 2 threads, 1 context, 3 versions, a clock that may tie |
| `StoreOneRequest` | does the store implement `VersionHistory` one request at a time, crashes included | 1 thread, 2 contexts, 3 versions, strictly increasing clock |
| `SdkStore` | what a returned value and each exception of the SDK say of the store, and that calls and requests end | 2 calls on 2 threads, a store that is new or has one context, 3 versions of which two share a tag, 2 labels; crashes, drains, restarts, timeouts; `SdkFairSpec` |
| `RelayReconnect` | isolation and registry over three connections of two devices in two groups | 3 connections, 1 frame each |
| `RelayFrames` | order and progress, malformed frames included | 2 connections, 2 frames each, `FairSpec` |
| `RelayClient` | what a returned `connect` and a sent envelope mean | 2 clients, 2 groups, 2 connections, 1 envelope each |
| `ConflictCheck` | the loops on every parent map of four versions | 4 ids, all 625 maps, cycles included |
| `SyncEngine` | result, log and queue | 2 contexts, 2 versions each, 2 calls, 2 retries, 1 refused session call |
| `TrustStore` | which key a device keeps and how long an answer holds, whatever other requests commit | 2 threads, this device and a peer, 2 keys and 1 that does not parse |
| `Bootstrap` | which identity, PID file and starts stay right | 2 commands at a time, 2 process numbers, 2 starts |
| `Identity` | who is logged in, on which token, at which pace | 2 processes, 2 accounts, 2 polls, a token of 4 ticks with a buffer of 2, answers that take any time |
| `SyncFastForwardViolation` | `docs/TESTING.md:200`: a fast-forward is never a conflict | violated: the peer's *tag* is looked up among version *ids* |

What the properties say (besides the type invariants, which `SdkTypeOK` and
`ClientTypeOK` contain for `ContextStore` and `Relay`, and which are proved for
these two, `ConflictCheck` and `TrustStore`):

* `HistoryClosed`: the parent of a stored version is stored, in the same
  context, in the tables and on disk.
  `VersionsImmutable`: committed rows do not change and go only with their
  context.  `AnswersDurable`: an acknowledged version is on disk until its
  context is deleted, an acknowledged deletion is final.  `RefinesHistory`:
  each context is a chain that grows at its end, in the order of `created_at`.
* `RoutedInGroup`: a delivered message was addressed to that device and comes
  from a device that authenticated for that connection's group, across
  reconnections.  `SessionsHaveHandlers`: a session's handler is running or
  died in `Greet`.  `ConnectedIsRegistered`: only a device's *own* other
  connection can cost it its session.  `InOrder`, `EveryFrameHandled`.
* `ConflictMeansUnrelated`: a conflict exactly if neither version reaches the
  other, with reachability defined by closed sets; `AnswerIsDetectConflict`:
  the loops compute `detect_conflict`; `VerdictReached`.
* `ReturnedCycleIsLogged`: a cycle that returned has decided each context of
  the peer once, and the log says the same, whatever rows refused commits left
  behind.  `CycleLoggedOnce`: a cycle that raised halfway too has at most one
  row of each context, though the row of a refused commit waits in the session
  and goes to disk with somebody else's.  `NothingDropped`: an operation queued
  since the start is queued or logged as failed.  `FailedAfterBackoff`.
  `FailureLoggedOnce`: a failure is logged once, and at most once more for each
  session call that was refused, because a pass that raises logs its earlier
  failures again.
* `KeyKept`: a registered device's key is never replaced.  `EntryKept`: who was
  answered as trusted keeps entry and key.  `AnswersHold`: an answer that nobody overlapped on its device is
  what the disk says until the next request for it, across what other requests
  commit or lose; the one exception, `missed`, is in section 5.
* `FailedUntouched`: a connection error, a 404 and a 400 mean that nothing was
  written and nothing will be, so only these may be retried blindly.
  `ReturnedHolds`, `LabelHolds`: a returned version or label is committed until
  somebody asks for something else.  `CallsInOrder`: a call sees what was
  answered before it was made, across restarts.  `EveryCallEnds`: call and
  request end without the timeout's help.
* `ConnectHonest`: `connect` returns only with a connection the relay has taken
  in.  `NoEnvelopeVanishes`: while connections last, every envelope on an
  authenticated connection waits, is being routed, has arrived or was answered
  with an error.
* `IdentityKept`: the registered id and key stay in the files and in the row.
  `StartsAlone`: a lone start fails only after a death inside the migration or
  the key file.  `DaemonNamed`: between commands that did not cross, the PID
  file names the daemon.  `StopHitsDaemon`: `stop` hits no other program unless
  a daemon fell or commands crossed.
* `AnswerStands`: refreshes, questions, deaths and time never change who is
  logged in.  `TokenOfOneAccount`: what is stored is of one account in all its
  parts.  `AnswerIsLoggedIn`: `get_identity_id` names
  who is logged in, on a token the provider still takes; the buffer of 60 s
  makes up for the time between the provider's answer and `expires_at`, up to
  its own length: tokens that were `late` are excepted (section 5).  `PaceKept`.

### Bounds and why they are enough

Two threads give every pair of session calls in every order; the hazards of the
store are between two requests (a third adds no new pair of accesses), and
three versions make a fork, a chain of three, and a version to lose.  Labels
matter to `LabelHolds` only, which has two.  The clock needs as many ticks as
versions can be inserted.  Three relay connections are a device with an old and
a new connection and its partner; a fourth repeats one of them, and the proofs
hold for any number.  Four ids give every shape of walk: a tail that leads into
a cycle, two disjoint chains, both directions.  In `SyncEngine` two contexts
let a cycle stop in the middle, two attempts have one backoff between them
(`MaxTime` 5 leaves time for it), two operations make a pass that stops
between them, and a refusal in any place of a cycle or a pass is one refusal.
`TrustStore` needs no counter: its state space is finite, so every sequence of
adds, revocations, losses and restarts is explored; two keys tell a kept key
from a replaced one, and `Self` is a device whose row exists before any request.  
In `SdkStore` the two calls begin on a store that already has a context, so
that they are a pair of requests in every order, and a retry after a timeout;
the clock stands still, because no property there depends on *latest*.  In
`RelayClient` two connections are one that is refused or lost and the next, or
two devices that talk; three connections are `RelayReconnect`'s.  `Bootstrap`
needs two numbers for a daemon and one that overtakes it, and two starts
for one that leaves something half done and one that meets it; three starts have
3.9 million states and pass too, and `BootstrapProofs` covers any number.
`Identity` needs two accounts to mix up and two polls with one slow-down in
between; its state space has no other bound.  `MaxCalls`, `MaxRefusals`,
`MaxTime`, `MaxFrames`, `MaxStarts`, `IdsLeft` and the sets of ids are the only
bounds.  Symmetry is
used only in runs of safety properties (`Interchangeable` permutes sets that
appear in no asymmetric place).

`CHECK_DEADLOCK FALSE` is set where the system really stops: a relay whose
connections are used up, a conflict check that is done, an engine or an SDK
whose bounded calls are used up, a machine whose starts are.

### Fairness

`SdkStore!SdkFairSpec`: a worker thread with a request in progress is scheduled
by the operating system, the thread pool takes queued requests (first come,
first served), and a response that was sent arrives; none for calls, timeouts,
crashes, drains or starts.  `Relay!FairSpec`: the event loop runs each coroutine
that can run; a send to a dead client ends because uvicorn's keepalive ping
drops it; there is no fairness for the wait for the auth frame, which has no
timeout in the code, nor for the clients.  `ConflictCheck!FairSpec`: a function
call runs to its end.  `SyncEngine` has no fairness: nothing calls
`retry_pending` on a schedule.  `RelayClient`, `Bootstrap` and `Identity` have
none: `connect` has no timeout of its own and may wait for ever for a relay that
is silent, and a command may be stopped.

## 4. Proofs

The assumptions are the ones the modules name: `None` (and `Torn`)
are no ids, rows or tokens, and bounds are numbers of the right kind
(`RelayAssumption`, `ClockAssumption`, `RowAssumption`, `TrustAssumption`,
`EngineAssumption`, `IdentityAssumption`).  Two sets are assumed finite, because
something is counted: `Ids` of `ConflictCheck` (`IdsAssumption`: a store has
finitely many versions, and the recursion of `Ancestry` counts down from their
number), and the process numbers and shells of `Bootstrap`
(`BootstrapAssumption`: a system has finitely many).  No other set is.
`CallsAssumption` of `SdkStore` asks for one context id and one version id, which
are those of the store of an earlier run.

* **`RelayProofs`** (any devices, groups, connections, frames): `TypeCorrect`,
  `Isolation`, `RegistrySound`, `RegisteredUnlessReplaced`, `FramesInOrder`,
  and of the composition with the clients `ClientTypeCorrect`,
  `ConnectIsHonest`, `EnvelopesStay`, `ClientIsolation`.  Isolation is not
  inductive: a message in an outbox is innocent only because the frame a
  handler held across its await was checked against the *connection* found
  then.  `IInv` adds that (`RoutesSound`), that a session's group is the one
  its connection authenticated for (`SessionsSound`), and that a connection
  which has a device keeps it (`Opened`).  The others look at frames on their
  way, and there every step of the relay does one of five things (`Moves`): a
  frame is queued, taken, handed on, answered with an error, or the frames stay.
  `InOrder` is then inductive with `InLine`: the frames waiting have numbers
  above the one in hand, and that one above all that arrived.  For the clients a
  connection is followed from both ends: greeted means admitted (`Welcome`), and
  of each connection what was sent is what waits, is in hand, was answered with
  an error or arrived (`Balanced`), one frame moving from one count to another.
* **`AncestryProofs`** (lemmas): `is_ancestor` is a recursive function with as
  much fuel as the map has entries.  Induction over data being out of reach, the
  proofs go over *walks*: a function from `0 .. k` of which each value is the
  parent of the one before (`WalkExists`, `AncestorByWalk`, by a least
  counterexample with the well-foundedness of `Nat`).  A walk of `k` steps over
  `k` ids that has not ended meets a version twice (pigeonhole, `WalkCloses`),
  so the ids met are closed under parents: `is_ancestor(a, d)` holds exactly if
  `a` is in every set that has `d` and is closed (`AncestorInClosed`,
  `ClosedIsAncestor`).  Cycles in a map a peer sent are included.
* **`ConflictCheckProofs`** (any finite set of ids, any parent map):
  `AnswerCorrect`, `LoopIsFunction`.  The invariant is that `visited` plus
  `current` is closed under parents once the walk ends and holds only ids that
  the start reaches, so a candidate not met is in no closed set's obligation.
  With the closed sets of `AncestryProofs` that makes the loops' answer the one
  of the recursive function that `SyncEngine` is composed with.
* **`SyncEngineProofs`** (any contexts, versions, retries):
  `ReturnedIsLogged`, `CyclesLoggedOnce`, `NothingIsDropped`, `BackoffKept`,
  `LoggedOnce`, `TypeCorrect`.  All are about books kept
  in several places, and `IInv` says what each holds at every step of a call:
  during `sync` each context of the peer is still to be compared and has no row,
  or is decided and has one row in the log that says so, and nothing of the
  cycle waits in the session (`CycleBooked`, `ReturnedBooked`); during
  `retry_pending` each operation before the cursor is kept or logged as failed
  (`RetryBooked`), and what a raise leaves behind is still queued; an operation
  knows its attempts and the time of the last one, each its backoff after the
  one before (`QueueBooked`).  `CyclesLoggedOnce` says of log and session
  together that they hold one row of each context and cycle (`RowsOnce`), so
  that it does not matter whose commit takes a waiting row along (`OnceJoined`).
  `LoggedOnce` counts rows of a failure in both places (`FailuresCounted`): at
  most one more than the calls that were refused, and no more than these as long
  as the failure is still to be logged (`Due`), so the row that is written
  next is paid for.

* **`ContextStoreProofs`** (any threads, contexts, versions, clock):
  `TypeCorrect`, `HistoryIsClosed`, `Immutability`, `Durability`.
  `HistoryClosed` is not inductive: between
  reading the latest version and the flush, the parent may be deleted by
  another request.  `IInv` says of every parent chosen (by a request or in a
  pending object) that it is still stored in the right context, or that the
  context is gone for good (`Links`, `Dead`), in which case the foreign key
  refuses the insert.  That a context is gone *for good* needs that ids are
  handed out once (`Minted`, `FreshContexts`, `FreshVersions`).
  `Immutability` adds `Committing`: what a request about to commit holds keeps
  every version on disk as it is, or drops its context with it
  (`Succeeds`); the lock of the write transaction keeps this true until the
  commit.  `Durability` is about a session shared by requests that flush, commit
  and roll back for each other, so `Lasting` follows what a request is going to
  say from the session through the tables to the disk (`Added`, `Written`,
  `Lasts`): a version is pending until somebody's flush, and then in the tables
  until somebody's commit, or its session is poisoned and the request will be
  answered with an error, or its context is gone.  It stays gone because a
  context whose insert is behind it (`Entered`, `Vanished`) is never drawn again.

  `OneRequestRefines` is the refinement, step by step: with one thread, and a
  clock that moves forward by any positive amount whenever a flush stores a row,
  `Spec => RefinesHistory`, for any contexts and versions, with failed
  flushes, crashes and shutdowns.  Both hypotheses are needed: two requests that read the same
  latest version store two with the same parent, and a tie lets *latest* be either
  of two.  The mapping lists the versions by how many are before them (`Nth`), so
  the proof counts instead of sorting; that every place of the list has a version
  (`Ranked`) is part of the invariant and not an induction over the list.  What
  makes a commit one abstract step is `Sequential`: the session holds what this
  request has added and nothing else (`Mine`), because what an earlier one left
  behind is in a poisoned session that writes no more; what it read is still so
  (`Seen`); and the tables are the disk with at most one change (`OneChange`).

  Of the composition with the SDK (any number of calls): `FailuresTouchNothing`,
  `ReturnedStays`, `LabelStays`, `CallsOrdered`, `SdkTypeCorrect`,
  `SdkDurability`.  A caller may leave before its request ends, so what a call was
  told says nothing of where its request is; `SdkIInv` keeps the books between
  the two (`Booked`: what a result may mean; `Serving`: a thread runs what one
  call asked for), on top of the store's invariant, every step of the
  composition being a step of the store or none (`SdkSteps`).  A version that a
  404 was answered for was drawn and is in no table, no session and no request's
  hands (`Unwritten`), which no step undoes.  A context nobody asked to delete
  (`Condemned`) is marked by nobody, and what an answer was given for is on disk
  and visible (`Kept`), so that a lookup finds it (`KnownFound`).  A label is
  followed from the shared session through somebody's flush to somebody's commit
  (`Carried`), with two threats to it excluded: another label call of the
  context, which the call would have noted when either began (`Alone`), and a
  commit() around the assignment, which expires it (`missed`).

* **`TrustStoreProofs`** (any threads, devices, keys): `KeysKept`,
  `EntriesKept`, `EnteredFound`, `AnswersKept`, `TypeCorrect`.  `AnswersHold`
  says nothing of requests in progress, so `IInv` follows the attribute on its
  way: a request alone on its device that set its mark outside of any commit has
  it pending with nobody in `commit()`, or written by whoever flushed first, or
  its entry waits to be inserted (`Ready`); once answered, the tables and the
  disk agree with the answer and no mark is pending that would change
  it (`SaidHolds`); and nobody else works on that device (`Alone`).  `Grown`
  and `DevicesStored` give the other three: inside a transaction rows are only
  added, and an entry has its device.
* **`BootstrapProofs`** (any finite process numbers and shells, any number of
  starts): `IdentityStays`, `LoneStarts`, `DaemonIsNamed`, `StopHits`,
  `TypeCorrect`.  `IInv` has four parts.  `Typed`: the shape of every process
  and command, and that a daemon about to
  write an identity has made one (there is an identity number for each start to make, by counting,
  `StartsBooked`, `IdentitiesBooked`).  `Identified`: as long as no two starts made
  identities at once and none died in between, files, row and every running
  daemon have the one identity.  `Lonely`: a start that nothing crossed has the
  files and the schema to itself, so what it read is still so.  `Booked`: while
  no commands cross, the PID file, the command in progress and the one daemon
  name the same number, whatever numbers are given away again.
* **`IdentityProofs`** (any processes, accounts, durations): `AccountsAgree`,
  `AnswerStandsAlways`, `AnswerHolds`, `PaceHolds`, `TypeCorrect`.
  `TokenOfOneAccount` speaks of the file alone, and a save writes what its call
  loaded or was given long before.  `IInv` says the same of the token every call
  holds (`CallOfOne`), with what the code checked before its POST: that there is
  a refresh token.  Then no interleaving of calls can matter, because no call
  puts together parts of two tokens.  For the other three `Stands` says what the
  call in progress may do to the answer: which calls can be open together and
  which of them was undisturbed (`Roles`, `Undisturbed`), that a save under way
  has the file to itself or something overlapped (`Saves`), that file and call
  hold what the last login meant (`Meant`), that the expiry of a token which is
  stored or about to be is no more than the buffer past its end, unless it was
  `late` (`Fresh`), and that the next
  poll is due no sooner than the provider's interval, which moves by the same
  five seconds in the same round (`Paced`).

Only model-checked: liveness (`EveryCallEnds`, `EveryFrameHandled`,
`VerdictReached`), which TLAPS does not do.

## 5. Seen while modelling, without a run

* Ties or steps back of the wall clock make *latest* another version than the
  last one written (`context_store.py:360-366`); `RefinesHistory` is therefore
  checked, and proved, for a clock that moves forward and one request at a time.
* An update whose context is deleted after it was looked up (`context_store.py`
  178-200) fails on the foreign key: the request answers 500, where the
  docstring (176) says `NotFoundError`, and the session is left poisoned
  (`ContextStore`'s `Flush`).
* A handler that dies while sending `auth_ok` (`relay/main.py:99`, before the
  `try`) leaves its session in the registry, where `docs/TESTING.md:121` says
  "Disconnect unregisters the session"; `SessionsHaveHandlers` names the case.
* Two updates that read the same latest version both become its child
  (`context_store.py:183`), where `docs/DESIGN.md:125` says an update's
  `parent_version` "points at the previous latest"; `HistoryClosed` holds
  of the fork.
* The `finally` block unregisters by device id (`relay/main.py:112`): a device's
  old handler takes the session of its new connection with it, where
  `docs/DESIGN.md:246` says "an in-memory registry of connected devices keyed
  by `device_id`".  `ConnectedIsRegistered` names the case.
* An attribute set between the flush and the COMMIT of another request is
  expired unwritten: `remove_trusted` answers 204 of a device that stays trusted
  (`trust_store.py:160`; its docstring, 148: "Revoke trust for a device"), and
  `update_label` 200 of a label that is not stored (`context_store.py:224`).
  `AnswersHold` and `LabelHolds` except exactly this (`missed`).
* Two starts that cross, a start beside a stop, and a number that was given
  away leave a `daemon.pid` that is not the "PID of the running daemon"
  (`docs/DESIGN.md:313`); two daemons of a first start may leave the id of one
  with the key of the other.  `Bootstrap`'s `disturbed` and `raced` except them.
* A SIGTERM before `daemon.py:192` kills the daemon wherever it is; inside the
  first migration it leaves tables on which every later start fails, where
  `database.py:70` says "Safe to call on every daemon startup".
* `shutdown` waits for requests in flight without a limit; no timeout is
  configured.
* `login`, `refresh_token`, `clear_token` and `get_identity_id` have no command:
  "Run: contexa auth login" (`auth.py:131`) names one the CLI does not have.
  A refresh that overlaps a logout logs the user in again; `meant` is unset
  then.
* A daemon that is killed leaves its PID file behind, and a `stop` after its
  number was given away signals another program (`cli/commands/daemon.py:55`);
  `StopHitsDaemon` excepts it (`fell`).
* `expires_at` counts from after the answers (`auth.py:230`, 263), and nothing
  bounds the time these take (`timeout=10.0` limits each read, and a response
  may need many): if it is more than the buffer,
  `get_identity_id` answers on a token the provider takes no more, where
  `auth.py:73` says "expired (with 60s buffer)".  `late` excepts this.
* A peer's version is never accepted as a fast-forward of ours, where
  `sync/protocol.py:11` ("fast-forward (accept A)"), `sync/protocol.py:156` and
  `docs/DESIGN.md:198` ("remote is a fast-forward") say it is: the version map
  is of the local store only (`engine.py:266`), which does not have the peer's
  version, and what is looked up in it is a tag (`SyncFastForwardViolation`).
* `EmbeddingStore.generate_and_store` is "called automatically after each
  context create/update" by its docstring (`embedding_store.py:89`), and by
  nothing in the code.
* Re-trusting a revoked device answers 201 and ignores the key it was given
  (`trust_store.py:120-126`): `KeyKept` holds because of it.
* `routes/trust.py` imports `DeviceAlreadyTrustedError` and
  `DeviceNotFoundError`, and nothing handles them: both answer 500
  `internal_error`.
* `target_not_connected` (`router.py:68`) is unreachable: `same_group` is false
  of a device without a session, so `docs/TESTING.md:118` gets
  `namespace_violation`.
* "Queues pending operations", "Retries failed syncs" (`engine.py` docstring):
  an attempt sends nothing and never succeeds, and a restart loses the queue,
  while the log keeps saying `pending`.
* `verify_device_identity` compares `identity_id` columns that nothing sets
  for peers, so in production every cycle is rejected; `RejectSync` and
  `BeginSync` leave the outcome open.

## 6. Plan

Order: what many steps of several actors can break came first.

1. *Done*: `ContextStore` with its abstraction, `Relay`, `ConflictCheck`,
   `SyncEngine`, `TrustStore`; proofs for the relay, the conflict check, the
   trust store, and the store's closure, immutability and durability.
2. *Done*: `SdkStore` and `RelayClient`, the two compositions with the programs
   on the other side; `Bootstrap` and `Identity`; the proof of
   `TokenOfOneAccount`.
3. *Done*: proofs for `SyncEngine`, `Ancestry`, `Bootstrap`, `Identity`, `Relay`,
   `RelayClient` and `SdkStore`, and of the refinement `RefinesHistory`.
4. `TrustStore` composed with `SyncEngine` in place of its open trust check: no
   cycle with a device revoked before it began.

Not modelled: vector similarity (numeric, and nothing stores a vector); parsing
of configuration and logging (read once, no state after that); the
cryptographic primitives (a library's, without state); CLI wrappers of the API
(stateless); `associate_identity` and `verify_device_identity` (nothing calls
the first, so the second always raises); the message classes of
`sync/protocol.py` that nothing sends; HTTP itself.
