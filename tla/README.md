# Verification of yandex-workspace-mcp

TLA+ models of the state-carrying parts of the Yandex Workspace MCP server, TLC
runs that check them on small instances, and TLAPS proofs of the properties
that matter most for every instance. All source paths below are relative to the
repository's `src/yandex_workspace_mcp/`.

## 1. Inventory

| Component | State | Operations | What is hard | What makes it correct |
|---|---|---|---|---|
| Upload jobs (`jobs/uploads.py`) | jobs in submission order, tasks, descriptors, closed flag | submit, the task body, get, list, close | a task ends, is cancelled or never starts while other requests prune, evict, list or shut down | bounded; active work never evicted; descriptor open iff job unfinished; one outcome per job; clean shutdown |
| OAuth provider (`auth/oauth.py`) | pending states, codes, token pairs, downstream records (in the token store) | authorize, Yandex callback, code exchange, refresh, revoke | every operation is several store calls with awaits between; the SDK loads before it exchanges; revocation races rotation and the callback | single-use state and code; one live pair per grant; revocation removes the pair |
| Token stores (`auth/stores.py`, `auth/redis_store.py`) | encrypted records by (kind, HMAC of id) | put, get, consume, put/rotate/revoke pair, register client | key rings being rotated replica by replica; find-then-script; expiry | single use; atomic pair rotation; a record written under a retired key is found and removed |
| Downstream credentials (`auth/credentials.py`) | downstream record per principal, per-process locks | resolve, refresh | the refresh HTTP call is in flight while the user revokes or signs in again, or another replica refreshes | one refresh per expiry and process; a failed refresh forgets the record |
| Recovery handles (`auth/recovery.py`) | handle -> page per principal | put, consume, close | concurrent consumers, another principal's attempt, expiry | principal-bound, consumed once |
| HTTP client base (`clients/base.py`) | attempts, deadline | request, retry wait | retries against an overall deadline; mutations must not be replayed | at most 3 attempts for reads, 1 for mutations, never past the deadline |
| Poller and URL policies (`policies/urls.py`) | deadline, poll count | poll_operation, validate_* | deadline and poll cap; terminal state seen late | bounded number of polls; result only from a terminal answer |
| Wiki service (`services/wiki.py`, `clients/wiki.py`) | per-grid locks, recovery handles | search, create/update/append/clone, delete/recover, grid writes, attachments | multi-call mutations that fail half way; concurrent grid writers | grid writes serialised per process; only what is under an allowed root is modified |
| Disk service (`services/disk.py`, `clients/disk.py`) | cursor state | search, copy/move/delete/rename, uploads, publish, trash | scan window and cursor; roots; partial mutation outcomes | only authorised paths; no duplicate results; bounded scans |
| Workspace search (`services/workspace.py`) | cursor | search, fetch | two sources run concurrently, either may fail; merged paging | no item shown twice; failures reported |
| Cursors (`policies/cursors.py`) | key ring | encode, decode | key rotation between pages | a cursor is accepted only for its principal, query and sources |
| Paths, local files (`policies/paths.py`, `policies/local_files.py`) | descriptors while walking | normalize, open | a failure half way through the walk | every descriptor closed once |
| Registered clients (`auth/oauth.py`, both stores) | clients and, per network peer, which are counted | register, get | the count must drop who expired; in Redis the clock is that of the sender; a key rotation starts a new count | at most the cap per peer; nobody refused without cause |
| Application (`server.py`, `main.py`) | opened resources, their state | open, lifespan, close, restart | a component fails to open, a close raises or is interrupted, calls and uploads run meanwhile | closed in reverse order of use, nothing left behind |
| Permissions (`config.py`, `tools/*.py`, `auth/scopes.py`) | the settings of a process | validate, register tools, expand and require scopes | three layers decide what a caller may do: tools registered, scopes, checks of the services | nothing beyond settings and scopes; what is offered works |
| Signed transfers (`clients/signed.py`) | none between transfers | download, upload | redirects and the byte cap while streaming | bounded redirects and bytes, one PUT |
| Audit log (`security/audit.py`) | none | log | every operation calls it itself, on its own paths | an entry per modifying operation |
| Transport security (`security/transport.py`), models, logging | none between requests | header checks, validation | none | only the registration source is modelled |

### How the components interact

* A tool call runs on the event loop of one process and calls a service, which
  calls a Yandex client (`clients/base.py`). The client asks the application for
  a credential under the deadline of the call; in multi-user mode that is
  `StoredCredentialProvider.resolve`, which reads the **token store** and may
  refresh the downstream record there.
* The **OAuth provider** and the Yandex callback write the same token store:
  pending states, codes, token pairs and the downstream record. Revocation
  deletes the downstream record a tool call may be refreshing at that moment.
* Replicas share nothing but Redis. Locks (`anyio.Lock` in the stores and the
  credential provider, the grid locks) exclude the requests of one process.
* The Disk service hands an open descriptor to the **upload job store**, whose
  task closes it. The application lifecycle closes the store at shutdown, before
  the clients that its tasks call.
* The **settings** decide twice: `open()` makes resources from them and
  `create_application()` registers tools from them. A tool call passes the tool's
  scope check and then the service's own permission check.
* Page deletion stores the upstream token in the **recovery store**, which in
  multi-user mode is the token store again.

What may be interleaved. Python code runs without preemption between two
`await`s. `asyncio.Lock.acquire` does not suspend when the lock is free, and in
the upload job store nothing awaits while it holds the lock, so each critical
section there is one step together with the code around it. `anyio.Lock` does
suspend, and every Redis or HTTP call does, so an operation of `auth/oauth.py`
or `auth/credentials.py` is one step per store call with any number of steps of
other requests between them. A request may be cancelled at any `await`.

## 2. Plan

Order: what can lose or leak something a user notices comes first.

| # | Modules | What they model | State |
|---|---|---|---|
| 1 | `UploadJobs` | the upload job store | checked, proved |
| 2 | `UploadListing` | paging through the changing job list | checked, proved |
| 3 | `OAuthProvider`, `GrantLifecycle` | the authorization server over an atomic store; the abstract life of a grant | checked, refinement proved |
| 4 | `Credentials` | refresh of downstream credentials on several replicas | checked, proved |
| 5 | `RedisRecords`, `AtomicRecord` | one record of the Redis store under a rotating key ring; an atomic record | checked, refinement proved |
| 6 | `WikiRecovery` | deletion and recovery of pages with the recovery store | checked, proved |
| 7 | `YandexRequest`, `OperationPolling` | attempts, back-off and deadline of a call; polling of an operation | checked, proved |
| 8 | `DiskSearch`, `WorkspaceSearch` | the scan of the file list, merged paging, cursors | checked, proved |
| 9 | `ServiceWrites` | every other modifying operation of the two services: authorization, grid locks, descriptors, audit log | checked, proved |
| 10 | `Permissions`, `Application` | what settings and scopes allow; open, lifespan, close and restart of a process with its calls and uploads | checked, proved |
| 11 | `ClientRegistry` | the registration cap per source, with expiry and a key rotation that hashes the source anew | checked, proved |
| 12 | `RedisPairs` | rotation and revocation of a token pair, whose two records may be under different keys | open |
| 13 | `Paths`, `Cursors` | pure functions against reference definitions | open |

Which module composes which: `UploadListing` extends `UploadJobs`, the client's
walk added to the steps of the store; `OperationPolling` extends `YandexRequest`
and makes its calls with it; `WorkspaceSearch` extends `DiskSearch` and runs it
beside Wiki search; `Application` extends `UploadJobs` and `Permissions` and closes
the store of the one under the settings of the other. `OAuthProvider`, `Credentials` and `WikiRecovery` take their
store to be atomic; `RedisRecords` says when the Redis store is. Abstract
specifications are `GrantLifecycle` (what a client may rely on, per authorization
code) and `AtomicRecord` (what the OAuth code relies on, per record).

Both refinements are proved, and every safety and action property that a run checks.
Open are the modules of rows 12 and 13.

## 3. The modules

A request is a process. Its program counter, `req[r].at` in most modules, names
the call of the store or of Yandex that it waits for, and one action takes it from
there to the next such call. History variables record what happened for the
properties; no guard reads them.

### UploadJobs (`jobs/uploads.py`)

`jobs` are the keys of `_jobs` and `born` their order in it; `status`, `expires`
and `handle` are fields of the job records; `task` is the state of the asyncio task
of a job, `registered` the keys of `_tasks`, `cancelling` the tasks on which
`cancel()` was called; `closed` is `_closed` and `closer` where `close()` is.
Actions: `Submit` (`SubmitClosed`, `SubmitFull`, `SubmitAccepted`, with the prune
and the eviction), `Start`, `RunnerReturns`, `RunnerRaises`, `RunnerCancelled`,
`CancelledUnstarted` (`_run`; `Leave` is its `finally`), `Query` (`get` and `list`,
which prune), `CloseIdle`, `CloseBegin`, `CloseFinish`, `CloseInterrupted`
(`close`). Time is a wall clock that may be set back.

A task cancelled before its first step never enters the `try` of `_run`, so its
`finally` does not run; the final pass of `close` is what releases it. That is
why `AbortedLeaks`, the second half of `ShutdownClean`, says exactly which
descriptors an interrupted `close` leaks. `RetentionRespected` is an action property:
only an ended job is forgotten, and only when its time is over or by a submission
that found the store full, oldest first.

### UploadListing (`jobs/uploads.py`, `list`)

The offset cursor over the job list while the list grows at its end and shrinks
anywhere. `NoRepeat`: a job is shown at most once in a walk. `NoSkip`: a job that
was there all along and whose predecessors stayed is shown by a finished walk.

### OAuthProvider (`auth/oauth.py` over `auth/stores.py`) and GrantLifecycle

`states`, `codes`, `access`, `refresh`, `downstream` are the record kinds of the
store. The access and refresh token of a pair share a name because each record
names the other token and both are always written together. Scope sets closed
under implication are a chain, so a set is its size. `Abandon` ends a request at
any point: an error of Yandex or the store, a disconnect, or a restart. `Expire`
removes any record (an access token before its refresh token).

`GrantLifecycle` is the abstract promise per authorization code: no pair yet,
then one current pair that is replaced by fresh ones, then over for good.

### Credentials (`auth/credentials.py`)

Requests of one principal on several replicas. The lock is per replica; sign-in
(the callback) and revocation take no lock. The module keeps the order of
`resolve` and `_refresh`: read, lock, read again, call Yandex, write or delete.
`Cancel` is the deadline of `clients/base.py`, an unreachable store or a restart.

`GrantInForce` and `ForgetsOwn` say how far the code protects a newer record:
unless the sign-in or revocation happened while a refresh was between its second
read and its write (`overlap`), or another replica wrote. These exceptions are
real behaviour of the code, kept visible in the statements.

### RedisRecords (`auth/redis_store.py`) and AtomicRecord

The Redis key of a record is an HMAC under an encryption key, so one record has
a `slot` per encryption key. A replica writes under the first key of its `ring`,
and deletes the others in the same transaction (`Put`); a lookup asks under one
key after another (`FindNext`) and then reads or consumes with a script (`Eval`).
`Restart` gives a replica the new ring, as docs/deployment.md:23 has it.
`current` is the record an atomic store would hold, `settled` that every replica
has the new ring and the record was written or deleted since, `calm` the lookups
begun after that. `ConsumedOnce` holds throughout; `ImplementsAtomic` says that from
then on the keys of Redis, the sequence of reads and the script implement
`AtomicRecord`: the abstract content is `current`, a calm lookup is a call that has
been made, its answer is fixed at the read or the script that decides it (`CallOf`,
`AnswerOf`), and what lookups begun earlier do is invisible. `OneCopy` and `Linear`
are the parts of the argument.

### WikiRecovery (`auth/recovery.py`, `services/wiki.py`)

`delete_page` and `recover_page` with the in-memory recovery store, its
`anyio.Lock` (`queued` are the tasks that asked for it, `ahead[t]` those that asked
before `t`) and `close()`. `restores` is the page the token of a deletion restores
while Yandex still honours it. `gone` collects the deletions the statement of
`Recoverable` excepts: a call failed or was cancelled, the handle expired, or the
store refused it. Failing calls may or may not have taken effect at Yandex.

### YandexRequest (`clients/base.py`) and OperationPolling (`policies/urls.py`)

`YandexRequest` is one `request()`: its attempts, the back-off, `Retry-After`, and
the deadline that cuts every wait (`Expires`). Answers that are not repeated end it
at once (`Answered`), 408 as a timeout and 500 as unavailable, on any attempt. `OperationPolling` makes one such
call as a mutation and then, when Yandex answers 202, one per status request.
`clock` is discrete time; `Tick` does not pass an instant at which something of
the program is due, except that a pause between polls may end one unit late, so
that the check at the head of the loop can find its deadline passed.

### DiskSearch (`services/disk.py`) and WorkspaceSearch (`services/workspace.py`)

`DiskSearch` is one scan of the file list by offset, up to a page of matches or
the scan limit. `WorkspaceSearch` is a client that follows the cursors of `disk_search`
or of `search` while files are uploaded and deleted. Wiki answers
every call with any pages. `seen` in a cursor holds the last `Window` items,
hashed under the first key (`Hash`); `Rotate` prepends a key.

Both services have a loop that skips what was seen and stops when its page is full.
The model says what such a loop takes (`Picks`: increasing indices without a repeated
item, such that whatever is left out was taken before or came after the page was
full), because a recursive definition could not be reasoned about. `PicksAreOne`
proves that there is always exactly one such selection, and `MCWorkspaceSearch` has
TLC compare it with the loop on all short inputs, and `RoundRobin` with the
`zip_longest` it stands for.

### ServiceWrites (`services/wiki.py`, `services/disk.py`)

A request has an operation and the list `todo` of what it still does: `Plan` gives
the list per kind of operation, each with the methods that have it. `authorize`
stands for a check of a path or slug in the request, which cannot change;
whether every path and slug named passes is `named`, and operations that name none
have it true (`Names`). `resolve` and `destination` stand for a check that asks
Yandex where an item is now, `owner` for the page of a grid. `restore` does both: where the Trash
entry comes from and where it shall go. `locks` is the weak dictionary of grid locks: a lock object
is a number, and it is gone once no request refers to it (`WeakTable`). `Abort`
is a failure or a cancellation at any call; what the code does on its way out,
and only that, is `End`.

### Permissions (`config.py`, `auth/scopes.py`, `tools/*.py`)

Constant operators on a record of settings. `Valid` is the validator over several
settings. A tool stands for all tools with the same service, class of operation,
extra setting and resources; `Registered` are those `create_application` registers,
`Reaches` what the methods behind `search` and `fetch` may call. `ServiceAccepts` are
the checks with which each method of a service begins: the service is there, its
class of operation and its extra setting are enabled. The two methods that query
upload jobs ask for the job store only (`UploadQuery`), and none asks for the
transport. It says nothing of a method whose check differs from those of its kind. `PrincipalScopes` are the scopes of a caller
in each mode of authentication.

### Application (`server.py`, `main.py`)

`phase` is where the process is, `opened` the list `_opened_resources` (its order is
that of `Kinds`), `live` what exists and is not closed, `shutting` the resource whose
`close()` is awaited, `raised` the one whose `close()` raised. `Build` and `BuildFails`
are the part of `open()` without a suspension; `OpenStore` and `PingFails` the ping of
a Redis store before it. `CloseNext` is one turn of the loop that pops the newest
resource; closing the upload job store is `CloseBegin` ... `CloseFinish` of
`UploadJobs`, so shutdown waits for real tasks. `Interrupted` is an exception that
leaves the loop. `Restart` starts a process with any settings; a token survives it in
Redis only. Tool calls (`StartCall`, `Resolve`, `EndCall`) and upload jobs run while
the process is closing, as in the code, where `state` is unset only at the end.

`ClosedUnlessRaised` and `NetworkClientsClose` say what is left at rest: nothing unless
a `close()` raised, and no network client at all, which the code does not keep (see
below). `ToolsBacked` and `ServedAreRegistered` compare three places of the code that
were written apart, the resources of `open()`, the registered tools and the checks of the
services, in both directions: what is registered works, and what would work is
registered. The second matters because `search` and `fetch` are always registered and
scopes are those of both services together. `UploadGap` and `TransportGap` are the
exceptions, see below.

### ClientRegistry (`auth/oauth.py`, `auth/stores.py`, `auth/redis_store.py`)

A registration is built with the clock and the first key of its replica (`Submit`) and
stored later (`Register`), atomically in both stores. `members` is the set of counted
clients per key and peer. The one difference between the stores is the clock with
which expired clients are dropped: `Asof` is the store's own in memory and the sender's
in Redis. `Rotate` is a restart with another first key. The SDK draws a new id for
every registration, but redis-py repeats a script whose answer was lost, so `Register`
may run again for a client that was registered or refused; `Exists` is what keeps it from
counting twice or from being refused because of itself. (A repeated script has the key
and peer of the first. The same id under another first key or from another peer, which
the server never sends, would be counted anew in Redis, while the memory store looks
under every key.)

`MCOAuthProvider` runs it beside `OAuthProvider`: both are handlers of one provider, but
share no variable, so a behaviour of the instance is of the one or of the other (`part`)
and the other's variables keep their initial values.

## 4. Runs

| Run | Bounds | What it shows, and why the bounds are enough |
|---|---|---|
| `upload_jobs` | three jobs, capacity 2, TTL 1, clock 0..1, pages of one | bounds, ownership of descriptors, retention, shutdown, and a client that pages through the jobs meanwhile; a full store needs capacity + 1 submissions, the clock can pass an expiry and be set back, and a page boundary has jobs removed on both sides |
| `oauth_provider` | two clients, one user, two states, two codes, three pairs, two requests, two scope levels; three registrations from two peers, cap 2, two replicas, two keys, lifetime 1, clock 0..2 | the life of a grant; two requests suffice for a race between two store calls, three pairs for a rotation of a rotation. Registration: a peer can fill its cap and have a client refused, clients expire or are registered again while others are on their way, replicas count under different keys |
| `credentials` | two replicas, two requests, two account events, three access tokens | refresh; the requests meet on one replica or on two |
| `redis_rolling` | two replicas, two lookups, three payloads, a key is prepended | what a rotation in progress keeps, and that the record is atomic after it; two lookups race for one payload, a third payload is written meanwhile |
| `redis_rewrite_race` | both keys from the start | violation, see below |
| `wiki_recovery` | two requests, two principals, two pages, two handles | a principal that is not the owner, a second consumer, a close with both waiting for the lock |
| `operation_polling` | timeout 8, pause 2, least timeout 2, delays 1..3, three polls, clock to 25 | three attempts fit a deadline and their waits do not always; three polls reach the cap, and a poll can begin just before the deadline |
| `workspace_search` | five files (four match), two Wiki pages, pages of two, batches of 3, scan limit 3, window 2, largest offset 4, two changes, one rotation | more items than the window, more files than one scan; a deletion and an upload during one walk |
| `service_writes` | two requests, two items, two grids, one move, every operation | two writers of one grid or of two, an item that moves out between check and modification, a path that is allowed where the item comes from and not where it goes |
| `application` | eight settings, two jobs in a store of one, one call, clock 0..1, one restart | every resource, every tool and every way `open()` ends occurs in some settings, settings that register little beside some that register much; a shutdown can meet a task that never started |
| `application_close` | as `application` | violation, see below |
| `service_writes_audit` | the operations of Disk that do not log | violation, see below |

Symmetry is used where no liveness is checked (the refinements are safety
properties, their mappings symmetric): for requests, states, codes and
pairs in `oauth_provider` (its registrations have the names of pairs and its peers those
of states, of which the other part makes no use), for requests, replicas and payloads in `redis_*`, for jobs
in `upload_jobs`, for the matching files and the Wiki pages in
`workspace_search`. Deadlock is
checked in `credentials`, `wiki_recovery` and `redis_*`; the
others stop when their tokens, jobs, clock, restarts or changes run out. The audit run
also checks deadlock, but ends at its violation.

### Findings

* `redis_rewrite_race` (`PresentIsFound`). `_find` asks for one candidate key after
  another while `_put` moves a record from an old key to the new one. A lookup between
  the two misses a record that was there all the time. It concerns records that are
  rewritten, which downstream credentials are; docs/authentication.md:19 says that all
  listed keys decrypt old records.
* `service_writes_audit` (`Audited`). `rename`, `upload_local_file`,
  `upload_from_url`, `publish`, `unpublish`, `restore_from_trash` and `empty_trash`
  write no audit entry; docs/security.md:43 says that every modifying operation does.
* `application_close` (`NetworkClientsClose`). The first `close()` that raises or is
  cancelled ends the loop of `_close_resources` (server.py:382-387), and `_closed` is
  set by then, so a second `close()` returns at once: the resources opened before that
  one stay open, network clients among them. The run shows it after an `open()` that
  failed half way. docs/architecture.md:7 says that network clients close. After a
  shutdown of this kind the application also keeps its `state`, so tools still find
  their services (phase `broken`).
* docs/architecture.md:7 also says that importing `server` creates no client, task or
  store. The last lines of the module call `create_application(get_settings())`
  (server.py:578), which constructs the token store when the settings ask for multi-user
  mode, before any `open()`. In the model it is `Constructed`, there from `AppInit` on.
  It is a fact of one line, not of an order of steps, so no run is about it.

Behaviour met on the way that no document contradicts, visible in the statements
of the properties or in the models:

* During a rollout a replica without the new key cannot read what the others write
  (`ImplementsAtomic` speaks of `calm` lookups only).
* A late answer of a refresh brings back a record that was revoked or replaced
  while Yandex was asked (`overlap` in `GrantInForce`).
* A deletion whose answer is lost is neither recoverable nor logged (`gone`).
* Disk items fetched for a workspace page that Wiki results filled are not shown on
  the next page either (`cut` in `NoSkip`).
* A key rotation forgets what a search had shown (`NoRepeat`), and a scan that
  would go on past offset 10 000 is an error (`TooFar`).
* `disk_upload` takes its content inline and sends it through the signed transport
  (services/disk.py:445). `open()` makes that transport for local uploads and for
  reading from Disk only (server.py:246), so a server with `DISK_WRITE` and without
  `DISK_READ` over HTTP registers the tool, which then always fails (`UploadGap`).
* A store that does not answer the ping of `open()` is not in the list of opened
  resources yet: its Redis client is not closed (phase `unreachable`, which
  `ClosedUnlessRaised` leaves out).
* `upload_local_file` and `upload_attachment` do not ask for the transport. Over HTTP
  they are out of reach only because their tools are not registered there
  (`TransportGap`).
* After a key rotation the clients of a peer are counted anew under the new first
  key, so the cap is per key (`CapHolds`). Clients without a secret never expire and
  count for ever.
* The last status request of a poll may end 0.1 s after the deadline
  (`PollingInTime`).

## 5. Fairness

* `Application`: the event loop runs every ready task and every runner ends (its HTTP
  calls have deadlines), so the steps of upload tasks and `JobStoreCloses` are weakly
  fair; the `close()` of every other resource returns or raises. Nothing is assumed
  of submissions, calls, restarts or of a shutdown being asked for.
* `Credentials`: store calls and the call to Yandex end (weak fairness of each
  step); `anyio.Lock` hands over in order of arrival, which is stronger than the
  strong fairness assumed of `Acquire`.
* `WikiRecovery`: calls of Yandex end, with an answer or an error, because they have
  a deadline (`Fail` is among the fair steps). `anyio.Lock` is first come, first
  served, which is in the model (`ahead`), so weak fairness is enough.
* `OperationPolling`: the program's own steps and the passing of time are weakly
  fair. Of Yandex nothing is assumed: no answer ever need come.
* `ServiceWrites`: each step of a request is weakly fair, as its calls have deadlines.
  `Abort` is not, so no request ends only because it is cancelled. `asyncio.Lock`
  wakes in order of arrival, again in the model.

## 6. What is proved

Every module is proved for arbitrary constants under its named assumptions: limits,
windows and caps are positive, bounds are natural numbers. Files and pages of a search
may be any sets; a file list is finite. Each component has one inductive invariant,
preserved with one step or lemma per action. Why each is stronger than the property
it is for:

* `Application_proofs`, in its first half, `UploadJobs`: the invariant relates the state of each task to its job's
  status and descriptor; without the task state `HandleOwned` is not inductive,
  since `close` has to know which tasks never started. For the pages of
  `UploadListing`, `WalkInv` adds that what was listed is placed before the cursor and
  what was not listed at or after it. The places of a set of jobs are the numbers of
  older jobs in it; different jobs have different places, so a page never holds more
  jobs than places (`PageFacts`, by the library's theorem on injections), and a step of
  the store only moves a job towards the front (`PlaceShrinks`).
* `OAuthProvider_proofs`: the properties speak of records in the store, but a
  request carries copies of them. The invariant therefore describes what a
  suspended request may hold: an unused state or code that nobody else holds,
  a record equal to the one the token was stored with, the rights of which go
  back to the authorization. Freshness of minted tokens links the history.
  `RefinesGrantLifecycle` adds what the mapping is under the invariant: at most one
  pair of a code has a refresh token, so `CurrentPair` is that pair; issuing, rotating,
  revoking and expiring it are the steps of `GrantLifecycle`, all others stutter.
* `Credentials_proofs`: mutual exclusion on the lock of a replica, what the holder
  knows about the stored record at each point, and that numbers of access tokens
  only grow.
* `RedisRecords_proofs`: a payload is under one key at most and, once consumed,
  under none; once the rotation is settled only the first key of the new ring is
  in use, so every lookup decides at a single read. That read, or the script after
  it, is the step of `AtomicRecord` in `RefinesAtomicRecord`; every other step of a
  lookup stutters. `NewKeyAssumption` (the new ring prepends a key that the old one
  did not have) is needed: with a key repeated in the ring a lookup would read it twice.
* `WikiRecovery_proofs`: the token of a deletion is in one place only: with the
  request that deletes, in the store, or with the one that recovers. The
  line for the lock is a strict order of the tasks in it.
* `OperationPolling_proofs`: attempts are counted against the loop variable, and
  every wait is placed before the deadline it was cut by; the polls before the
  poller's deadline, but for the least timeout.
* `Application_proofs`, in its second half, `Application`: the invariant of the upload store is carried along; every turn
  of the closing loop keeps `opened` and `live` an initial segment of what the
  settings need, up to the resource being closed. `ConfigurationAssumption` says that
  processes are started with settings the validator accepts. `ServedOnlyRegistered`
  needs that nothing is live but what the settings of the process need.
* `OAuthProvider_proofs`, at its end, `ClientRegistry`: `CapHolds` counts usable
  clients, the code counts the members of a set. `RegistryInv` relates the two:
  members of a set are registered under its key and peer and at most Cap, and every
  usable client is a member of the set of its place, because a registration was sent in
  the past, so that what its script drops by the sender's clock has expired. That a
  repeated registration is not refused because of itself needs no more than `Exists`.
* `WorkspaceSearch_proofs`: what the server knows of a walk is in the cursor, so the
  invariant ties the cursor to history: its `seen` is the last `Window` items shown with
  their keys (`CursorInv`); a scan has found nothing twice, and nothing of what it was
  told was seen (`CallInv`); and each steady matching file at a place before the offset
  of the cursor was shown or cut, before the offset of a scan also found (`CoverInv`).
  That `LastSeen` may be taken page by page is `LastSeenConcat`: what is forgotten early
  would be forgotten anyway. For `NoSkip`: a batch is never larger than the room that is
  left, so by a pigeonhole argument the loop over it never stops early (`RoomForAll`);
  an upload moves no file to a smaller place, and a removal only those after it,
  which stop being steady.
* `ServiceWrites_proofs`: the invariant speaks of the list of steps a request has
  left: `close` comes after `open`, every `resolve` and `authorize` before whatever
  modifies, and what is no longer to be checked was inside, or named. That holds of each plan and of every tail of
  it. For the lock: the object of a grid outlives those who refer to it,
  any two who share an object are in line, and the holder has nobody before it.

Some results are proved and not run, because TLC would add nothing to them: the
type invariants, `TasksTracked` and `OutcomeStable` (upload jobs), `CodeSingleUse`,
`RotationLinear` and `PairConsistent` (OAuth), `OneCopy` and `Linear` (Redis), `Honest`
and `PollsApart` (polling).

Only model-checked: all liveness (`ResolveEnds`, `TasksEnd`, `Ends`, `RequestEnds`,
`ShutdownEnds`, `UploadEnds`), which is beyond the prover, the absence of deadlock, which
needs ENABLED, and that `Picks` and `RoundRobin` are the loops of the code, whose
recursion is data that the prover has no induction for. (That `Picks` has a member is
proved without one: a least number of items for which it has none does not exist.)

## 7. Not modelled

Encryption (a record reads back as what was written, or as missing), HTTP and
TLS, string validation, Pydantic models, the wording of logs. PKCE, redirect-URI and
client authentication are the MCP SDK's and appear as a request that may be abandoned
between loading and exchanging. Reads of Wiki and Disk other than search keep no
state and appear as the calls of `Application`. Proxy, origin, host and size checks
(`security/transport.py`) look at one request at a time. A signed transfer
(`clients/signed.py`) keeps no state: its redirects and bytes are counted by local
variables of one function, and what is hard about it (DNS, TLS, URL validation) is
not its order of steps. The walk of local paths is a loop over the file system that
no other part interferes with. Token pairs whose two records are under different keys
of Redis are in the plan.
