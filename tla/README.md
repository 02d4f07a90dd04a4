# LiteMLflow in TLA+

LiteMLflow is a single-process experiment tracker: an HTTP and gRPC server
speaking the MLflow API over one SQLite database, with a time-travel event log, a
janitor, artifact and dataset stores, a model registry, federated search, webhooks,
workspaces and several ways to log in. This directory holds TLA+ modules of its
parts, the TLC configurations that check them on small instances, and proofs that
TLAPS checks for every instance. Paths below are relative to `internal/` of the
repository unless they say otherwise; `PROJECT.json` maps each definition to the
lines it models.

To check a run: `tlc -config Registry.cfg MCRegistry` (a run's module is `MC` and the
run's name; the four RunStore runs use `MCRunStore`). Each takes two minutes or less.
To check proofs: `tlapm AccessProofs.tla`, and likewise for the seven other modules of
section 10. From nothing `RunStoreAsOfProofs` takes some twenty minutes, the others between
two and fifteen.

## 1. The system and its modules

| part | code | modules |
|---|---|---|
| runs, run tags, event log, `?as_of=` reads, janitor | `store/sqlite.go`, `sqlite_lineage.go`, `sqlite_events.go`, `server/janitor.go`, `api/mlflow/handlers.go` | `RunStore`, `MCRunStore`, `RunStoreProofs`, `RunStoreAsOfProofs` |
| metrics, params, spans, run search, metric history | `store/sqlite.go`, `migrations/010_metrics_latest.sql`, `api/mlflow/handlers.go`, `api/native/handlers.go`, `grpcotlp/ingest.go` | `Tracking`, `Keyset`, `MCTracking`, `TrackingProofs` |
| workspaces, members, roles, experiments, dashboards | `store/workspaces.go`, `store/sqlite.go`, `server/middleware.go`, `server/rbac.go`, `server/grpc_auth.go`, `api/native/workspaces.go` | `Access`, `Keyset`, `MCAccess`, `AccessProofs` |
| model registry and prompts | `store/registry.go`, `api/mlflow/registry.go`, `store/sqlite.go`, `api/native/handlers.go` | `Registry`, `MCRegistry`, `RegistryProofs` |
| datasets, content-addressed store, run inputs | `datasets/cas.go`, `store/sqlite_datasets_v2.go`, `store/sqlite.go`, `api/native/datasets.go` | `Datasets`, `MCDatasets` |
| artifact stores | `artifact/store.go`, `artifact/s3.go` | `Artifacts`, `MCArtifacts` |
| login rate limiter | `server/ratelimit.go` | `RateLimiter`, `IdealLimiter`, `LoginProofs` |
| sessions, passwords, OIDC | `store/sessions.go`, `auth/*.go`, `server/middleware.go`, `api/native/handlers.go` | `Login` (extends `RateLimiter`), `MCLogin`, `LoginProofs` |
| federation | `federation/federation.go`, `api/native/federation.go`, `store/sqlite_peers.go` | `Federation`, `MCFederation`, `FederationProofs` |
| webhook dispatcher | `webhooks/dispatcher.go` | `Dispatcher`, `Delivery`, `MCDispatcher`, `DispatcherProofs` |

How the parts meet. Request goroutines, the janitor and readers share one database
through a pool of connections. SQLite gives each statement a snapshot and admits
one writing transaction at a time. Authentication (`Login`) comes before the
workspace and role checks (`Access`), which come before the handlers. A handler makes several
store calls and a store call several statements; what happens between any two of
them is what these modules are about. Handlers call `Notify` after their store call
returns; the dispatcher reads the webhooks from the same database.

What is hard here:

- reads outside the transaction that uses them (`before` values, role lookups,
  `MAX(version)`, stat before rename, the cached answer of a peer);
- requests made of several commits, any of which may be the last one;
- deletions that cascade while something is being created below them;
- pages of a search with commits between them;
- goroutines that outlive their request: session touches, retries, fan-out.

### Conventions

The modules of request handlers have the same shape. `req[p]` is the request that
goroutine `p` serves, with its program counter. One action is one statement outside
a transaction, one whole transaction, one system call or one call to another server,
because that is what the others can see. A transaction that reads before it writes
is two steps: in WAL mode the write fails when anybody has committed since the read,
and the code starts again (`fresh` in `Registry` and `Datasets`). `Fail` (or
`Cancel`, `FsFail`, a lost answer) is every error return and cancelled context.
`Crash` loses all requests and keeps what was committed. History variables are
marked so in their comments, and no action tests them. Names, contents and users are members of
small sets; an id that the code draws from a sequence is a number. `MaxOps` and the
other constants commented as bounds limit how much happens, never what.

## 2. The run store: `RunStore`, `MCRunStore`

**State.** `row`, `tags` and `events` are the tables, `nextId` the
AUTOINCREMENT value, `lock` the holder of SQLite's write lock. `req[p]` is the
request goroutine `p` is serving: its operation and arguments, the cells it has
still to pre-read (`want`), what the pre-reads found (`got`), when it took the
lock (`t0`) and the tags CreateRun has still to set (`rest`). `rd[p]` is an as-of
read. `clock` is the wall clock in milliseconds. `past`, `log` and `horizon` are
history variables that no action tests: the committed state at the end of each
millisecond, every event ever written, and the largest prune cutoff.

**Actions.** A mutator is an arrival (the handler and its workspace check), one
`PreRead` per cell, `BeginTx`, and one action named after the store method that
does everything from its first statement to `Commit`. The statements inside a
transaction are one step, because nobody sees them before the commit. Their time
stamps are not taken at one instant: `Stamps` chooses, for each event row, any
time between the lock and the commit, not decreasing. `Fail` is every error
return (busy timeout, cancelled context, ErrNotFound, foreign key), at any point
of a request; it rolls back. `Crash` loses all requests and keeps what was
committed. SetTag is SetTags with one tag: the code of the two differs only in
that SetTag reads one value. `CreateRun` continues with one SetTag per tag,
ignoring their errors, as the handler does.

`JanitorTick` may happen whenever the janitor is idle. It takes the tick's time
and `now` at the same instant, and the SELECT of the stale ids with it.

`GetRunAsOf`, `ScanEvents` and `ReadTags` are the three queries of
`getRunAsOfImpl`. The code undoes the newer events one by one from the last to
the first. `UndoRow` and `UndoTags` say directly what that leaves in each column
and tag: the `before` of the first newer event that touches it. `UndoRowLoop` and
`UndoTagsLoop` are the loops as the code runs them, and `ReplayIsTheLoop` compares
the two in every reachable state.

**Data.** Run ids, tag keys and tag values are members of small sets; a parent
tag names a run or is empty. A row has the columns that some operation here
writes or tests. The other columns are constant after the insert. The JSON
payload of an event is its key, value and `before`; `int64` times survive the
trip through JSON's float64 because they are below 2^53.

**Time.** The clock never goes back. With a clock that does, `LogOrdered` and
everything built on it fails; the code makes no provision for that.

**Settled milliseconds.** The exactness properties speak of T such that no
transaction was open as T ended (an event of an open one may carry the stamp T
and commit later), events after T are not pruned, and the run existed.

| run | bounds | shows |
|---|---|---|
| RunStoreReader | a writer, the janitor and a reader, one request at a time, 2 requests, 3 ms, replay limit 1 | `AsOfExact` and `MutationLogged`: as-of reads are exact and every change is logged when requests do not overlap, with errors, crashes, janitor and pruning; `ReadRowExact`: the row of an as-of answer is exact although its queries are separate; `TypeOK` |
| RunStoreConcurrent | 2 writers (symmetric) and the janitor, 2 at a time, 3 requests, 2 ms | `LogOrdered`, `ParentAsOfExact`, `NoFutureTag`, `ReplayIsTheLoop`, `JanitorKeepsOutcomes` |
| RunStoreCreate | 2 runs, 2 writers, parent tags and their deletion, 2 requests, 1 ms, fairness | `ParentTagMirrored`: CreateRun with several parent tags keeps column and tag equal; `RequestsFinish`: every request ends, because whoever has the write lock gives it back on every path, errors included |
| RunStoreStaleBefore | 2 writers, 2 values, 2 requests, 3 ms | *violated*: `AsOfExact`, by a stale `before` |

Two requests in flight are what a race on a
`before` value needs, and three requests let a third one see the damage. Two
milliseconds make stamps equal and different; three let T be past, with events
on both sides and a cutoff in between. `StaleAfter = 0` makes every running run
stale one millisecond after its start, and `Retention = 1` lets the cutoff fall
among the events of the run.

**Fairness** (`FairSpec`): weak for a goroutine's own steps (`GoOn`), since goroutines are
scheduled and statements return; strong for taking the write lock (`TakeLock`), since SQLite's
busy handler tries again and a lock that is free again and again is taken. Of the errors only
those that the database forces (`Refused`: a primary key or a foreign key, no such tag) are
among the fair steps. Timeouts, cancelled contexts and I/O errors may happen at any
step and are never assumed to: a lock that an error path does not give back
leaves the others waiting, which is what `RequestsFinish` would show.

The violated run is a disagreement between the code and its own comment; section 9 has it,
with others that need no run of their own. What holds all the same is worth as much: in one
snapshot a stale `before` is never from the future (`NoFutureTag`), and the parent is exact in every
interleaving (`ParentAsOfExact`), because its `before` is read inside the transaction. The
same remedy would work for the tags.

## 3. The dispatcher: `Dispatcher`, `Delivery`, `MCDispatcher`

`Dispatcher` has a step for each select statement and each blocking call of
`Notify`, `worker`, `deliver` and `Stop`. `call[n]` is a Notify with the webhooks
its loop has still to do; `queue` the channel; `agent[a]` a worker, or a call of
Stop, which delivers in its final sweep. `fate`, `posts`, `recorded` and `early`
are history. A select with several ready cases takes any of them. The backoff
timer and the drain timeout may fire at any moment. A post succeeds or fails;
an echo URL always succeeds. Webhooks that are disabled or not subscribed make no job
and are left out. The workers' context is `context.Background()`
(`../cmd/litemlflow/main.go`), so it is never cancelled; the sweep's own 5 s context
shows as a failing post followed by the end of the job. `json.Marshal` of the payload
cannot fail for the types it has, so that return is left out.

`Delivery` is what a caller may rely on: a job is accepted while the backlog has
room, or dropped; an accepted job ends delivered, or given up after exactly
`MaxRetries` tries, or abandoned after at least one try once the dispatcher is
closed. `KeepsPromise` is `Delivery`'s specification under the mapping at the end of
`Dispatcher`: queued and taken jobs are pending, the backlog is the channel's capacity
plus one job per worker and per sweeping Stop.

The run has two calls, two webhooks (one an echo), two workers, one Stop, a channel of
capacity 1 and two attempts. Up to four jobs make the channel full, empty and in
between; two attempts have one retry to cut short (the code makes three, and a third adds only
another of the same). The dispatcher may stop for good, so deadlock is not an error.

| property | says |
|---|---|
| `OutcomeExplained` | a job's end fits its attempts; a Stop that did not time out has had every earlier job tried |
| `KeepsPromise` | `Dispatcher` implements `Delivery` |
| `StopSettles` | after Stop the workers exit, and every job sent before it comes to an end |

**Fairness**: calls of Notify and workers go on, since goroutines are scheduled and the HTTP
client has a 10 s timeout. Stop is not assumed to be called or to end.

## 4. The registry: `Registry`

Tables are sets of rows, with the primary keys and cascades of the migrations. A
connection from the pool is held from `BEGIN` (or from the pinning in a rename) to its
release, and `fk` says for each connection whether foreign keys are enforced.
`RenameRegisteredModel` is the delicate one: it pins a connection, checks the target,
turns foreign keys off, rewrites five tables in a transaction, reloads on a second
connection and turns them on again. `CreateModelVersion` and `CreatePrompt` are
`retryWriteRace` around a read and an insert. Scanners page through models or versions.

The instance starts with a model that has two versions, the first in Production with
a tag and an alias; any two of 19 requests run on two goroutines beside one scanner,
with three connections and two attempts. Two requests are what each race needs; two
attempts make the retry succeed and also run out.

| property | says |
|---|---|
| `NoOrphans` | no version, tag or alias outlives its row, although renames work without foreign keys; foreign keys are off only on a connection a rename holds |
| `RegistrationsKept` | every registration that committed has its own row until that row is deleted; a prompt has each content once, numbered without gaps |
| `ScanComplete` | a search paged to its end has every row that stayed, and none twice |
| `RequestsFinish` | every request ends (retries are bounded; the rename gets its second connection) |

Fairness: the steps of a goroutine, without `Fail`: statements return and goroutines
are scheduled. `RequestsFinish` needs more connections than requests; section 9 says why.

## 5. Metrics, params, spans and search: `Tracking`, `Keyset`

`Keyset` is keyset pagination by itself: the predicate for "after this row", the page
and its token, over sort keys that are tuples of numbers. `Tracking` and `Access` use it.

In `Tracking` a batch is one transaction for its metrics, then an insert per
param (`LogParam`, and `CompareParam` when the row was there), then the tags. The
trigger that maintains `metrics_latest` is `Trigger`; `Latest` is the reduction of the
whole history that two queries of the code compute. Spans arrive by three receivers and
one `InsertSpans`. The loops over the points and the spans of a request are recursive
functions (`InsertPoints`, `UpsertSpans`); a loop that returns early leaves the tables as they
were, since it runs in a transaction. Clients follow page tokens until there is none.

Two goroutines (symmetric), four requests out of 15; three runs, two of them started at the
same time, and one that is created; pages of one row, so every row is a boundary.
Values that are equal, negated, missing and not finite occur; so do points out of order and
with equal timestamps, the same batch twice and a span id in two traces.

| property | says |
|---|---|
| `AckedLogged` | what was answered with success stays: params keep their value, points have their row, spans their trace and run |
| `RetrySafe` | a param is refused only against another value; a batch sent again is never refused by its own writes |
| `LatestExact` | `metrics_latest` is the reduction of the history, in whatever order points arrive |
| `SearchExact` | the pages of a search show each row that matched all along exactly once |

## 6. Workspaces, roles and experiments: `Access`

A request is resolved to a workspace, authorised by one lookup or two, and served; the
gRPC receiver has its own copy of these checks (`export`). `granted` records which
grants held at some moment while the request was being served. Experiments are created by three
statements without a transaction; deleting a workspace checks that it is empty in the
transaction that deletes it. The role table is that of the operations modelled.

Two goroutines, four requests out of 14, two workspaces, two users who each manage one, two
experiments with the same creation time, pages of one.

| property | says |
|---|---|
| `AckedKept` | an acknowledged experiment is there, complete, also when its workspace was being deleted; a workspace that is gone has neither experiments nor members |
| `Authorized` | a handler runs only for a caller entitled at some moment since the request came in; nothing learned for an earlier request is used |
| `SearchExact` | pages are exact while experiments are created, deleted, restored and renamed |

"At some moment" is what the code can promise: roles are looked up before the
handler runs and are not locked.

## 7. Datasets and artifacts: `Datasets`, `Artifacts`

`Datasets`: `Put` is a stat, a temporary file, a copy, a second stat and a rename; the
version is inserted afterwards by a retried transaction. Logged inputs are written to
the old table and mirrored to the new one, in a transaction of its own that is retried too. The
collector runs with the server stopped, so it needs all goroutines idle. `GetRunDatasets` and
`RunDatasetEdges` are the two ways in which a run's inputs are read from both tables. A walker
reads the lineage level by level while edges are added. A call logs a sequence of inputs in one
transaction, in which later inputs find the rows of earlier ones. Two goroutines (symmetric), three
requests, a diamond of three versions, a cap of two nodes, an input from before the new table.

| property | says |
|---|---|
| `AckedReadable` | a file named by a hash has that content; acknowledged versions that are not deleted can be downloaded |
| `VersionsDense` | versions have no gap and no duplicate; runs logging one dataset at once share its row |
| `InputsReturned` | a run shows every input logged for it, in whichever table, and none more often than logged |
| `LineageExact` | lineage has no cycles; a walk lists every ancestor, and every descendant there was when it began, once, up to the cap |

`Artifacts` has both backends, chosen in `Init`. On the file system a name leads to an
inode; contents are on the disk after the fsync and names after a flush that comes at
any time. `PowerLoss` keeps any subset of the unflushed renames and zeroes contents not
synced. On S3 every HTTP request is carried out, fails, or is carried out and loses its
answer; uploads over the threshold are multipart. Sizes and limits of 1 to 3 units put the
limit below, at and above the part size and the body. Pages have one key. Two goroutines, of
which a request takes the first free one, and two requests out of nine. One run's name begins
like another's, and so does a file's name.

| property | says |
|---|---|
| `WholeArtifacts` | an artifact, and what a reader is sent, is all of one upload, also after power loss |
| `AnswersTrue` | uploads, deletions, listings and refusals are what clients were told |
| `NoLeftovers` | no temporary file, and no multipart upload, but those a crash or a failed abort left |

`Exclusive = TRUE`: clients of the file-system store do not upload one path twice at the same
time. Section 9 says why.

## 8. Login and federation: `RateLimiter`, `Login`, `Federation`

`RateLimiter` counts in units: a bucket gains one unit per tick and an attempt costs
`Cost`, so the code's rate of 1/12 token a second is `Cost = 12` with ticks of a second.
`IdealLimiter` is the same limiter with a bucket for everyone for ever. The sweep
evicts a bucket that was idle for a minute and would be full by now; `SweepsUnseen`
says that `RateLimiter` implements `IdealLimiter` when `level` is the refilled bucket.

`Login` adds sessions and the OIDC flow: discovery under `discoveryMu`, the code
exchange, the ID token known by the key that signed it, the refresh of the key set when a
key is unknown, at most once an interval. `TouchSession` is a detached goroutine. Two browsers,
three ticks, one key rotation, one session, all three modes of `cfg.Auth`.

| property | says |
|---|---|
| `SweepsUnseen` | no answer of the limiter depends on evictions |
| `SessionsExact` | a session is accepted until its time has passed or a logout deletes its row, and never again |
| `RefreshSpaced` | refreshes of the key set for unknown keys come at most once an interval, whether or not the provider answers (a discovery that fails is repeated by the next login, without a wait) |
| `LoginsEnd` | every login comes to an answer |

Fairness: each step of a login is weakly fair (the HTTP client gives up after 15
seconds), and taking the mutex is strongly fair (`sync.Mutex` lets nobody starve).

`Federation`: one server, its peers, two searches that each start one goroutine
per connected peer, the response cache (map and FIFO list), echoes, and clocks of the other
servers at the limit of the allowed skew. The other servers are external: their
answer is a version number that changes. The cache holds one answer for no time at all beyond the current
tick, so expiry and eviction are always near.

| property | says |
|---|---|
| `Complete` | a search that is not partial has the answer of every connected peer, from the server its row names |
| `Fresh` | no answer is older than the cache's lifetime and one request |
| `ConnectedProven` | only a peer that itself accepted this server's signature is connected |
| `SearchesEnd` | every search ends, whatever its peers do |

Fairness: goroutines and the merge. A request ends by the client's timeout (`Tick` waits for it).

## 9. Known limits of the code, met while modelling

One is a run that TLC refutes. RunStoreStaleBefore: two SetTags on one key read the old value
before either transaction begins (`store/sqlite.go:1602`), the second event carries a stale
`before`, and an as-of read between the commits shows a value that was not there, although
the comment at 1591-1592 promises "a correct `before`". The others were met in
the same way and are kept out of the properties, or by a bound, as said here.

Runs and the event log:

- `sqlite_events.go:211`: the tags of an as-of read come from a later query than its events,
  so a SetTag in between shows a tag from after T. `ReadRowExact` speaks of the row only, and
  `NoFutureTag` of undoing in one snapshot.
- `sqlite_events.go:309`: a pre-read that fails (a cancelled context included) counts as "no such
  run" or "no such tag". If the context lives on, the change is committed with no event or
  with a wrong `before`, although 44-49 say "better to fail loudly than to lose the audit trail"
  (`event_atomicity_test.go:3-8` covers the INSERT of the event, not the read). The model's
  pre-reads succeed, or the whole request fails.
- `sqlite.go:1578`: an empty parent tag, or DeleteTag, leaves `parent_run_id`, while 1545-1546
  say "to keep the structural field and the MLflow tag in sync". `ParentTagMirrored` is one way.
- `sqlite_events.go:179`: the replay limit counts all events of a run, so to "narrow the
  as-of window" (137-138) does not help.
- A DeleteTag that races the SetTag creating its tag deletes it without an event.
  Therefore `MutationLogged` is checked with one request at a time.
- `api/mlflow/handlers.go:619`: the payload of UpdateRun's webhook is read again after the commit.

Dispatcher and shutdown:

- `dispatcher.go:217`: Notify after Stop returns without counting, while 156 says "counted via
  DroppedCount".
- `dispatcher.go:249`: a Notify past its first test can send after the sweep; 209-211 say such a
  job is swept or counted. Such a job stays pending in `Delivery`.
- `server.go:176`: after a Stop that timed out the store is closed under the workers.

Artifacts and datasets:

- `artifact/store.go:82`: uploads of one path share `abs + ".part"`; two at once truncate and
  rename each other's file. The interface says "replacing any existing file" (26). `Exclusive`
  keeps this case out. List shows `.part` files; an artifact named `x.part` is one.
- The directory is not fsynced after the rename, so a power loss may bring back the old artifact
  (never part of one). `Open` stats and opens by name, so the two may be of different uploads.
- `artifact/s3.go:368`: CompleteMultipartUpload looks at the status only. S3 may answer 200 with an
  `<Error>` body, and the upload is then acknowledged without an object; in the model 200 means
  completed.
- `datasets/cas.go` syncs nothing; the model of datasets has process crashes, not power loss.
- `runDatasetEdges` joins an input of the old table to every version with its hash, so it may
  have several edges, while its comment says that the workspace filter "prevents row
  explosion". `InputsReturned` asks for at least one edge of such an input.
- `GetRunDatasets` (`sqlite.go:2542`) is two queries, and `InputsReturned` reads both tables at once. An input
  logged between the two is returned or not, as if it came before or after.
- `DatasetHashStillReferenced` has no caller in the repository; `Collect` is the offline pass its comment describes.
- A failed insert leaves a blob until the collector runs; a crash leaves `.upload-*.part`.

Registry:

- A version number is used again after the highest version is deleted; `RegistrationsKept`
  counts rows, not numbers.
- A rename holds one connection and needs a second. If the pool is full of renames, each waits
  until its context ends. The run has one connection more than requests.
- A rename whose model vanishes between its check and its transaction can answer with a model that
  somebody else created under the new name.
- `registry.go:143-145`: the error return of the first PRAGMA precedes the deferred
  `restoreForeignKeys`. The model takes a PRAGMA that fails to have had no effect; if it had one,
  the connection would go back to the pool without foreign keys.
- The comment on CreatePrompt (`sqlite.go:1964-1969`) says "Callers should retry"; the code does.

Login:

- `api/native/handlers.go:1098`: Logout discards every error of DeleteSession, although its comment names only
  ErrNotFound, answers 200 and clears the cookie. After a delete that failed the session's id
  is accepted until it expires; `SessionsExact` is about deletes that took place.
- `oidc.go:183`: a login that finds its key missing while another login refreshes fails,
  since the interval has just begun, though the key is now there. 361-362 describe the retry.
- `auth/session.go:18-19` says the state cookie is cleared when the callback "succeeds or
  explicitly fails"; failing callbacks leave it.

Federation, workspaces, tracking:

- `api/native/federation.go:264-267` expects a workspace header that the client does not send.
- Of two overlapping echoes to one peer the older answer may be the last to be written.
- `CreateExperiment` is three statements; when the second fails the row stays without location.
  `AckedKept` speaks of acknowledged experiments.
- A dashboard saved while its workspace is deleted, and rows in other tables without a foreign key, may be left.
- `docs/cookbook.md:793-797` gives viewers "Read"; the searches that are POST need editor. The GET form of
  the experiments search, which a viewer may use, is left out; it is the same handler.
- `LogParams` "writes multiple params atomically" (`sqlite.go:1534`) but has no transaction.
- A span export without a run, sent again after another export gave the span a run, is refused.

Everywhere: with a wall clock that steps back, `LogOrdered` and what rests on it fails.

## 10. What is proved

For every value of the constants that satisfies the named assumptions of the modules
(`ConstantTypes`, `FiniteWriters`, `ConstantsDistinct`, `DispatcherConstants`,
`RegistryConstants`, `TrackingConstants`, `AccessConstants`, `LimiterConstants`,
`LoginConstants`, `FederationConstants`, `OldPeersNumbered`), which TLC evaluates in the runs:

| theorem | statement |
|---|---|
| `RunStoreProofs!TypeCorrect`, `ParentMirror` | `Spec => []TypeOK`, `Spec => []ParentTagMirrored` |
| `EventLogOrdered`, `ParentReplayExact` | `Spec => []LogOrdered`, `Spec => []ParentAsOfExact` |
| `RunStoreAsOfProofs!NoTagFromTheFuture`, `JanitorSparesOutcomes` | `Spec => []NoFutureTag`, `Spec => JanitorKeepsOutcomes` |
| `AsOfReadsExact`, `AnswersExact`, `MutationsLogged` | with `MaxInFlight <= 1`: `Spec => []AsOfExact`, `[]ReadRowExact`, `MutationLogged` |
| `ReplayLoops` | `Spec => []ReplayIsTheLoop`: the reverse loops compute what `UndoRow` and `UndoTags` state |
| `DispatcherProofs!DispatcherInvariant`, `OutcomesExplained` | `Spec => []DInv`; with one Stop, `Spec => []OutcomeExplained` |
| `DispatcherImplements` | `Spec => KeepsPromise`: the refinement of `Delivery` |
| `RegistryProofs!RegistryInvariant`, `TablesIntact` | `Spec => []RegistryInv`, `Spec => []NoOrphans` |
| `RegistrationsNumbered`, `SearchesComplete` | `Spec => []RegistrationsKept`, `Spec => []ScanComplete` |
| `TrackingProofs!TrackingInvariant`, `AcksKept` | `Spec => []TrackingInv`, `Spec => []AckedLogged` |
| `RetriesSafe`, `LatestMaintained`, `PagesExact` | `Spec => []RetrySafe`, `[]LatestExact`, `[]SearchExact` |
| `AccessProofs!AccessInvariant`, `HandlersAuthorized` | `Spec => []AccessInv`, `Spec => []Authorized` |
| `CreationsKept`, `SearchesExact` | `Spec => []AckedKept`, `Spec => []SearchExact` |
| `LoginProofs!LimiterBounds` | `LimiterSpec => []RateBound`: never more than a full bucket and one unit a tick |
| `LimiterForgets` | `LimiterSpec => []BucketsRecent`: the map does not keep clients of the past |
| `LimiterImplements` | `LimiterSpec => SweepsUnseen`: the refinement of `IdealLimiter` |
| `LoginRateBound`, `LoginSweepsUnseen` | the same of the limiter inside the server |
| `LoginDiscovery`, `LoginRefreshSpaced` | `Spec => []DiscoveryOnce`: one login at a time is inside discovery, and it holds the mutex; `Spec => RefreshSpaced` |
| `LoginSessionsExact` | `Spec => []SessionsExact` |
| `FederationProofs!FederationInvariant`, `ConnectionsProven` | `Spec => []FederationInv`, `Spec => []ConnectedProven` |
| `ResultsFresh`, `SearchesComplete` | `Spec => Fresh`, `Spec => Complete` |

**The run store.** *TypeCorrect.* `TypeOK` is inductive: besides types it says that a request's
arguments fit its operation and that the goroutine with `pc = "txn"` is the lock holder. Each
mutator has a lemma (`CreateRunCommits`, ...) that its step is a `Committed(p)`: a `Commit` of
rows, tags and event rows of the right types that keeps the parent properties. The frame is
proved once for all of them.

*ParentMirror.* From `TypeOK` and the `ParentTagKept` part of `Committed`: whoever writes the
tag last writes the column in the same commit, or writes an empty tag.

*EventLogOrdered.* `LogOrdered` is inductive together with `TypeOK`. Its middle conjunct is the
strengthening that the order of the table needs: an open transaction's lock time `t0` is at or
after every stamp in the table and after every quiet millisecond. It holds because stamps are
taken under the lock.

*ParentReplayExact.* By induction over the steps, from `LogOrdered`. On a commit, if the run
had no newer `run_parent` event, the new event's `before` is the column it replaces
(`ParentLogged`: it was read in the same transaction); if it had one, the new events come later
in (ts, id) order and the first one stays the first (`FirstOfStable`). On a prune, the events
that go are at or before T for every T the property still covers. On a tick, the new
millisecond has no newer events if it was quiet. The same argument fails for the tags exactly
where RunStoreStaleBefore finds its counterexample.

*NoTagFromTheFuture.* `LogInv` says that every tag value there is, in the table, in a pre-read or in
a `before`, was written by a tag_set of the full log, and that of a `before` by one with a smaller
id. The first newer event on a key has no newer one before it, so what its `before` restores was
written at or before T.

*JanitorSparesOutcomes.* The UPDATE tests status and stage again, in the statement that writes.

*The serial case.* With `MaxInFlight <= 1`, `SerialInv` says that at most one request is under
way and that what it has pre-read of the cells it asks for is still what the tables hold. Then
every mutator logs as `before` what it replaces (`Logged`), and the induction that
`ParentReplayExact` makes for one column goes through for rows and tags. `FiniteWriters` is
needed to count the requests in flight. `ReaderInv` says of a reader between its two
queries that undoing the events from now on would give the row it has to answer with:
commits that come after its first query only add events that undo themselves.

*ReplayLoops.* For any number of newer events, whatever the interleaving that wrote them. The event
table is finite and `LogOrdered` makes (ts, id) a strict total order on it, so `n` rows have the places
`1 .. n` (`Places`), and `Nth` is well defined (`NthFacts`). A loop that goes through the places
from `n` down to 1 and overwrites a column at some of them leaves what the least of those wrote
(`ReverseLoop`, by induction on the number of rounds); the least is the first newer event that touches
the column. That every column is touched by one kind of event only is what `ApplyUndoIs`
and `ApplyTagUndoIs` read off the code. For tags one more invariant is needed, `DeletesCarry`: a
`tag_delete` in the table has a `before`. `applyTagUndo` skips one that has none, and `UndoTags`
would restore "no tag". It holds because DeleteTag logs nothing when its pre-read finds no tag.

**The dispatcher.** `DInv` says that each job is in exactly one place (not yet sent, in the
channel, in the hands of one worker or Stop, or ended), that its attempts fit where it is, and that a
job sent before Stop is never lost. `OutcomesExplained` adds that after a Stop in time nobody is left
to hold a job; with two calls of Stop the second returns at once and promises nothing, hence the
assumption. For the refinement, each step is a step of `Delivery` on the one job it moves or a
stutter; the backlog bound is a count of channel slots and agents (`BacklogBound`).

**The registry.** `RegistryInv` has the tables (keys and foreign keys), the requests by program
counter, and the connections: foreign keys are off only on a connection that a rename holds,
and each is held once. A rename keeps the tables intact because what it rewrites is closed under
the references (`Intact` of the renamed tables). `births` and `deaths` count versions. `FreshInv`: whoever is still fresh has read
the present tables, so `MAX(version) + 1` is unused. For scans, the rows passed are those at or before
the cursor (`ScanInv`), and a page is the first `n` of the `Remaining` ones.

**Logging.** `TrackingInv` has four parts. Tables: points are unique by timestamp and step,
and the latest one is a maximum in the trigger's order. Requests: each is where its writes are (a
batch past its metrics has them all, and past param `i` the params before). Answers: whatever was acked
is logged, and whatever was refused differs from the row. Searches: what has been returned
of the rows that stayed is exactly what is at or before the cursor. The loops inside transactions
are recursive functions. They are reasoned about by `LoopRuns`, which says that a loop goes through a
state after each of its members, and `UpTo`, induction up to a number for a set. So batches of
any length are covered.

**Pages.** `TrackingProofs` and `AccessProofs` first prove that `Beyond` is a strict total order on keys of two and three
columns, that the first `n` of a finite ordered set are a segment of it, and from these
`PageIs`: a page has no row before its cursor, and leaves out none up to its token. Each uses it
with its own keys: two columns in Access, two or three in Tracking.

**Workspaces.** `AccessInv` relates a request to the grants that held since it arrived
(`AuthInv`), a creation under way to the row it has inserted (`Creating`), the tables to the workspaces there are (`TableInv`: an experiment's
workspace exists, members are of existing workspaces), acknowledged experiments to their rows
(`AckInv`) and searches to their cursors (`SearchInv`).

**Login.** *The limiter.* `IInv` is the types with "no bucket was counted in the future or holds more
than the capacity", `RateBound` and `BucketsRecent`. `RateBound` needs the refilled level in it, as
what a client has spent and what it may still spend grow together only by time. `TickRefills`
says that a tick adds a unit to the refilled level of everybody, below the capacity; `AllowTakes`
that an attempt takes `Cost` from one level and leaves the others, evictions included,
because a bucket is evicted only when its refilled level is the capacity, and no bucket means
just that. These two are the refinement's steps. `LimiterStep`: every step of the server is a limiter
step or leaves the limiter alone, which gives `LoginLimiter` and with it all of the limiter's theorems.

*The provider.* `FlowInv` (types of the flows and `DiscoveryOnce`) is inductive, with one lemma for
each way a step may treat a flow. `SpacingInv` adds that `jwksFetchedAt` is not before the last
fetch, save between a fetch and the assignments after it, when the mutex is held. Before the first
discovery has succeeded it need not hold, but then no login is past `EnsureDiscovery`.

*Sessions.* `SessionInv` strengthens `SessionsExact`: ids count the sessions minted, so a new one
was never ended; cookies and ended sessions are among them; a session that is neither ended nor
expired has its row, with the expiry it was minted with. A touch only rewrites rows that
exist (`SeenRow`).

**Federation.** The ids of peers are never used again (AUTOINCREMENT), and `FederationInv` rests on
that: whatever holds an id (a cache entry, a goroutine, an echo under way) was made for the
row with that id, or for one that is gone, and has an answer of the server at its URL. So an echo that comes late
connects the peer that accepted it or nobody, and a cached answer is never
shown for another peer. `OldPeersNumbered` says that the first rows were numbered in the same way.

## 11. What is only model-checked

- Liveness (`RequestsFinish`, `StopSettles`, `LoginsEnd`, `SearchesEnd`): outside the prover's reach.
- `Datasets`: `AckedReadable`, `VersionsDense`, `InputsReturned` and `LineageExact`. The last two count
  members of sequences that `SelectSeq` makes, which is an induction over data; the first two
  are of the shape of `RegistrationsKept` and could be proved like it.
- `Artifacts`: `WholeArtifacts`, `AnswersTrue`, `NoLeftovers`.

Liveness of `Artifacts`, `Datasets`, `Access` and `Tracking` is not checked: no request there
waits for another, and each loop is bounded by its attempts or its pages.

`PROJECT.json` lists the hazards, each at its line: the places where an ordering, a failure or a
limit could go wrong that a test would hardly reach, with the properties that cover it.

## 12. Not modelled

- Filter parsing (`store/sqlite.go` 453-468, 1134-1452): text to SQL, without state. A search has
  the rows that match as a parameter.
- Pre-reads of the event log that fail by themselves (section 9): then neither `MutationLogged` nor
  `AsOfExact` holds.
- `RunStore` and `Dispatcher` together: Notify comes after the commit and touches nothing of
  the store's; the product of the two state spaces is beyond the bounds used here.
- Server start-up, the order of shutdown, configuration, migrations as a process: one
  goroutine, once. The constraints and triggers that migrations make are in the modules.
- CRUD of webhooks, run notes and evals: single statements. The egress address rules.
- Lineage walks over runs (`sqlite_lineage.go` 101-400): reads of the shape of the dataset walk,
  which is modelled.
- Analytics, LTTB downsampling, the metrics registry, OTLP conversion, request signing,
  cryptography: computation without state; where an outcome matters it is a choice.
- SQL text, JSON and protobuf, HTTP status codes, logging.
- Requests to S3 that arrive after their client has given up.
- The importer, the Kubernetes operator, the withdrawn Terraform provider, the Python client
  and the UI: programs of their own.

SQLite is taken at its documented word: one writer at a time, a snapshot per statement outside
transactions, commits atomic and durable.
