# A TLA+ development of kvp

kvp is a small key-value service: an HTTP API in front of a store that keeps its data in one
SQLite table and, unless it is switched off, in a memory layer that serves the reads. This
directory models the parts of it whose correctness depends on the order of events, checks them
with TLC and proves the facts that hold for every size with TLAPS.

Run a model with `tlc -config X.cfg M`, and a proof module with `tlapm M.tla`; `PROJECT.json` lists
the runs, the lines each definition models, the mutants that each property is tested with, and the
hazards that the properties are aimed at.

## 1. Inventory

| Part | State | Operations | Used by |
|---|---|---|---|
| Store, cached (`internal/store`) | table `kv_store`, `cache`, `cacheBytes`, `dirty` | `PutWithMode`, `getCached`, `Flush`, `EvictOldest`, `DeleteExpired`, `Open` | server, jobs, `main` |
| Store, SQLite-only | the table and its file | the same, with `getDB` | server, jobs |
| Expiry job, Evictor, Flusher (`internal/cleanup`) | tickers; `running`, `lastRun` | `Run`, `RunLoop`, `MaybeEvict`, `RunOnce` | `main`, and the Evictor also by every POST |
| Rate limiter (`internal/server/ratelimit.go`) | `buckets` | `allow`, `prune` | the `rateLimit` middleware |
| Server (`internal/server`) | none between requests | the handler chain | clients |
| Lifecycle (`cmd/kvp`) | contexts, servers | start, drain, stop, final flush, close | the operating system |
| Backup job (`internal/cleanup`, `internal/store`) | the directory of backups | `Run`, `RunOnce`, `Backup`, `RetainBackups` | `main` |
| Health (`internal/telemetry`) | `draining`, `last`, `lastOK` under `h.mu` | `ReadinessHandler`, `pingOK`, `SetDraining` | `deploy/hc`, orchestrators, `main` |
| Configuration (`internal/config`) | none | `Parse` | `main` |
| Export of telemetry, `deploy/hc`, web UI, terraform | see section 8 | | |

Requests run concurrently with each other and with the jobs. They meet at two places: `s.mu`, which
guards `cache`, `cacheBytes` and `dirty`, and the pool of a single connection, which makes
statements and transactions serial. Almost every operation of the store uses both in turn, several
times, and everything between two uses interleaves. That is where the behaviour is hard:

* a Put writes its row, its entry and its dirty mark in three separate steps;
* `Flush` takes the dirty keys, reads their entries, writes them in transactions and touches the
  entries again, and may fail in the middle;
* the evictions choose their victims in one step and act on them in later ones;
* `Get` deletes, in two more steps, what it found expired in the first;
* expiry is decided by the clock in memory and by the order of texts in SQLite;
* the process may die anywhere, and a clean shutdown races its own jobs;
* a readiness probe holds `h.mu` while it waits for the connection, a backup holds the connection
  for as long as it takes, and the shutdown waits for the probes before it cancels the backup.

What makes each part correct: a commit mode keeps its promise (sync: in the table; async: in the
table in the end; memory: never in the table; all: served); only expiry and eviction take a value
away; the byte count that the budget is compared with is exact; one eviction runs at a time, ends,
and happens when it is needed; the limiter admits no more than burst plus rate; the answer names
the mode that was really used; shutdown ends and keeps what was acknowledged; "ready" means that
the database answered a moment ago; the directory of backups keeps the latest one and does not
grow; a start that is refused names its reason and leaves nothing open.

## 2. Modules

| Module | Models | Extends |
|---|---|---|
| `Timestamps` | RFC3339Nano texts and their order | |
| `Maps` | maps, `ORDER BY ... LIMIT`, chunks | |
| `KVStore` | the cached store and the jobs that act on it | `Timestamps`, `Maps` |
| `SqliteOnly` | the store without the memory layer | `Timestamps`, `Maps` |
| `Lifecycle` | shutdown, composed with the requests and flushes of `KVStore` | `KVStore` |
| `Evictor` | `MaybeEvict`, `RunOnce`, `RunLoop` | |
| `RateLimiter` | token buckets and the middleware | |
| `CommitContract` | abstract: what a commit mode promises | |
| `StoreContract` | the mapping under which `KVStore` implements it | `KVStore`, `CommitContract` |
| `Config` | `Parse`, and what `run` and `Open` make of the sizes | |
| `Server` | start with an environment, then the handler chain | `Config` |
| `Health` | the readiness probes and their cached ping | |
| `Backup` | backups and retention | |
| `Process` | `run` from start to exit, with probes and backups | `Backup`, `Health` |
| `KVStoreProofs` | theorems on the cached store and its shutdown | `StoreContract`, `Lifecycle`, `TimestampsTheory` |
| `SqliteOnlyProofs` | theorems on the store without memory | `SqliteOnly`, `TimestampsTheory` |
| `TimestampsTheory` | theorems on texts, which the other proofs use | `Timestamps` |
| `EvictorProofs`, `RateLimiterProofs`, `ServerProofs`, `ProcessProofs` | theorems | their component |
| `MCKVStore`, `MCSqliteOnly`, `MCLifecycle`, `MCRateLimiter` | instances for TLC | their component |

### KVStore

A step is one critical section of `s.mu`, one SQL statement, or one transaction. The variables are
those of the code (`db`, `cache`, `cacheBytes`, `dirty`, the clock `now`) and one record for each
call in progress: `puts`, `gets`, `fl`, `ev`, `sw`, whose field `pc` says which step is next and
whose other fields are the local variables of the Go function.

| Code | Actions |
|---|---|
| `PutWithMode` | `PutBegin` (clock, arguments), `PutExec` / `PutFail` / `PutFailLate` (the upsert of a sync write: applied, not applied, applied and reported as failed), `PutCache` (`cachePut`), `PutMark` (`markDirty` / `clearDirty`, return) |
| `getCached` | `GetRead`, `GetReturn` / `GetDrop`, then in its goroutine `LazyDelete` / `LazyFail` |
| `Flush` | `FlushTake` (`takeDirty`), `FlushRead`, per chunk `FlushCommit` / `FlushFail`, per key `FlushClear` (`clearVolatile`) |
| `evictOldest` | `EvictStart`; volatile phase `EvictVolCheck`, `EvictVolSnap`, `EvictVolDelete`, `EvictVolDrop`; row phase `EvictRowCheck`, `EvictRowCount`, `EvictRowSelect`, `EvictRowDelete`, `EvictRowDrop`; `EvictFail` |
| `DeleteExpired` | `SweepStart`, `SweepPurge`, `SweepProbe`, `SweepDelete`, `SweepFail` |
| crash, `Open`, `loadCache` | `Restart` |

A row keeps its expiry as a time; every comparison that the code makes in SQL goes through `Format`,
and `ParseUndoesFormat` says that `loadCache` reads the same time back.

A value is the number of its write, a length, and the commit mode it was written in; the code does
not store the mode and no guard reads it. `promised` records the last write of each key that
returned. Its field `alone` says that the write overlapped no other write of the key, no flush that
held it (async writes may) and no eviction that had chosen it. The volatile phase of an eviction
counts as having chosen the writes to its victims that do not expire later, by the clock. A sync
write that does expire later is promised its row by the comment at `store.go` 708, and keeps it but
for one case: its text may still sort before the victim's, and the DELETE compares texts.
`EvictVolDelete` withdraws the promise at that step and for that row only (`Overtaken`), and the run
`purge_text` reports the case as a finding. `thinned`, the other history variable, holds the keys whose rows a
sweep or a lazy delete took since the row phase counted the table; only `RowPhaseLeavesOne` reads it.
The contracts `SyncHonoured`,
`AsyncHonoured` and `MemoryHonoured` are stated for writes that are alone. That is the strongest
form the code keeps: section 4 shows what happens to the others. A promise ends when an eviction
selects its key (the budget may take any value), when the upsert of another write of the key is
applied (also one that is reported as failed), and when a failed flush forgets it
(`FailedFlushKeepsDirty` in section 4).

### The contract

`CommitContract` says what the comments on `PutMode` promise, without rows, entries, dirty marks or
flushes: an acknowledged write stands in memory, is pending or is durable; a pending one becomes
durable and never the reverse; time ends it when it lapses; a crash ends exactly those that are not
durable. `StoreContract` reads where a promise stands off the layers of `KVStore` (a promise that
neither layer backs is "lost", a state that `CommitContract` does not have), and `SqliteOnly` has
its own mapping, where every mode is sync. `ImplementsContract` is `CSpec` under the mapping. A
promise lapses at `Lapse` of its expiry, the first moment at which the text order lets a sweep take
the row. Readers, sweeps, restarts and loading are all stutters or `Crash` steps of the contract.

### The other models

`SqliteOnly` has the same operations against the table alone. A row takes a page and a deleted row
leaves a free one until `incremental_vacuum`, as section 4 of `spec.md` describes.

`Evictor` abstracts `EvictOldest` to batches that take something from a usage that writers raise,
and measures time in ages, so that neither writers nor the clock have to stop and liveness means
what it says.

`RateLimiter` splits a request into the looks and deletes of `prune`, the clock, the lock and
`allow`. Tokens are whole parts (the code
uses `float64`). An observer may start counting at any moment, so `AdmissionBound` speaks of every
period. Two things give a client more than burst and refill, and the bound has a term for each.
`prune` may delete a bucket that a request has used since it looked (`races`): that is worth a burst,
and, as the request that makes the new bucket may have waited for the lock and does so at its own,
earlier time, the refill of `MaxLag`. And `prune` deletes what has been idle for an hour whether or
not it has refilled (`pruned`): with a small rate and a large burst, which the configuration
accepts, the new bucket has the `Shortfall` that the hour left. `Shortfall` is zero when the hour
refills the burst; the run has a burst of four against an hour of four ticks, less twice the lag, so
that it is two. One assumption is named: a request waits at most `MaxLag` between reading the clock
and taking the lock.

`Server` loads the settings from every environment and then takes one request after the other
through the chain, with the limiter's and the store's answers left open. A call of the store and the
answer are two steps (`ServePut`, `AnswerPut`), so that a panic may come between them as anywhere
else; `metered` and `calls` are sequences, so that nothing is counted or called twice unseen. A
request line in absolute form may have an empty path, on which the slice in `route` panics. `Config` has one variable of each kind of closure in `Parse`, in the order of the code,
and words from `-Half` to `Half - 1` in place of 64 bits, so that `memCacheMB * 1024 * 1024`
overflows to negative words, to zero and to positive ones.

`Process` is `run` of `cmd/kvp`. It instantiates `Health` with "the database answers" and "a VACUUM
holds the connection", and extends `Backup`. A step is a statement of `run`, a critical section of
`h.mu`, a ping, a VACUUM, or the removal of a file. A backup that finds no database is refused
(`VacuumRefused`, as often as the database is down); one that cannot make its directory, finds its
name taken, or fails or is cancelled in the middle is `VacuumFail` or `VacuumAborted`, and may or may
not leave a file. The deadline of the shutdown may come at any
time. A kill takes the handlers, the jobs and what they hold, leaves the directory with what a VACUUM
had written so far, and is followed by a new start.

`Lifecycle` adds `main` to the requests, failing ones included (`HandleFail`), and the flusher of
`KVStore`. After `stopJobs` the
transactions of the background flusher fail, its critical sections do not, and its `select` may
still prefer a tick to `ctx.Done()`.

## 3. What the passing runs show

| Run | Instance | Shows |
|---|---|---|
| `store` | one key, two writers, all modes, a reader, flusher and sweep, half-second expiries, two writes, one failing statement, one crash | the three contracts, and the refinement of `CommitContract`; live entries and rows leave only by eviction |
| `store_liveness` | one key, sync and async writes, flusher and sweep, one failure, one crash, two writes | an async value is stored in the end; a row past its expiry is gone in the end |
| `eviction` | two keys, all modes, two writes, flusher, sweep, both phases of the eviction, one failure, expiries from 0.7 to 1.6 s, whose texts sort in two orders | the byte count is exact; the contracts, for the writes that are not overtaken; the `LIMIT` is never negative; the table is left empty only when a sweep took a row after the count |
| `sqlite_only` | two keys, two writers, reader, sweep, eviction, failure, restart | acknowledged rows stay; the refinement of `CommitContract`; eviction is oldest-first to the second |
| `evictor` | two POST goroutines and the loop, throttle of three ticks, one failure | single flight; evictions end; an over-budget store gets one |
| `rate_limiter` | one client, three requests at a time, a burst that the hour of `prune` does not refill, a wait of one tick, seven ticks | the admission bound in every period, and what the unlocked `prune` can add to it |
| `server` | all environments over six variables, then all requests under their settings; words of five bits | a refused start names the first invalid variable; layer and eviction budget are what was asked for wherever that fits the word, and the cap holds also where it does not; gauge, counter and client agree on every request; the echoed mode is the contract; the store is guarded |
| `process` | two probes, a cache of one tick, retention of two, one fault or kill, a database that comes and goes | "ready" is fresh and follows an outage; probes, retention and shutdown come to an end; the latest backup is kept; every exit releases all that it holds but the trace provider |
| `lifecycle` | one key, two writers, background and final flush, one failure (of a write or of a flush) | shutdown ends; a clean one without a straggling flush keeps async values |

Bounds. The counters of writes, errors, restarts and ticks are bounded in the guards
(`MaxWrites`, `MaxErrors`, `MaxRestarts`, `MaxTime`, `MaxUsage`, `MaxFaults`); the writers, readers and flushers
are small sets. The races of this code involve one key, two or three writes and one other actor:
every violation of section 4 needs at most three writes. The rate limiter needs three requests: one
that prunes, one that uses the bucket meanwhile, and one that waits. A second key is there where batches and chunks
matter. `eviction` has no reader and entries of one size: the lazy delete is in `store`, and
`CacheBytesCorrect`, `SyncKeepsPromise` and `RowPhaseLeaves` are for any readers, lengths and number of
writes. Expiry texts have no run of their own: section 5 proves of them what the stores use. `MemLimit` is one entry, so that every eviction path is open, and a half-second TTL with a
one-digit fraction brings out the text order. Keys, writers and readers, and the requests of the rate limiter, are interchangeable
and the safety runs use that symmetry; the liveness runs do not.

In `process` times are ages, so that the clock never has to stop; two probes are enough
for one to hold `h.mu` while the other waits, and one fault leaves a partial file or an unfinished
removal behind, which the following backups have to make up for.

Deadlock is checked in `evictor` and `process`; the others end when their bounds are used up, the
start is refused or the process has exited.

Fairness. `KVStore` assumes weak fairness of each writer's steps, of each flusher and of the sweep:
goroutines run, and the tickers of `Flusher.Run` and `ExpiryRunner.Run` start the jobs again and
again. Failures are bounded, and nothing forces a request, an error, a crash or the clock. `Evictor`
assumes that the clock advances, that `RunLoop` takes its ticks and that a call let through runs on.
`Lifecycle` assumes that the deadline comes and that `main` and the handlers run on; clients need
not send their bodies. `Process` assumes weak fairness of the statements of `run`, of the clock and
of the tickers, and strong fairness of a probe that waits for `h.mu` or for the connection.
`sync.Mutex` hands itself over to whoever has waited for a millisecond. `database/sql` picks one of
those who wait at random, so that a probe gets the connection with probability 1 and not on every
behaviour; `EveryProbeEnds` has to be read that way. Nothing is assumed of how long a VACUUM takes;
`EveryProbeEnds` and `RetentionRecovers` are for backups that end, and `ProcessEnds` is not.

## 4. Where the code and its documents part

Three of the disagreements are violation runs with a finding in `PROJECT.json` that quotes the line.
The property stands in its module under the sentence it quotes.

| Run | Property | What happens |
|---|---|---|
| `stale_flush` | `SyncSurvives` | a flush that read a key before a sync Put commits after it; the table holds the older value and a restart serves it (`store.go` 364) |
| `purge_text` | `PurgeKeepsLaterRows` | the purge of a volatile entry deletes the row of a sync Put that expires later in the same second (`store.go` 712) |
| `shutdown_race` | `CleanShutdownKeepsAsync` | a background flush that outlives `stopJobs` loses its keys in a clean shutdown (`main.go` 167) |

The others are not listed as runs. Each has its configuration here, for which TLC finds a
counterexample: `tlc -config MemoryRow.cfg MCKVStore.tla`, and so on.

| Module | Configuration | Property | What happens |
|---|---|---|---|
| `MCKVStore` | `MemoryRow.cfg` | `MemoryNeverPersisted` | a memory-mode Put between `takeDirty` and the read of the entries is persisted (`store.go` 345, against its line 48) |
| `MCKVStore` | `FlushChunks.cfg` | `FailedFlushKeepsDirty` | a failed transaction forgets the keys of the later chunks (`store.go` 360, against 330-331) |
| `MCKVStore` | `RacingPuts.cfg` | `LayersConsistent` | two sync Puts of a key leave different values in the two layers (`store.go` 256, against 96-98) |
| `MCKVStore` | `LateFailure.cfg` | `LayersConsistent` | so does a Put whose upsert is applied and reported as failed (`store.go` 253) |
| `MCKVStore` | `EvictionDrop.cfg` | `LayersConsistent` | a sync Put between an eviction's DELETE and its drop from memory is stored and not served (`store.go` 670, against 97-98) |
| `MCKVStore` | `TableEmptied.cfg` | `NeverEmptied` | rows that a sweep takes between the row count and the DELETE let an eviction empty the table (`store.go` 584, against 546-547); the statement of the SQLite-only store has the same gap |
| `MCKVStore` | `SweepEarly.cfg` | `SweepTakesOnlyExpired` | the text comparison lets a sweep delete a row up to a second before its expiry (`store.go` 502, against 479) |
| `MCSqliteOnly` | `GetDeletes.cfg` | `GetDeletesOnlyExpired` | `getDB` deletes by key the row that a Put has just refreshed (`store.go` 472, against `spec.md` 208) |
| `MCRateLimiter` | `BurstCap.cfg` | `BurstCap` | a bucket that `prune` deletes before it has refilled comes back full (`ratelimit.go` 60, against 9-10); `Shortfall` is what that costs |
| `MCRateLimiter` | `BucketsRace.cfg` | `BucketsProtected` | `prune` uses the map of buckets without its mutex (`ratelimit.go` 59, against `spec.md` 230); the terms with `races` are what that costs |
| `Server` | `MemoryOverflow.cfg` | `MemoryAsConfigured` | a large `KVP_MEMORY_CACHE_MB` wraps around to another size or to no memory layer (`config.go` 251, against 249) |
| `Server` | `PanicMetered.cfg` | `PanicIsMetered` | a request that panics reaches neither the request counter nor the error counter (`middleware.go` 189, against `spec.md` 184) |
| `Server` | `DefaultMode.cfg` | `DefaultModeApplies` | `KVP_COMMIT_MODE` is parsed and never passed to the server (`main.go` 95, against `spec.md` 117) |
| `Process` | `Traces.cfg` | `TracesReleased` | `traceShutdown` is never set, so that the last spans are not flushed (`telemetry.go` 208, against 200) |

## 5. What is proved

Every safety property that a run checks, invariant, action property or refinement, is a theorem for
every value of the constants that satisfies the named assumptions; the theorems on texts have no run
beside them. The hypotheses of single theorems
are said below.

### Texts

`ParseUndoesFormat`, `TextsOrdered`, `SweepExact`. The provers cannot use an induction theorem over a
predicate, so `TimestampsTheory` inducts over sets of numbers: `<` is well founded on the natural
numbers, hence a non-empty set has a least element, hence a set that contains 0 and is closed under
successor is all of them. That gives the recursive function that parses a fraction, the digits of a
number and the first difference of two texts. `FormatInjective` and `SweepIsSweepable` are what the
stores need of it.

### The cached store

* `TypeCorrect`. `TypeOK` is inductive as it stands; its interesting part is that the batch of the
  row eviction, a `LIMIT`, stays natural.
* `CacheBytesCorrect`. The sum of the entry sizes is the number of (key, byte) pairs, so that it is a
  cardinality and needs no induction. `BytesSplit`, `BytesSingle` and `BytesUpsert` say what
  `cachePut` and the deletions do to it.
* `LiveEntriesStay`, `LiveRowsStay`. `RowEffect` and `EntryEffect` say what any step may do to the row
  or the entry of one key. `ClocksAgree` is needed: a sweep does not run ahead of the clock, and a
  lazy delete is under way only after the expiry that it read.
* `SyncKeepsPromise`, `MemoryKeepsPromise`. The invariant `AloneKept` says of each write that is alone,
  in progress or acknowledged, what is in the layers at its step, that the eviction does not claim
  the key and, unless it is async, that no flush holds it. `OvertakenWithdrawn` is the one step of the
  volatile phase that reaches such a write all the same. `IdsUsed` (no layer has a value that was
  not yet written) is needed where a new write begins.
* `AsyncKeepsPromise`. `AsyncKept`: the write is owed, that is dirty, taken, in a batch with its
  current value, or stored with no flush holding the key. Hypothesis `OneFlusher`: with a second
  flush at the same time the theorem is false, because that flush may still put an older batch over
  the row. The code runs one flush job, and calls `Flush` once more at shutdown, which is the case
  of `CleanExitKeeps`.
* `StoreImplements`: the refinement of `CommitContract`, with the same hypothesis. `Settled` adds what
  has to hold before a step so that it maps to one: a write about to be acknowledged has its value
  where its mode says, and no flush has an older value for a row that is current. `PutMark` maps to
  the acknowledgement, `FlushCommit` to the step from pending to durable, `Tick` to time that passes,
  `Restart` to a crash; what an eviction selects, what a new write replaces and what a failed flush
  forgets is withdrawn; everything else stutters. The attempt showed that the arms of `Stands`
  overlapped for a row that is both stored and pending; they no longer do.
* `RowPhaseLeaves`, with sweeps, readers and everything else running. `RowsLeft`: as long as `thinned` is
  empty the batch is smaller than the table until it is selected, and then a row outside it stays;
  `ThinnedGrows` says that nothing but a new count or a restart forgets a row that was taken.
* `CleanExitKeeps`, with one background flusher. As long as nothing has gone wrong, the steps of
  `Lifecycle` are steps of `KVStore`, so its step lemmas apply; they need only that no two flushes are
  in progress at a time. `Orderly` says so, phase by phase, and that no request is left after
  `stopJobs` and nothing is dirty after the final flush has taken the keys.

### The other components

* `SqliteOnlyProofs`: `EvictsOldestFirst`, `AcknowledgedKept` and `Implements`, along the same lines
  with one layer and no flush; `TypeCorrect` also says that the file has a page for every row.
* `EvictorProofs!EvictionSingleFlight`, strengthened by the range of `call` only.
* `RateLimiterProofs!AdmissionBounded`. The credit of a bucket is `tokens - Rate * last`. A refill
  does not change it, in whatever order the times come, except that the cap lowers it, and an
  admission lowers it by what is admitted. So credit plus admissions never grow (`Counted`). An idle
  bucket that is pruned lacks at most the `Shortfall` of a new one (`Forgotten`), for any burst and
  rate; one that is deleted in use was worth at least nothing and a new one is worth a burst. `Kept` bounds what a bucket may owe
  after times out of order. The attempt at this proof showed that the bound without `MaxLag * races`
  fails with three requests.
* `ServerProofs`: `StartNamesFirst`; `BudgetMatches`, for every size of the word, of a MiB and of the
  setting, from what `Wrap` does to a product that fits the word and to one that does not;
  `AllAccounted`, `EchoHonest` and `StoreGuarded`, all from `RequestInv`, which says for each stage of the chain what has been written, counted, called
  and resolved. The recursion of `Parse` over its six variables is unfolded.
* `ProcessProofs`: `ReadyFresh`, an action property, from `HealthInv` (the probe that pings for the
  cache is the one that holds `h.mu`, and a cached success is no older than `h.last` while nobody
  holds it; both are needed, because `h.last` is set before a ping that may take long);
  `ExitReleases`, from what is held in each phase (the trace provider is the one thing that may be
  left, see `TracesReleased` in section 4); `BackupsKept`, from `BackupInv` (the latest
  backup is the last of the files, and what is still to be removed is what is above the limit).

## 6. What is only model-checked

Liveness: `AsyncEventuallyStored`, `PastRowsEventuallyGone`, `EvictionReturns`, `OverBudgetIsEvicted`,
`OutageNoticed`, `EveryProbeEnds`, `RetentionRecovers`, `ProcessEnds` and `ShutdownEnds`. They rest on
fairness and hence on `ENABLED`, which the provers do not have. The violations of section 4 are
counterexamples of TLC.

## 7. Abstractions

* An upsert that fails may have been applied (`PutFailLate`); the other statements that fail have
  not. A committed transaction survives the death of the process (`synchronous=NORMAL` promises no
  more; power loss is not modelled).
* The process has one time zone, and its clock does not run backwards.
* `singleflight` lets `KVStore` have one eviction; `Evictor` shows why.
* A lookup that misses, `Ping`, the gauges and all logging change nothing and have no action.
* Where `prune` collides with another use of the map, the runtime either stops the process (`Throw`)
  or lets both go on; a map that is corrupted without being noticed is not modelled.
* Of a variable of the environment only matters whether it is unset, valid or invalid, and the
  number behind two of them. What makes a text valid is a matter of the parsers of Go.
* A backup is its place in the order of names and whether it is complete. That order is the order
  in time, because the clock does not run backwards; a name that is taken makes the VACUUM fail.
* `hc` and other clients may leave before the answer; `pingOK` uses `context.Background()` and does
  not notice, so a client that has left changes nothing.
* `IncrementalVacuum` matters only where the file size is the budget, in `SqliteOnly`.

## 8. Not modelled

The export of metrics and traces (I/O of the OpenTelemetry libraries), `clientIP`, request ids and
security headers (functions of one request without state), `sampleDBGauges` (reads only), the
health-check binary (one request; see section 7), the web UI (a page and its script) and the
deployment files.

## 9. Plan

Done: all the modules above, the abstract contract with its two refinements, and a theorem for every
safety property of a passing run. Left:

1. The safety half of the liveness properties: a measure that each step of `EvictOldest`, of a flush
   or of the retention lowers, as an action property.
2. The links between components that are now argued in prose: that `Evictor` justifies the single
   eviction of `KVStore`.
