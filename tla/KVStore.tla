------------------------------ MODULE KVStore ------------------------------
(***************************************************************************)
(* The store of internal/store/store.go with its memory layer enabled: a   *)
(* SQLite table, a map that serves the reads, and the set of dirty keys    *)
(* that the flush job still has to persist.                                *)
(*                                                                         *)
(* The processes are the requests (PutWithMode, Get), the flush job, the   *)
(* size eviction and the expiry sweep.  A step is one critical section of  *)
(* s.mu, or one SQL statement, or one transaction: the pool has a single   *)
(* connection (SetMaxOpenConns(1)), so statements and transactions are     *)
(* serial, and everything between two of them interleaves.  A statement    *)
(* may fail, and the process may die between any two steps and open the    *)
(* file again.                                                             *)
(*                                                                         *)
(* A value is the number of the write that made it, its length, and the    *)
(* commit mode it was written with; the mode is not stored by the code and *)
(* only the properties read it.  promised, thinned and the field alone are *)
(* history: no guard reads them.                                           *)
(***************************************************************************)
EXTENDS Timestamps, Maps

CONSTANTS
    Keys, Writers, Readers, Flushers,
    Modes,             \* the commit modes the clients use
    Lens,              \* the value lengths they write
    KeyLen,            \* the length of each key
    TTL,               \* KVP_TTL, in ticks
    EntryOverhead,     \* entryOverhead
    FlushBatchSize,    \* flushBatchSize
    MaxDeleteParams,   \* maxDeleteParams
    Evicts,            \* whether the eviction job runs
    MemLimit, BatchSize, MaxRuns,   \* the arguments of EvictOldest
    Sweeps,            \* whether the expiry job runs
    SweepLimit,        \* the argument of DeleteExpired
    Steps,             \* the ticks by which the clock may advance
    MaxTime, MaxWrites, MaxErrors, MaxRestarts   \* bounds of the model

ASSUME SetsAssumption ==
    /\ IsFiniteSet(Keys)
    /\ Modes \subseteq {"sync", "async", "memory"}
    /\ Evicts \in BOOLEAN /\ Sweeps \in BOOLEAN
ASSUME SizesAssumption ==
    /\ Lens \subseteq Nat
    /\ KeyLen \in [Keys -> Nat]
    /\ EntryOverhead \in Nat
ASSUME LimitsAssumption ==
    /\ FlushBatchSize \in Nat \ {0}
    /\ MaxDeleteParams \in Nat \ {0}
    /\ MemLimit \in Nat
    /\ BatchSize \in Nat \ {0} /\ MaxRuns \in Nat \ {0}
    /\ SweepLimit \in Nat
ASSUME TimeAssumption == TTL \in Nat /\ Steps \subseteq Nat \ {0}
ASSUME BoundsAssumption ==
    MaxTime \in Nat /\ MaxWrites \in Nat /\ MaxErrors \in Nat /\ MaxRestarts \in Nat

VARIABLES
    now,          \* what s.now() returns
    db,           \* the table kv_store: key -> row
    cache,        \* s.cache: key -> entry
    cacheBytes,   \* s.cacheBytes
    dirty,        \* s.dirty
    puts,         \* the PutWithMode calls in progress: writer -> call
    gets,         \* the getCached calls in progress, and their lazy deletes
    fl,           \* the Flush call of each flusher
    ev,           \* the EvictOldest call
    sw,           \* the DeleteExpired call
    writes, errors, restarts,   \* how many so far
    promised,     \* history: key -> the last write that returned
    thinned       \* history: the keys whose rows the other jobs deleted since
                  \* the eviction counted the rows

requests == <<puts, gets>>
counters == <<writes, errors, restarts>>
vars == <<now, db, cache, cacheBytes, dirty, puts, gets, fl, ev, sw,
          writes, errors, restarts, promised, thinned>>

---------------------------------------------------------------------------
(* Values, rows and entries.                                               *)

Expiries(m) == [k \in DOMAIN m |-> m[k].expiresAt]

Value == [id : Nat, mode : Modes, len : Lens]
Row   == [value : Value, expiresAt : Nat]
Entry == [value : Value, expiresAt : Nat, volatile : BOOLEAN]

RowOf(e) == [value |-> e.value, expiresAt |-> e.expiresAt]
EntryOf(r, volatile) ==
    [value |-> r.value, expiresAt |-> r.expiresAt, volatile |-> volatile]

entrySize(k, e) == KeyLen[k] + e.value.len + EntryOverhead

\* The sum of the entry sizes of a map, as the number of its (key, byte) pairs.
BytePairs(m) == UNION {{k} \X (1..entrySize(k, m[k])) : k \in DOMAIN m}
Bytes(m) == Cardinality(BytePairs(m))

---------------------------------------------------------------------------
(* The calls in progress.                                                  *)

FlushAt(pc, keys, batch, chunk) ==
    [pc |-> pc, keys |-> keys, batch |-> batch, chunk |-> chunk]
IdleFlush == FlushAt("idle", {}, EmptyMap, {})

EvictAt(pc, run, batch, victims, todo, removed) ==
    [pc |-> pc, run |-> run, batch |-> batch, victims |-> victims, todo |-> todo,
     removed |-> removed]
BetweenBatches(pc, run) == EvictAt(pc, run, 0, EmptyMap, {}, 0)
IdleEvict == BetweenBatches("idle", 0)

IdleSweep == [pc |-> "idle", at |-> 0]

IsFlushCall(c) ==
    /\ c = FlushAt(c.pc, c.keys, c.batch, c.chunk)
    /\ c.pc \in {"idle", "read", "commit", "clear"}
    /\ c.keys \subseteq Keys /\ IsMap(c.batch, Keys, Entry)
    /\ c.chunk \subseteq DOMAIN c.batch
IsEvictCall(c) ==
    /\ c = EvictAt(c.pc, c.run, c.batch, c.victims, c.todo, c.removed)
    /\ c.pc \in {"idle", "volCheck", "volSnap", "volDelete", "volDrop",
                 "rowCheck", "rowCount", "rowSelect", "rowDelete", "rowDrop"}
    /\ c.run \in Nat /\ c.batch \in Nat /\ c.removed \in Nat
    /\ IsMap(c.victims, Keys, Nat) /\ c.todo \subseteq DOMAIN c.victims
SweepCall == [pc : {"idle", "purge", "probe", "delete"}, at : Nat]
PutCall   == [pc : {"exec", "cache", "mark"}, key : Keys, value : Value,
              expiresAt : Nat, alone : BOOLEAN]
GetCall   == [pc : {"read", "lazy"}, key : Keys, expiresAt : Nat]
Promise   == [value : Value, expiresAt : Nat, alone : BOOLEAN]

TypeOK ==
    /\ now \in Nat
    /\ IsMap(db, Keys, Row)
    /\ IsMap(cache, Keys, Entry)
    /\ cacheBytes \in Int
    /\ dirty \subseteq Keys
    /\ IsMap(puts, Writers, PutCall)
    /\ IsMap(gets, Readers, GetCall)
    /\ fl = [f \in Flushers |-> fl[f]] /\ \A f \in Flushers : IsFlushCall(fl[f])
    /\ IsEvictCall(ev)
    /\ sw \in SweepCall
    /\ writes \in Nat /\ errors \in Nat /\ restarts \in Nat
    /\ IsMap(promised, Keys, Promise)
    /\ thinned \subseteq Keys

---------------------------------------------------------------------------
(* The history: which writes run alone on their key.                       *)

FlusherHolds(k) == \E f \in Flushers : k \in fl[f].keys \cup DOMAIN fl[f].batch

\* The eviction has yet to remove the row or the entry of a write to k that
\* expires at exp: any write to a victim row, and a write to a volatile
\* victim that does not expire later by the clock.
EvictorClaims(k, exp) ==
    /\ k \in DOMAIN ev.victims
    /\ \/ ev.pc \in {"rowDelete", "rowDrop"}
       \/ exp = ev.victims[k]
       \/ k \in ev.todo /\ exp <= ev.victims[k]

\* The Put calls of the writers in W are no longer alone.
Disturb(W) == [w \in DOMAIN puts |-> [puts[w] EXCEPT !.alone = @ /\ w \notin W]]

---------------------------------------------------------------------------
(* PutWithMode.                                                            *)

\* s.cache[key] = e under the lock, with the byte count kept in step.
cachePut(k, e) ==
    /\ cache' = Upsert(cache, k, e)
    /\ cacheBytes' = cacheBytes + entrySize(k, e)
                       - (IF k \in DOMAIN cache THEN entrySize(k, cache[k]) ELSE 0)

\* Mutant of cacheDelete: a key that is listed but no longer in memory is
\* charged for as well, with the least an entry can weigh.
cacheDeleteTwice(S) ==
    /\ cache' = Without(cache, S)
    /\ cacheBytes' = cacheBytes - Bytes(Restrict(cache, S \cap DOMAIN cache))
                       - Cardinality(S \ DOMAIN cache) * EntryOverhead

\* delete(s.cache, key) for every key of S, with the byte count kept in step.
cacheDelete(S) ==
    /\ cache' = Without(cache, S)
    /\ cacheBytes' = cacheBytes - Bytes(Restrict(cache, S \cap DOMAIN cache))

PutBegin(w, k, mode, len) ==
    /\ w \notin DOMAIN puts
    /\ writes < MaxWrites
    /\ LET exp     == now + TTL
           call    == [pc |-> IF mode = "sync" THEN "exec" ELSE "cache", key |-> k,
                       value |-> [id |-> writes + 1, mode |-> mode, len |-> len],
                       expiresAt |-> exp,
                       alone |-> /\ \A o \in DOMAIN puts : puts[o].key # k
                                 /\ mode # "async" => ~FlusherHolds(k)
                                 /\ ~EvictorClaims(k, exp)]
       IN  puts' = Upsert(Disturb({o \in DOMAIN puts : puts[o].key = k}), w, call)
    /\ writes' = writes + 1
    /\ UNCHANGED <<now, db, cache, cacheBytes, dirty, gets, fl, ev, sw,
                   errors, restarts, promised, thinned>>

\* The upsert of a sync write, before it reaches the memory layer.
PutExec(w) ==
    /\ w \in DOMAIN puts /\ puts[w].pc = "exec"
    /\ db' = Upsert(db, puts[w].key, RowOf(puts[w]))
    /\ puts' = [puts EXCEPT ![w].pc = "cache"]
    /\ promised' = Without(promised, {puts[w].key})
    /\ UNCHANGED <<now, cache, cacheBytes, dirty, gets, fl, ev, sw, counters,
                   thinned>>

\* Mutant of PutFail: the error does not keep the value out of memory.
PutFailMirrors(w) ==
    /\ w \in DOMAIN puts /\ puts[w].pc = "exec"
    /\ errors < MaxErrors
    /\ puts' = [puts EXCEPT ![w].pc = "cache"]
    /\ errors' = errors + 1
    /\ UNCHANGED <<now, db, cache, cacheBytes, dirty, gets, fl, ev, sw,
                   writes, restarts, promised, thinned>>

\* The upsert fails: the call returns the error and leaves both layers alone.
PutFail(w) ==
    /\ w \in DOMAIN puts /\ puts[w].pc = "exec"
    /\ errors < MaxErrors
    /\ puts' = Without(puts, {w})
    /\ errors' = errors + 1
    /\ UNCHANGED <<now, db, cache, cacheBytes, dirty, gets, fl, ev, sw,
                   writes, restarts, promised, thinned>>

\* The upsert is applied, but its context is cancelled before the driver
\* returns: the call reports the error and leaves the older value in memory.
PutFailLate(w) ==
    /\ w \in DOMAIN puts /\ puts[w].pc = "exec"
    /\ errors < MaxErrors
    /\ db' = Upsert(db, puts[w].key, RowOf(puts[w]))
    /\ puts' = Without(puts, {w})
    /\ promised' = Without(promised, {puts[w].key})
    /\ errors' = errors + 1
    /\ UNCHANGED <<now, cache, cacheBytes, dirty, gets, fl, ev, sw, writes, restarts,
                   thinned>>

PutCache(w) ==
    /\ w \in DOMAIN puts /\ puts[w].pc = "cache"
    /\ cachePut(puts[w].key, EntryOf(puts[w], puts[w].value.mode # "sync"))
    /\ puts' = [puts EXCEPT ![w].pc = "mark"]
    /\ promised' = Without(promised, {puts[w].key})
    /\ UNCHANGED <<now, db, dirty, gets, fl, ev, sw, counters, thinned>>

\* Mutant of MarkDirty: a write in another mode leaves the mark of an earlier
\* async write in place.
MarkDirtyKeeps(k, mode) == IF mode = "async" THEN dirty \cup {k} ELSE dirty

\* markDirty for an async write, clearDirty for the others.
MarkDirty(k, mode) == IF mode = "async" THEN dirty \cup {k} ELSE dirty \ {k}

\* The last critical section; then the call returns to the client.
PutMark(w) ==
    /\ w \in DOMAIN puts /\ puts[w].pc = "mark"
    /\ dirty' = MarkDirty(puts[w].key, puts[w].value.mode)
    /\ promised' = Upsert(promised, puts[w].key,
                          [value |-> puts[w].value, expiresAt |-> puts[w].expiresAt,
                           alone |-> puts[w].alone])
    /\ puts' = Without(puts, {w})
    /\ UNCHANGED <<now, db, cache, cacheBytes, gets, fl, ev, sw, counters, thinned>>

---------------------------------------------------------------------------
(* getCached.  A miss changes nothing.  The goroutine that deletes the row *)
(* of an expired entry keeps the reader's slot until it is done.           *)

GetRead(r, k) ==
    /\ r \notin DOMAIN gets /\ k \in DOMAIN cache
    /\ gets' = Upsert(gets, r, [pc |-> "read", key |-> k,
                                expiresAt |-> cache[k].expiresAt])
    /\ UNCHANGED <<now, db, cache, cacheBytes, dirty, puts, fl, ev, sw,
                   counters, promised, thinned>>

\* The entry is live when the clock is read: the value is returned.
GetReturn(r) ==
    /\ r \in DOMAIN gets /\ gets[r].pc = "read"
    /\ ~After(now, gets[r].expiresAt)
    /\ gets' = Without(gets, {r})
    /\ UNCHANGED <<now, db, cache, cacheBytes, dirty, puts, fl, ev, sw,
                   counters, promised, thinned>>

\* Mutant of SameEntry: the entry under the key, whichever it is.
SameEntryAny(k, exp) == k \in DOMAIN cache

\* The entry under k is still the one whose expiry was read earlier.
SameEntry(k, exp) == k \in DOMAIN cache /\ cache[k].expiresAt = exp

\* It is past its expiry: drop it unless a Put replaced it in between.
GetDrop(r) ==
    /\ r \in DOMAIN gets /\ gets[r].pc = "read"
    /\ After(now, gets[r].expiresAt)
    /\ cacheDelete({k \in {gets[r].key} : SameEntry(k, gets[r].expiresAt)})
    /\ gets' = [gets EXCEPT ![r].pc = "lazy"]
    /\ UNCHANGED <<now, db, dirty, puts, fl, ev, sw, counters, promised, thinned>>

\* Rows of S go while the row phase of the eviction goes by its count.
Thin(S) ==
    thinned' = thinned \cup (IF ev.pc \in {"rowSelect", "rowDelete"} THEN S ELSE {})

\* Mutant of LazyDelete: the row goes whatever its expiry.
LazyDeleteAny(r) ==
    /\ r \in DOMAIN gets /\ gets[r].pc = "lazy"
    /\ db' = Without(db, {gets[r].key})
    /\ gets' = Without(gets, {r})
    /\ Thin({gets[r].key})
    /\ UNCHANGED <<now, cache, cacheBytes, dirty, puts, fl, ev, sw, counters, promised>>

\* DELETE ... WHERE key = ? AND expires_at = ?
LazyDelete(r) ==
    /\ r \in DOMAIN gets /\ gets[r].pc = "lazy"
    /\ LET S == {k \in DOMAIN db \cap {gets[r].key} :
                     Format(db[k].expiresAt) = Format(gets[r].expiresAt)}
       IN  db' = Without(db, S) /\ Thin(S)
    /\ gets' = Without(gets, {r})
    /\ UNCHANGED <<now, cache, cacheBytes, dirty, puts, fl, ev, sw, counters, promised>>

\* Its error is ignored; the sweep removes the row later.
LazyFail(r) ==
    /\ r \in DOMAIN gets /\ gets[r].pc = "lazy"
    /\ errors < MaxErrors
    /\ gets' = Without(gets, {r})
    /\ errors' = errors + 1
    /\ UNCHANGED <<now, db, cache, cacheBytes, dirty, puts, fl, ev, sw,
                   writes, restarts, promised, thinned>>

---------------------------------------------------------------------------
(* Flush.                                                                  *)

\* takeDirty
FlushTake(f) ==
    /\ fl[f].pc = "idle" /\ dirty # {}
    /\ fl' = [fl EXCEPT ![f] = FlushAt("read", dirty, EmptyMap, {})]
    /\ dirty' = {}
    /\ puts' = Disturb({w \in DOMAIN puts : puts[w].key \in dirty /\ puts[w].value.mode # "async"})
    /\ UNCHANGED <<now, db, cache, cacheBytes, gets, ev, sw, counters, promised,
                   thinned>>

\* The current entry of every taken key that is still in memory.
FlushRead(f) ==
    /\ fl[f].pc = "read"
    /\ LET batch == Restrict(cache, fl[f].keys \cap DOMAIN cache)
       IN  fl' = [fl EXCEPT ![f] = IF DOMAIN batch = {} THEN IdleFlush
                                   ELSE FlushAt("commit", {}, batch, {})]
    /\ UNCHANGED <<now, db, cache, cacheBytes, dirty, requests, ev, sw, counters,
                   promised, thinned>>

\* One transaction: BEGIN, the upserts of a chunk, COMMIT.
FlushCommit(f) ==
    /\ fl[f].pc = "commit"
    /\ \E chunk \in Chunks(DOMAIN fl[f].batch, FlushBatchSize) :
          /\ db' = Overlay(db, [k \in chunk |-> RowOf(fl[f].batch[k])])
          /\ fl' = [fl EXCEPT ![f] = FlushAt("clear", {}, fl[f].batch, chunk)]
    /\ UNCHANGED <<now, cache, cacheBytes, dirty, requests, ev, sw, counters,
                   promised, thinned>>

\* Mutant of reMarkDirty: the chunk is forgotten as well.
reMarkDirtyNot(chunk) == dirty

reMarkDirty(chunk) == dirty \cup chunk

\* Flush gives up on a transaction: it marks the chunk again and returns, and
\* the keys of the later chunks are marked only if a write has done so since.
FlushAbandon(f) ==
    /\ fl[f].pc = "commit"
    /\ \E chunk \in Chunks(DOMAIN fl[f].batch, FlushBatchSize) :
          /\ dirty' = reMarkDirty(chunk)
          /\ promised' = Without(promised, DOMAIN fl[f].batch \ (dirty \cup chunk))
    /\ fl' = [fl EXCEPT ![f] = IdleFlush]
    /\ UNCHANGED <<now, db, cache, cacheBytes, requests, ev, sw, writes, restarts,
                   thinned>>

\* The transaction fails.
FlushFail(f) ==
    /\ errors < MaxErrors
    /\ FlushAbandon(f)
    /\ errors' = errors + 1

\* Mutant of FlushClear: the mark is cleared when the row is written, not when
\* the key is taken, and with it the mark of a write made in between.
FlushClearDirty(f, k) ==
    /\ fl[f].pc = "clear" /\ k \in fl[f].chunk
    /\ dirty' = dirty \ {k}
    /\ fl' = [fl EXCEPT ![f] = IdleFlush]
    /\ UNCHANGED <<now, db, cache, cacheBytes, requests, ev, sw, counters,
                   promised, thinned>>

\* clearVolatile of one key of the chunk; after the last one Flush goes on
\* to the next chunk or returns.
FlushClear(f, k) ==
    /\ fl[f].pc = "clear" /\ k \in fl[f].chunk
    /\ cache' = IF SameEntry(k, fl[f].batch[k].expiresAt)
                THEN [cache EXCEPT ![k].volatile = FALSE] ELSE cache
    /\ LET chunk == fl[f].chunk \ {k}
           batch == Without(fl[f].batch, {k})
       IN  fl' = [fl EXCEPT ![f] =
                     IF DOMAIN batch = {} THEN IdleFlush
                     ELSE FlushAt(IF chunk = {} THEN "commit" ELSE "clear", {}, batch, chunk)]
    /\ UNCHANGED <<now, db, cacheBytes, dirty, requests, ev, sw, counters,
                   promised, thinned>>

---------------------------------------------------------------------------
(* EvictOldest, for the Evictor whose RunOnce found the budget exceeded.   *)
(* The singleflight guard of MaybeEvict allows one call at a time.         *)

EvictUnchanged == UNCHANGED <<now, dirty, gets, fl, sw, writes, restarts, thinned>>

\* A victim's promise is void: the budget may take any value.  Writes to the
\* victims that are in progress, and that the eviction can still hit, are
\* not alone.
EvictClaim(pc, victims) ==
    /\ ev' = EvictAt(pc, ev.run, ev.batch, victims, DOMAIN victims, 0)
    /\ promised' = Without(promised, DOMAIN victims)
    /\ puts' = Disturb({w \in DOMAIN puts :
                   /\ puts[w].key \in DOMAIN victims
                   /\ pc = "volDelete" => puts[w].expiresAt <= victims[puts[w].key]})

EvictStart ==
    /\ Evicts /\ ev.pc = "idle" /\ cacheBytes >= MemLimit
    /\ ev' = BetweenBatches("volCheck", 0)
    /\ UNCHANGED <<db, cache, cacheBytes, puts, errors, promised>> /\ EvictUnchanged

\* Over budget with runs left: go on to the next step of the phase.
NextRun == ev.run < MaxRuns /\ cacheBytes >= MemLimit

RowPhase == BetweenBatches("rowCheck", 0)

EvictVolCheck ==
    /\ ev.pc = "volCheck"
    /\ ev' = IF NextRun THEN BetweenBatches("volSnap", ev.run) ELSE RowPhase
    /\ UNCHANGED <<db, cache, cacheBytes, puts, errors, promised>> /\ EvictUnchanged

\* purgeVolatileBatch: the victims are the volatile entries that expire first.
EvictVolSnap ==
    /\ ev.pc = "volSnap"
    /\ LET volatile == {k \in DOMAIN cache : cache[k].volatile}
           expiries == Expiries(Restrict(cache, volatile))
       IN  IF volatile = {}
           THEN ev' = RowPhase /\ UNCHANGED <<puts, promised>>
           ELSE \E S \in Oldest(expiries, BatchSize, Before) :
                    EvictClaim("volDelete", Restrict(expiries, S))
    /\ UNCHANGED <<db, cache, cacheBytes, errors>> /\ EvictUnchanged

\* Mutant of Shadow: the row behind a victim goes whatever its expiry.
ShadowAny(k) == k \in DOMAIN db

\* DELETE ... WHERE key = ? AND expires_at <= ?
Shadow(k) == k \in DOMAIN db /\ TextLeq(db[k].expiresAt, ev.victims[k])

\* The row expires later than the victim and the texts of the two expiries are
\* in the other order, so that it goes as well.  Its write keeps no promise.
Overtaken(k) ==
    /\ k \in DOMAIN db /\ db[k].expiresAt > ev.victims[k]
    /\ TextLeq(db[k].expiresAt, ev.victims[k])

\* The rows behind the victims, one statement for each, oldest first.
EvictVolDelete(k) ==
    /\ ev.pc = "volDelete" /\ k \in ev.todo
    /\ \A o \in ev.todo : ev.victims[k] <= ev.victims[o]
    /\ db' = Without(db, {x \in {k} : Shadow(x)})
    /\ promised' = Without(promised, {x \in {k} \cap DOMAIN promised :
                                         Overtaken(x) /\ db[x] = RowOf(promised[x])})
    /\ puts' = Disturb({w \in DOMAIN puts : /\ puts[w].key = k /\ Overtaken(k)
                                            /\ db[k] = RowOf(puts[w])})
    /\ ev' = EvictAt(IF ev.todo = {k} THEN "volDrop" ELSE "volDelete",
                     ev.run, ev.batch, ev.victims, ev.todo \ {k}, 0)
    /\ UNCHANGED <<cache, cacheBytes, errors>> /\ EvictUnchanged

\* Mutant of StillVictim: the entry is not looked at again.
StillVictimAny(k) == k \in DOMAIN cache

StillVictim(k) == SameEntry(k, ev.victims[k]) /\ cache[k].volatile

EvictVolDrop ==
    /\ ev.pc = "volDrop"
    /\ LET S == {k \in DOMAIN ev.victims : StillVictim(k)}
       IN  /\ cacheDelete(S)
           /\ ev' = IF S = {} THEN RowPhase
                    ELSE BetweenBatches("volCheck", ev.run + 1)
    /\ UNCHANGED <<db, puts, errors, promised>> /\ EvictUnchanged

EvictRowCheck ==
    /\ ev.pc = "rowCheck"
    /\ ev' = IF NextRun THEN BetweenBatches("rowCount", ev.run) ELSE IdleEvict
    /\ UNCHANGED <<db, cache, cacheBytes, puts, errors, promised>> /\ EvictUnchanged

\* Mutant of BatchFor: the batch may hold every row.
BatchForAll(total) == Least(BatchSize, total)

\* "Never fully empty the table."
BatchFor(total) == IF total <= BatchSize THEN total - 1 ELSE BatchSize

\* Mutant of EvictRowCount: the sign of the batch is not looked at (and SQLite
\* takes a negative LIMIT as none).
EvictRowCountUnguarded ==
    /\ ev.pc = "rowCount"
    /\ ev' = EvictAt("rowSelect", ev.run, BatchFor(Cardinality(DOMAIN db)), EmptyMap, {}, 0)
    /\ thinned' = {}
    /\ UNCHANGED <<now, db, cache, cacheBytes, dirty, requests, fl, sw, counters, promised>>

EvictRowCount ==
    /\ ev.pc = "rowCount"
    /\ LET batch == BatchFor(Cardinality(DOMAIN db))
       IN  ev' = IF batch <= 0 THEN IdleEvict
                 ELSE EvictAt("rowSelect", ev.run, batch, EmptyMap, {}, 0)
    /\ thinned' = {}
    /\ UNCHANGED <<now, db, cache, cacheBytes, dirty, requests, fl, sw, counters, promised>>

\* deleteOldestBatchCached: SELECT key ... ORDER BY expires_at ASC LIMIT ?
EvictRowSelect ==
    /\ ev.pc = "rowSelect"
    /\ IF DOMAIN db = {}
       THEN ev' = IdleEvict /\ UNCHANGED <<puts, promised>>
       ELSE \E S \in Oldest(Expiries(db), ev.batch, TextLess) :
                EvictClaim("rowDelete", Restrict(Expiries(db), S))
    /\ UNCHANGED <<db, cache, cacheBytes, errors>> /\ EvictUnchanged

\* DELETE ... WHERE key IN (...), for one chunk of the selected keys.
EvictRowDelete ==
    /\ ev.pc = "rowDelete"
    /\ \E chunk \in Oldest(Restrict(ev.victims, ev.todo), MaxDeleteParams, TextLess) :
          /\ db' = Without(db, chunk)
          /\ ev' = EvictAt(IF ev.todo = chunk THEN "rowDrop" ELSE "rowDelete",
                           ev.run, ev.batch, ev.victims, ev.todo \ chunk,
                           ev.removed + Cardinality(chunk \cap DOMAIN db))
    /\ UNCHANGED <<cache, cacheBytes, puts, errors, promised>> /\ EvictUnchanged

\* The selected keys leave the memory layer, whatever is under them by now.
EvictRowDrop ==
    /\ ev.pc = "rowDrop"
    /\ cacheDelete(DOMAIN ev.victims)
    /\ ev' = IF ev.removed = 0 THEN IdleEvict
             ELSE BetweenBatches("rowCheck", ev.run + 1)
    /\ UNCHANGED <<db, puts, errors, promised>> /\ EvictUnchanged

\* A statement fails and EvictOldest returns its error.
EvictFail ==
    /\ ev.pc \in {"volDelete", "rowCount", "rowSelect", "rowDelete"}
    /\ errors < MaxErrors
    /\ ev' = IdleEvict
    /\ errors' = errors + 1
    /\ UNCHANGED <<db, cache, cacheBytes, puts, promised>> /\ EvictUnchanged

---------------------------------------------------------------------------
(* DeleteExpired.                                                          *)

SweepUnchanged ==
    UNCHANGED <<now, dirty, requests, fl, ev, writes, restarts, promised>>

SweepStart ==
    /\ Sweeps /\ sw.pc = "idle"
    /\ sw' = [pc |-> "purge", at |-> now]
    /\ UNCHANGED <<db, cache, cacheBytes, errors, thinned>> /\ SweepUnchanged

\* Mutant of Expired: the moment of expiry counts as past.
ExpiredAtOnce(m, t) == {k \in DOMAIN m : t >= m[k].expiresAt}

Expired(m, t) == {k \in DOMAIN m : After(t, m[k].expiresAt)}

SweepPurge ==
    /\ sw.pc = "purge"
    /\ cacheDelete(Expired(cache, sw.at))
    /\ sw' = [sw EXCEPT !.pc = "probe"]
    /\ UNCHANGED <<db, errors, thinned>> /\ SweepUnchanged

\* Mutant of PastRows: only the rows of keys that are in memory.
PastRowsCached == {k \in DOMAIN db \cap DOMAIN cache : TextLess(db[k].expiresAt, sw.at)}

\* WHERE expires_at < ?
PastRows == {k \in DOMAIN db : TextLess(db[k].expiresAt, sw.at)}

SweepProbe ==
    /\ sw.pc = "probe"
    /\ sw' = IF PastRows = {} THEN IdleSweep ELSE [sw EXCEPT !.pc = "delete"]
    /\ UNCHANGED <<db, cache, cacheBytes, errors, thinned>> /\ SweepUnchanged

SweepDelete ==
    /\ sw.pc = "delete"
    /\ \E S \in IF SweepLimit = 0 THEN {PastRows}
                ELSE Oldest(Expiries(Restrict(db, PastRows)), SweepLimit, TextLess) :
          db' = Without(db, S) /\ Thin(S)
    /\ sw' = IdleSweep
    /\ UNCHANGED <<cache, cacheBytes, errors>> /\ SweepUnchanged

SweepFail ==
    /\ sw.pc \in {"probe", "delete"}
    /\ errors < MaxErrors
    /\ sw' = IdleSweep
    /\ errors' = errors + 1
    /\ UNCHANGED <<db, cache, cacheBytes, thinned>> /\ SweepUnchanged

---------------------------------------------------------------------------
(* The process and its clock.                                              *)

\* Mutant of Loaded: a row at the moment of its expiry is left out.
LoadedStrict == [k \in DOMAIN db \ ExpiredAtOnce(db, now) |-> EntryOf(db[k], FALSE)]

\* loadCache: every row that is not past its expiry, none of them volatile.
Loaded == [k \in DOMAIN db \ Expired(db, now) |-> EntryOf(db[k], FALSE)]

\* What a restart must keep: sync writes, and async writes that reached the
\* table, for as long as no sweep may have taken their row.
Durable ==
    {k \in DOMAIN promised :
        /\ \/ promised[k].value.mode = "sync"
           \/ /\ promised[k].value.mode = "async"
              /\ k \in DOMAIN db /\ db[k] = RowOf(promised[k])
        /\ ~After(now, promised[k].expiresAt)
        /\ ~Sweepable(promised[k].expiresAt, now)}

\* The process dies, losing everything but the table, and Open loads it.
Restart ==
    /\ restarts < MaxRestarts
    /\ cache' = Loaded
    /\ cacheBytes' = Bytes(Loaded)
    /\ dirty' = {} /\ puts' = EmptyMap /\ gets' = EmptyMap
    /\ fl' = [f \in Flushers |-> IdleFlush] /\ ev' = IdleEvict /\ sw' = IdleSweep
    /\ promised' = Restrict(promised, Durable) /\ thinned' = {}
    /\ restarts' = restarts + 1
    /\ UNCHANGED <<now, db, writes, errors>>

Tick ==
    /\ \E s \in Steps : now + s <= MaxTime /\ now' = now + s
    /\ UNCHANGED <<db, cache, cacheBytes, dirty, requests, fl, ev, sw, counters,
                   promised, thinned>>

---------------------------------------------------------------------------
Init ==
    /\ now = 0
    /\ db = EmptyMap /\ cache = EmptyMap /\ cacheBytes = 0 /\ dirty = {}
    /\ puts = EmptyMap /\ gets = EmptyMap
    /\ fl = [f \in Flushers |-> IdleFlush] /\ ev = IdleEvict /\ sw = IdleSweep
    /\ writes = 0 /\ errors = 0 /\ restarts = 0
    /\ promised = EmptyMap /\ thinned = {}

Put(w) == PutExec(w) \/ PutCache(w) \/ PutMark(w)
Get(r) == GetReturn(r) \/ GetDrop(r) \/ LazyDelete(r)
Flush(f) ==
    FlushTake(f) \/ FlushRead(f) \/ FlushCommit(f) \/ \E k \in Keys : FlushClear(f, k)
Evict ==
    \/ EvictStart \/ EvictVolCheck \/ EvictVolSnap
    \/ \E k \in Keys : EvictVolDelete(k)
    \/ EvictVolDrop
    \/ EvictRowCheck \/ EvictRowCount \/ EvictRowSelect \/ EvictRowDelete \/ EvictRowDrop
Sweep == SweepStart \/ SweepPurge \/ SweepProbe \/ SweepDelete

Next ==
    \/ \E w \in Writers :
          \/ \E k \in Keys, mode \in Modes, len \in Lens : PutBegin(w, k, mode, len)
          \/ Put(w) \/ PutFail(w) \/ PutFailLate(w)
    \/ \E r \in Readers : (\E k \in Keys : GetRead(r, k)) \/ Get(r) \/ LazyFail(r)
    \/ \E f \in Flushers : Flush(f) \/ FlushFail(f)
    \/ Evict \/ EvictFail
    \/ Sweep \/ SweepFail
    \/ Restart
    \/ Tick

Spec == Init /\ [][Next]_vars

\* The scheduler runs every goroutine, and the tickers of Flusher.Run and
\* ExpiryRunner.Run start the flush and the sweep again and again.  Nothing
\* forces an error, a crash, a request or the passage of time.
Fairness ==
    /\ \A w \in Writers : WF_vars(Put(w))
    /\ \A f \in Flushers : WF_vars(Flush(f))
    /\ WF_vars(Sweep)

LiveSpec == Spec /\ Fairness

---------------------------------------------------------------------------
(* Properties.                                                             *)

\* The byte count that the eviction budget is compared with is the sum of
\* the sizes of the entries in memory, after every interleaving of cachePut
\* and the four places that delete from s.cache.
CacheBytesExact == cacheBytes = Bytes(cache)

Unexpired(p) == ~After(now, p.expiresAt)

\* The value of the last write that returned is the one that Get returns.
Served(k) ==
    Unexpired(promised[k]) => k \in DOMAIN cache /\ RowOf(cache[k]) = RowOf(promised[k])

\* Its row is the one in the table, until the sweep may take it.
Stored(k) ==
    Unexpired(promised[k]) /\ ~Sweepable(promised[k].expiresAt, now) =>
        k \in DOMAIN db /\ db[k] = RowOf(promised[k])

\* The flush job still has it to write.
Pending(k) ==
    \/ k \in dirty
    \/ \E f \in Flushers :
          \/ k \in fl[f].keys
          \/ k \in DOMAIN fl[f].batch /\ RowOf(fl[f].batch[k]) = RowOf(promised[k])

\* The keys whose last returned write was in the given mode and did not
\* overlap another write, the flush or an eviction of the same key.
AloneIn(mode) ==
    {k \in DOMAIN promised : promised[k].value.mode = mode /\ promised[k].alone}

\* PutSync: until it expires or is evicted, the value is served and its row
\* is in the table, whatever happens to other keys and however often the
\* process restarts.  A later Put that fails does not disturb it, nor does
\* the purge of an older volatile entry of the same key, except where
\* PurgeKeepsLaterRows fails.
SyncHonoured == \A k \in AloneIn("sync") : Served(k) /\ Stored(k)

\* PutAsync: the value is served, and it is in the table or the flush job
\* still has it, even when the write raced a flush of the key or when
\* flushes fail.
AsyncHonoured == \A k \in AloneIn("async") : Served(k) /\ (Stored(k) \/ Pending(k))

\* PutMemory: the value is served, is not in the table, and nothing is left
\* that would write it there: neither a mark of an earlier async write nor a
\* flush that has the key.
MemoryHonoured ==
    \A k \in AloneIn("memory") :
        /\ Served(k)
        /\ k \in DOMAIN db => db[k].value # promised[k].value
        /\ k \notin dirty /\ ~FlusherHolds(k)

\* A live entry leaves memory only by an eviction that selected its key, or
\* with the process: never by a Get or a sweep that acts on an expiry it read
\* before the entry was replaced.
LiveEntriesLeaveByEviction ==
    [][\A k \in DOMAIN cache \ DOMAIN cache' :
          \/ ~Unexpired(cache[k])
          \/ ev.pc \in {"volDrop", "rowDrop"} /\ k \in DOMAIN ev.victims
          \/ restarts' # restarts]_vars

\* A row whose expiry is not yet reached in the order of the texts leaves the
\* table only by an eviction that selected its key: the lazy delete and the
\* sweep spare a row that was written after they looked.
LiveRowsLeaveByEviction ==
    [][\A k \in DOMAIN db \ DOMAIN db' :
          \/ ~Unexpired(db[k]) \/ Sweepable(db[k].expiresAt, now)
          \/ ev.pc \in {"volDelete", "rowDelete"} /\ k \in DOMAIN ev.victims]_vars

\* An async write that returned is in the table in the end, unless it is
\* overwritten, evicted, lost in a crash or past its expiry.
AsyncEventuallyStored ==
    \A k \in Keys, i \in 1..MaxWrites :
        LET Owed == /\ k \in AloneIn("async") /\ promised[k].value.id = i
                    /\ Unexpired(promised[k]) /\ ~Sweepable(promised[k].expiresAt, now)
        IN  Owed ~> (~Owed \/ Stored(k))

\* A row past its expiry leaves the table in the end.
PastRowsEventuallyGone ==
    \A k \in Keys, i \in 1..MaxWrites :
        LET Past == /\ k \in DOMAIN db /\ db[k].value.id = i
                    /\ TextLess(db[k].expiresAt, now)
        IN  Past ~> ~Past

\* "Never fully empty the table": the batch is sized by a count that is older
\* than the SELECT and the DELETEs, and the table is left empty only when a
\* lazy delete or the sweep took a row in between.
RowPhaseLeavesOne ==
    [][ev.pc = "rowDelete" /\ ev' # ev /\ thinned = {} => DOMAIN db' # {}]_vars

---------------------------------------------------------------------------
(* What the comments say of the code and the code does not keep.           *)

\* store.go 42: "PutSync persists to SQLite before returning: the value
\* survives a process restart", whether or not the write was alone.
SyncSurvives ==
    \A k \in DOMAIN promised : promised[k].value.mode = "sync" => Stored(k)

\* store.go 48: "PutMemory writes to the memory layer only and is never
\* persisted."
MemoryNeverPersisted == \A k \in DOMAIN db : db[k].value.mode # "memory"

\* store.go 330: "On error the un-persisted keys stay dirty for the next run."
FailedFlushKeepsDirty ==
    [][\A f \in Flushers : fl[f].pc = "commit" /\ fl'[f].pc = "idle"
                              => DOMAIN fl[f].batch \subseteq dirty']_vars

\* Nothing is in progress and nothing is left to flush.
Quiescent ==
    /\ DOMAIN puts = {} /\ DOMAIN gets = {} /\ dirty = {}
    /\ \A f \in Flushers : fl[f].pc = "idle"
    /\ ev.pc = "idle" /\ sw.pc = "idle"

\* store.go 96: "Every write goes to SQLite first and is mirrored into
\* memory; evictions and expiry sweeps remove from both so the two stay
\* consistent."
LayersConsistent ==
    Quiescent =>
        /\ \A k \in DOMAIN cache :
              ~cache[k].volatile /\ Unexpired(cache[k])
                  /\ ~Sweepable(cache[k].expiresAt, now)
                  => k \in DOMAIN db /\ db[k] = RowOf(cache[k])
        /\ \A k \in DOMAIN db : Unexpired(db[k]) => k \in DOMAIN cache

\* store.go 546: "the table is never fully emptied", the rows behind the
\* volatile entries included.
NeverEmptied ==
    [][ev.pc \in {"volDelete", "rowDelete"} /\ ev' # ev /\ DOMAIN db # {}
          => DOMAIN db' # {}]_vars

\* store.go 708: "Guarding on expires_at keeps a concurrent sync Put's fresh
\* row (a later expiry) from being wiped by the eviction snapshot."
PurgeKeepsLaterRows ==
    [][ev.pc = "volDelete" =>
          \A k \in DOMAIN db \ DOMAIN db' : db[k].expiresAt <= ev.victims[k]]_vars

\* store.go 479: "DeleteExpired removes rows past their expiry".
SweepTakesOnlyExpired ==
    [][sw.pc = "delete" => \A k \in DOMAIN db \ DOMAIN db' : ~Unexpired(db[k])]_vars

===========================================================================
