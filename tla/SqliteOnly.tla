----------------------------- MODULE SqliteOnly -----------------------------
(***************************************************************************)
(* The store of internal/store/store.go without its memory layer           *)
(* (KVP_MEMORY_CACHE_MB=0): every commit mode is sync, Get reads the table *)
(* (getDB) and the eviction budget is the size of the file.  A step is one *)
(* SQL statement or one reading of the clock.                              *)
(*                                                                         *)
(* A row takes one page.  A deleted row leaves a free page, which a later  *)
(* row takes; only incremental_vacuum gives free pages back.               *)
(* promised is history: no guard reads it.                                 *)
(***************************************************************************)
EXTENDS Timestamps, Maps

CONSTANTS
    Keys, Writers, Readers,
    TTL,                            \* KVP_TTL, in ticks
    SizeLimit, BatchSize, MaxRuns,  \* KVP_MAX_DB_BYTES in pages, and EvictOldest's bounds
    SweepLimit,                     \* the argument of DeleteExpired
    Steps,                          \* the ticks by which the clock may advance
    MaxTime, MaxWrites, MaxErrors, MaxRestarts   \* bounds of the model

ASSUME SqliteOnlyAssumption ==
    /\ IsFiniteSet(Keys)
    /\ TTL \in Nat /\ Steps \subseteq Nat \ {0}
    /\ SizeLimit \in Nat /\ BatchSize \in Nat \ {0} /\ MaxRuns \in Nat \ {0}
    /\ SweepLimit \in Nat
    /\ MaxTime \in Nat /\ MaxWrites \in Nat /\ MaxErrors \in Nat /\ MaxRestarts \in Nat

VARIABLES
    now, db,
    pages,      \* PRAGMA page_count
    puts,       \* the PutWithMode calls in progress: writer -> call
    gets,       \* the getDB calls in progress: reader -> call
    ev, sw,     \* the eviction and the sweep
    writes, errors, restarts,
    promised    \* history: the rows of the acknowledged writes

vars == <<now, db, pages, puts, gets, ev, sw, writes, errors, restarts, promised>>

IdleEvict == [pc |-> "idle", run |-> 0, batch |-> 0, deleted |-> 0]
IdleSweep == [pc |-> "idle", at |-> 0]

Row == [id : Nat, expiresAt : Nat]
PutCall == [key : Keys, row : Row]
GetCall == [pc : {"read", "lazy"}, key : Keys, expiresAt : Nat]

TypeOK ==
    /\ now \in Nat /\ pages \in Nat /\ writes \in Nat /\ errors \in Nat /\ restarts \in Nat
    /\ IsMap(db, Keys, Row) /\ IsMap(promised, Keys, Row)
    /\ IsMap(puts, Writers, PutCall) /\ IsMap(gets, Readers, GetCall)
    /\ ev \in [pc : {"idle", "size", "count", "delete", "vacuum"},
               run : Nat, batch : Nat, deleted : Nat]
    /\ sw \in [pc : {"idle", "probe", "delete"}, at : Nat]

Expiries(m) == [k \in DOMAIN m |-> m[k].expiresAt]

Init ==
    /\ now = 0 /\ db = EmptyMap /\ pages = 0
    /\ puts = EmptyMap /\ gets = EmptyMap /\ ev = IdleEvict /\ sw = IdleSweep
    /\ writes = 0 /\ errors = 0 /\ restarts = 0 /\ promised = EmptyMap

---------------------------------------------------------------------------
(* PutWithMode: any mode becomes PutSync.                                  *)

PutBegin(w, k) ==
    /\ w \notin DOMAIN puts /\ writes < MaxWrites
    /\ puts' = Upsert(puts, w, [key |-> k, row |-> [id |-> writes + 1, expiresAt |-> now + TTL]])
    /\ writes' = writes + 1
    /\ UNCHANGED <<now, db, pages, gets, ev, sw, errors, restarts, promised>>

\* A Get that has read the row of k may delete it.
ReaderHas(k) == \E r \in DOMAIN gets : gets[r].key = k

\* The file grows when a row finds no free page.
PagesFor(rows) == IF Cardinality(DOMAIN rows) > pages THEN Cardinality(DOMAIN rows) ELSE pages

\* The upsert; the call returns.
PutExec(w) ==
    /\ w \in DOMAIN puts
    /\ LET k == puts[w].key
       IN  /\ db' = Upsert(db, k, puts[w].row)
           /\ promised' = IF ReaderHas(k) THEN Without(promised, {k})
                          ELSE Upsert(promised, k, puts[w].row)
    /\ pages' = PagesFor(db')
    /\ puts' = Without(puts, {w})
    /\ UNCHANGED <<now, gets, ev, sw, writes, errors, restarts>>

PutFail(w) ==
    /\ w \in DOMAIN puts /\ errors < MaxErrors
    /\ puts' = Without(puts, {w})
    /\ errors' = errors + 1
    /\ UNCHANGED <<now, db, pages, gets, ev, sw, writes, restarts, promised>>

\* The upsert is applied, and its context is cancelled before the driver
\* returns.
PutFailLate(w) ==
    /\ w \in DOMAIN puts /\ errors < MaxErrors
    /\ db' = Upsert(db, puts[w].key, puts[w].row)
    /\ pages' = PagesFor(db')
    /\ puts' = Without(puts, {w})
    /\ promised' = Without(promised, {puts[w].key})
    /\ errors' = errors + 1
    /\ UNCHANGED <<now, gets, ev, sw, writes, restarts>>

---------------------------------------------------------------------------
(* getDB.  A miss changes nothing.                                         *)

GetRead(r, k) ==
    /\ r \notin DOMAIN gets /\ k \in DOMAIN db
    /\ gets' = Upsert(gets, r, [pc |-> "read", key |-> k,
                                expiresAt |-> Parse(Format(db[k].expiresAt))])
    /\ UNCHANGED <<now, db, pages, puts, ev, sw, writes, errors, restarts, promised>>

\* Mutant of PastExpiry: the moment of expiry counts as past.
PastExpiryAtOnce(exp) == now >= exp

PastExpiry(exp) == After(now, exp)

\* The clock is read after the row: the value is returned, or the row goes.
GetDecide(r) ==
    /\ r \in DOMAIN gets /\ gets[r].pc = "read"
    /\ gets' = IF PastExpiry(gets[r].expiresAt) THEN [gets EXCEPT ![r].pc = "lazy"]
               ELSE Without(gets, {r})
    /\ UNCHANGED <<now, db, pages, puts, ev, sw, writes, errors, restarts, promised>>

\* DELETE ... WHERE key = ?, whatever row is there by now.
LazyDelete(r) ==
    /\ r \in DOMAIN gets /\ gets[r].pc = "lazy"
    /\ db' = Without(db, {gets[r].key})
    /\ gets' = Without(gets, {r})
    /\ UNCHANGED <<now, pages, puts, ev, sw, writes, errors, restarts, promised>>

\* The DELETE fails; Get returns the error and the row stays.
LazyFail(r) ==
    /\ r \in DOMAIN gets /\ gets[r].pc = "lazy" /\ errors < MaxErrors
    /\ gets' = Without(gets, {r})
    /\ errors' = errors + 1
    /\ UNCHANGED <<now, db, pages, puts, ev, sw, writes, restarts, promised>>

---------------------------------------------------------------------------
(* DeleteExpired.                                                          *)

SweepUnchanged == UNCHANGED <<now, pages, puts, gets, ev, writes, restarts, promised>>

SweepStart ==
    /\ sw.pc = "idle"
    /\ sw' = [pc |-> "probe", at |-> now]
    /\ UNCHANGED <<db, errors>> /\ SweepUnchanged

\* Mutant of PastRows: expires_at <= ?
PastRowsLeq == {k \in DOMAIN db : TextLeq(db[k].expiresAt, sw.at)}

\* WHERE expires_at < ?
PastRows == {k \in DOMAIN db : TextLess(db[k].expiresAt, sw.at)}

SweepProbe ==
    /\ sw.pc = "probe"
    /\ sw' = IF PastRows = {} THEN IdleSweep ELSE [sw EXCEPT !.pc = "delete"]
    /\ UNCHANGED <<db, errors>> /\ SweepUnchanged

SweepDelete ==
    /\ sw.pc = "delete"
    /\ \E S \in IF SweepLimit = 0 THEN {PastRows}
                ELSE Oldest(Expiries(Restrict(db, PastRows)), SweepLimit, TextLess) :
          db' = Without(db, S)
    /\ sw' = IdleSweep
    /\ UNCHANGED errors /\ SweepUnchanged

SweepFail ==
    /\ sw.pc \in {"probe", "delete"} /\ errors < MaxErrors
    /\ sw' = IdleSweep
    /\ errors' = errors + 1
    /\ UNCHANGED db /\ SweepUnchanged

---------------------------------------------------------------------------
(* Evictor.RunOnce and evictOldest.                                        *)

EvictUnchanged == UNCHANGED <<now, puts, gets, sw, writes, restarts>>

\* RunOnce: Usage is at the limit.
EvictStart ==
    /\ ev.pc = "idle" /\ pages >= SizeLimit
    /\ ev' = [IdleEvict EXCEPT !.pc = "size"]
    /\ UNCHANGED <<db, pages, errors, promised>> /\ EvictUnchanged

\* EvictOldest returns; RunOnce vacuums if it deleted something.
Return == IF ev.deleted > 0 THEN [ev EXCEPT !.pc = "vacuum"] ELSE IdleEvict

EvictSize ==
    /\ ev.pc = "size"
    /\ ev' = IF ev.run < MaxRuns /\ pages >= SizeLimit THEN [ev EXCEPT !.pc = "count"] ELSE Return
    /\ UNCHANGED <<db, pages, errors, promised>> /\ EvictUnchanged

\* "Never fully empty the table."
BatchFor(total) == IF total <= BatchSize THEN total - 1 ELSE BatchSize

EvictCount ==
    /\ ev.pc = "count"
    /\ LET batch == BatchFor(Cardinality(DOMAIN db))
       IN  ev' = IF batch <= 0 THEN Return ELSE [ev EXCEPT !.pc = "delete", !.batch = batch]
    /\ UNCHANGED <<db, pages, errors, promised>> /\ EvictUnchanged

\* Mutant of Victims: any rows.
VictimsAny == Chunks(DOMAIN db, ev.batch)

\* SELECT key ... ORDER BY expires_at ASC LIMIT ?
Victims == Oldest(Expiries(db), ev.batch, TextLess)

\* DELETE ... WHERE key IN (SELECT ...), one statement.
EvictDelete ==
    /\ ev.pc = "delete"
    /\ \E S \in Victims :
          /\ db' = Without(db, S)
          /\ promised' = Without(promised, S)
          /\ ev' = IF S = {} THEN Return
                   ELSE [pc |-> "size", run |-> ev.run + 1, batch |-> 0,
                         deleted |-> ev.deleted + Cardinality(S)]
    /\ UNCHANGED <<pages, errors>> /\ EvictUnchanged

\* PRAGMA incremental_vacuum(batchSize)
Vacuum ==
    /\ ev.pc = "vacuum"
    /\ pages' = pages - Least(BatchSize, pages - Cardinality(DOMAIN db))
    /\ ev' = IdleEvict
    /\ UNCHANGED <<db, errors, promised>> /\ EvictUnchanged

\* A statement fails; after an error RunOnce does not vacuum, and an error of
\* the vacuum is only logged.
EvictFail ==
    /\ ev.pc # "idle" /\ errors < MaxErrors
    /\ ev' = IdleEvict
    /\ errors' = errors + 1
    /\ UNCHANGED <<db, pages, promised>> /\ EvictUnchanged

---------------------------------------------------------------------------
\* The process dies and opens the file again; there is nothing to load.
Restart ==
    /\ restarts < MaxRestarts
    /\ puts' = EmptyMap /\ gets' = EmptyMap /\ ev' = IdleEvict /\ sw' = IdleSweep
    /\ restarts' = restarts + 1
    /\ UNCHANGED <<now, db, pages, writes, errors, promised>>

Tick ==
    /\ \E s \in Steps : now + s <= MaxTime /\ now' = now + s
    /\ UNCHANGED <<db, pages, puts, gets, ev, sw, writes, errors, restarts, promised>>

Next ==
    \/ \E w \in Writers : (\E k \in Keys : PutBegin(w, k)) \/ PutExec(w) \/ PutFail(w) \/ PutFailLate(w)
    \/ \E r \in Readers : (\E k \in Keys : GetRead(r, k)) \/ GetDecide(r) \/ LazyDelete(r) \/ LazyFail(r)
    \/ SweepStart \/ SweepProbe \/ SweepDelete \/ SweepFail
    \/ EvictStart \/ EvictSize \/ EvictCount \/ EvictDelete \/ Vacuum \/ EvictFail
    \/ Restart
    \/ Tick

Spec == Init /\ [][Next]_vars

---------------------------------------------------------------------------
(* Properties.                                                             *)

\* Every acknowledged write that no Get of the key overlapped keeps its row,
\* the last one by the order of the upserts, until its text sorts before some
\* moment's or an eviction takes it.  Unlike with the memory layer, two
\* writers of one key may race.
AcknowledgedStored ==
    \A k \in DOMAIN promised :
        ~After(now, promised[k].expiresAt) /\ ~Sweepable(promised[k].expiresAt, now)
            => k \in DOMAIN db /\ db[k] = promised[k]

Stored(k) == k \in DOMAIN db /\ db[k] = promised[k]

Binding(k) == k \in DOMAIN promised /\ now < Lapse(promised[k].expiresAt)

NoPromise == [id |-> 0, mode |-> "none", lapse |-> 0, stands |-> "nowhere"]

Contract == INSTANCE CommitContract WITH
    crashes <- restarts,
    promise <- [k \in Keys |->
                   IF Binding(k)
                   THEN [id |-> promised[k].id, mode |-> "sync",
                         lapse |-> Lapse(promised[k].expiresAt),
                         stands |-> IF Stored(k) THEN "durable" ELSE "lost"]
                   ELSE NoPromise]

\* Without the memory layer the store implements the same contract, with every
\* write a sync write: a promise is durable from the answer on, through
\* sweeps, failed statements and crashes, until it lapses, an eviction takes
\* it, or a later write does.
ImplementsContract == Contract!CSpec

EvictStep == ev.pc = "delete" /\ ev' # ev

\* "Oldest-expiring rows are evicted first": an eviction never takes a row and
\* keeps one that expires in an earlier second, although it selects by text.
OldestFirst ==
    [][EvictStep =>
          \A x \in DOMAIN db \ DOMAIN db', y \in DOMAIN db' :
              Sec(db[x].expiresAt) <= Sec(db[y].expiresAt)]_vars

---------------------------------------------------------------------------
(* What the documentation says and the code does not keep.                 *)

\* spec.md, section 8.3: "GET deletes expired rows on the spot", and no others.
GetDeletesOnlyExpired ==
    [][\A r \in DOMAIN gets :
          gets[r].pc = "lazy" /\ r \notin DOMAIN gets' =>
              \A k \in DOMAIN db \ DOMAIN db' : After(now, db[k].expiresAt)]_vars
=============================================================================
