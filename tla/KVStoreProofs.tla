--------------------------- MODULE KVStoreProofs ---------------------------
(***************************************************************************)
(* Theorems about KVStore, for every value of the constants: any number of *)
(* keys, writers and readers, any sizes, limits and times.                 *)
(*                                                                         *)
(* First its types and the cache size counter; then which steps write      *)
(* what, what the commit modes promise and what may take a live entry      *)
(* away; then that the store implements CommitContract, that the eviction  *)
(* does not empty the table, and what the shutdown of Lifecycle keeps.     *)
(***************************************************************************)
EXTENDS StoreContract, Lifecycle, TimestampsTheory, FiniteSetTheorems

---------------------------------------------------------------------------
(* Maps.                                                                   *)

\* The operators that the actions apply to s.cache, kv_store and the tables
\* of calls give maps of the same kind: first, the empty map.
LEMMA EmptyMapType == ASSUME NEW K, NEW V PROVE IsMap(EmptyMap, K, V)
  BY DEF IsMap, EmptyMap

\* An upsert of a key of K with a value of V keeps a map from K to V.
LEMMA UpsertType ==
  ASSUME NEW K, NEW V, NEW m, IsMap(m, K, V), NEW k \in K, NEW v \in V
  PROVE  IsMap(Upsert(m, k, v), K, V)
  BY DEF IsMap, Upsert

\* So does a transaction of upserts.
LEMMA OverlayType ==
  ASSUME NEW K, NEW V, NEW m, IsMap(m, K, V), NEW n, IsMap(n, K, V)
  PROVE  IsMap(Overlay(m, n), K, V)
  BY DEF IsMap, Overlay

\* So does a selection of its keys.
LEMMA RestrictType ==
  ASSUME NEW K, NEW V, NEW m, IsMap(m, K, V), NEW S, S \subseteq DOMAIN m
  PROVE  IsMap(Restrict(m, S), K, V)
  BY DEF IsMap, Restrict

\* So does the deletion of keys.
LEMMA WithoutType ==
  ASSUME NEW K, NEW V, NEW m, IsMap(m, K, V), NEW S
  PROVE  IsMap(Without(m, S), K, V)
  BY RestrictType DEF Without

\* So does an assignment under a key that is there.
LEMMA UpdateType ==
  ASSUME NEW K, NEW V, NEW m, IsMap(m, K, V), NEW k \in DOMAIN m, NEW v \in V
  PROVE  IsMap([m EXCEPT ![k] = v], K, V)
  BY DEF IsMap

---------------------------------------------------------------------------
(* Records.                                                                *)

\* What a write or an entry puts into the table is a row.
LEMMA RowOfType ==
  ASSUME NEW e, e.value \in Value, e.expiresAt \in Nat
  PROVE  RowOf(e) \in Row
  BY DEF RowOf, Row

\* What a write or a row puts into memory is an entry.
LEMMA EntryOfType ==
  ASSUME NEW r, r.value \in Value, r.expiresAt \in Nat, NEW b \in BOOLEAN
  PROVE  EntryOf(r, b) \in Entry
  BY DEF EntryOf, Entry

\* An entry has a value and an expiry.
LEMMA EntryExpiry == \A e \in Entry : e.value \in Value /\ e.expiresAt \in Nat
  BY DEF Entry

\* A row has a value and an expiry.
LEMMA RowExpiry == \A r \in Row : r.value \in Value /\ r.expiresAt \in Nat
  BY DEF Row

\* The expiries that an eviction sorts by are times.
LEMMA ExpiriesType ==
  ASSUME NEW m, NEW V, IsMap(m, Keys, V), \A e \in V : e.expiresAt \in Nat
  PROVE  IsMap(Expiries(m), Keys, Nat)
  BY DEF IsMap, Expiries

\* The history that a Put call carries does not change the call.
LEMMA DisturbType ==
  ASSUME TypeOK, NEW W
  PROVE  IsMap(Disturb(W), Writers, PutCall)
<1> SUFFICES ASSUME NEW w \in DOMAIN puts
             PROVE  [puts[w] EXCEPT !.alone = @ /\ w \notin W] \in PutCall
  BY DEF TypeOK, IsMap, Disturb
<1>1. puts[w] \in PutCall
  BY DEF TypeOK, IsMap
<1>2. (puts[w].alone /\ w \notin W) \in BOOLEAN
  OBVIOUS
<1> QED  BY <1>1, <1>2 DEF PutCall

\* The states of a Flush call, given sound parts.
LEMMA FlushAtType ==
  ASSUME NEW pc \in {"idle", "read", "commit", "clear"}, NEW keys, keys \subseteq Keys,
         NEW batch, IsMap(batch, Keys, Entry), NEW chunk, chunk \subseteq DOMAIN batch
  PROVE  IsFlushCall(FlushAt(pc, keys, batch, chunk))
  BY DEF IsFlushCall, FlushAt

\* A Flush call that has returned.
LEMMA IdleFlushType == IsFlushCall(IdleFlush)
  BY EmptyMapType, FlushAtType DEF IdleFlush

\* The states of an EvictOldest call, given sound parts.
LEMMA EvictAtType ==
  ASSUME NEW pc \in {"idle", "volCheck", "volSnap", "volDelete", "volDrop",
                     "rowCheck", "rowCount", "rowSelect", "rowDelete", "rowDrop"},
         NEW run \in Nat, NEW batch \in Nat, NEW victims, IsMap(victims, Keys, Nat),
         NEW todo, todo \subseteq DOMAIN victims, NEW removed \in Nat
  PROVE  IsEvictCall(EvictAt(pc, run, batch, victims, todo, removed))
  BY DEF IsEvictCall, EvictAt

\* An EvictOldest call between two batches.
LEMMA BetweenBatchesType ==
  ASSUME NEW pc \in {"idle", "volCheck", "volSnap", "rowCheck", "rowCount"}, NEW run \in Nat
  PROVE  IsEvictCall(BetweenBatches(pc, run))
  BY EmptyMapType, EvictAtType DEF BetweenBatches

\* An EvictOldest call that has returned.
LEMMA IdleEvictType == IsEvictCall(IdleEvict)
  BY BetweenBatchesType DEF IdleEvict

---------------------------------------------------------------------------
(* Bytes.                                                                  *)

\* An entry weighs a natural number of bytes.
LEMMA entrySizeType ==
  ASSUME NEW k \in Keys, NEW e \in Entry
  PROVE  entrySize(k, e) \in Nat
<1>1. KeyLen[k] \in Nat /\ EntryOverhead \in Nat
  BY SizesAssumption
<1>2. e.value.len \in Nat
  <2>1. e.value \in Value
    BY DEF Entry
  <2>2. e.value.len \in Lens
    BY <2>1 DEF Value
  <2> QED  BY <2>2, SizesAssumption
<1> QED  BY <1>1, <1>2 DEF entrySize

\* A map over the keys has finitely many bytes.
LEMMA BytePairsFinite ==
  ASSUME NEW m, IsMap(m, Keys, Entry)
  PROVE  IsFiniteSet(BytePairs(m))
<1> DEFINE D == DOMAIN m
           P(k) == {k} \X (1..entrySize(k, m[k]))
           T == {P(k) : k \in D}
           f == [k \in D |-> P(k)]
<1>1. \A k \in D : k \in Keys /\ m[k] \in Entry
  BY DEF IsMap
<1>2. IsFiniteSet(D)
  BY SetsAssumption, FS_Subset DEF IsMap
<1>3. f \in Surjection(D, T)
  BY DEF Surjection
<1>4. IsFiniteSet(T)
  <2> HIDE DEF D, T, f
  <2> QED  BY <1>2, <1>3, FS_Surjection
<1>5. ASSUME NEW k \in D PROVE IsFiniteSet(P(k))
  <2>1. entrySize(k, m[k]) \in Nat
    BY <1>1, entrySizeType
  <2>2. IsFiniteSet(1..entrySize(k, m[k]))
    BY <2>1, FS_Interval
  <2>3. IsFiniteSet({k})
    BY FS_Singleton
  <2> QED  BY <2>2, <2>3, FS_Product
<1>6. \A x \in T : IsFiniteSet(x)
  BY <1>5
<1>7. BytePairs(m) = UNION T
  BY DEF BytePairs
<1> QED  BY <1>4, <1>6, <1>7, FS_UNION

\* The bytes of a map are a natural number.
LEMMA BytesType ==
  ASSUME NEW m, IsMap(m, Keys, Entry)
  PROVE  Bytes(m) \in Nat
  BY BytePairsFinite, FS_CardinalityType DEF Bytes

\* Splitting a map in two splits its bytes.
LEMMA BytesSplit ==
  ASSUME NEW m, IsMap(m, Keys, Entry), NEW S, S \subseteq DOMAIN m
  PROVE  Bytes(m) = Bytes(Restrict(m, S)) + Bytes(Without(m, S))
<1> DEFINE A == Restrict(m, S)
           B == Without(m, S)
<1>1. IsMap(A, Keys, Entry) /\ IsMap(B, Keys, Entry)
  BY RestrictType, WithoutType
<1>2. IsFiniteSet(BytePairs(A)) /\ IsFiniteSet(BytePairs(B))
  BY <1>1, BytePairsFinite
<1>3. /\ DOMAIN A = S /\ \A k \in S : A[k] = m[k]
      /\ DOMAIN B = DOMAIN m \ S /\ \A k \in DOMAIN m \ S : B[k] = m[k]
  BY DEF Restrict, Without
<1>4. BytePairs(m) = BytePairs(A) \cup BytePairs(B)
  <2> HIDE DEF A, B
  <2> QED  BY <1>3 DEF BytePairs
<1>5. BytePairs(A) \cap BytePairs(B) = {}
  <2> HIDE DEF A, B
  <2>1. ASSUME NEW x \in BytePairs(A) PROVE x[1] \in S
    BY <1>3 DEF BytePairs
  <2>2. ASSUME NEW x \in BytePairs(B) PROVE x[1] \notin S
    BY <1>3 DEF BytePairs
  <2> QED  BY <2>1, <2>2
<1>6. Cardinality(BytePairs(m))
        = Cardinality(BytePairs(A)) + Cardinality(BytePairs(B)) - Cardinality({})
  <2> HIDE DEF A, B
  <2> QED  BY <1>2, <1>4, <1>5, FS_Union
<1>7. Cardinality({}) = 0
  BY FS_EmptySet
<1>8. Cardinality(BytePairs(A)) \in Nat /\ Cardinality(BytePairs(B)) \in Nat
  BY <1>2, FS_CardinalityType
<1> QED  BY <1>6, <1>7, <1>8 DEF Bytes

\* A map of one entry weighs what the entry weighs.
LEMMA BytesSingle ==
  ASSUME NEW m, NEW k \in Keys, DOMAIN m = {k}, m[k] \in Entry
  PROVE  Bytes(m) = entrySize(k, m[k])
<1> DEFINE n == entrySize(k, m[k])
<1>1. n \in Nat
  BY entrySizeType
<1>2. BytePairs(m) = {k} \X (1..n)
  BY DEF BytePairs
<1>3. IsFiniteSet(1..n) /\ Cardinality(1..n) = n
  <2> HIDE DEF n
  <2> QED  BY <1>1, FS_Interval
<1>4. IsFiniteSet({k}) /\ Cardinality({k}) = 1
  BY FS_Singleton
<1>5. Cardinality({k} \X (1..n)) = Cardinality({k}) * Cardinality(1..n)
  <2> HIDE DEF n
  <2> QED  BY <1>3, <1>4, FS_Product
<1>6. Cardinality({k}) * Cardinality(1..n) = n
  <2> HIDE DEF n
  <2> QED  BY <1>1, <1>3, <1>4
<1> QED  BY <1>2, <1>5, <1>6 DEF Bytes

\* Writing an entry adds its weight and takes away that of the entry it
\* replaces.
LEMMA BytesUpsert ==
  ASSUME NEW m, IsMap(m, Keys, Entry), NEW k \in Keys, NEW e \in Entry
  PROVE  Bytes(Upsert(m, k, e))
           = Bytes(m) + entrySize(k, e)
               - (IF k \in DOMAIN m THEN entrySize(k, m[k]) ELSE 0)
<1> DEFINE u == Upsert(m, k, e)
<1>1. IsMap(u, Keys, Entry)
  BY UpsertType
<1>2. DOMAIN u = DOMAIN m \cup {k} /\ u[k] = e
  BY DEF Upsert
<1>3. Without(u, {k}) = Without(m, {k})
  BY DEF Upsert, Without, Restrict
<1>4. Bytes(Restrict(u, {k})) = entrySize(k, e)
  <2>1. DOMAIN Restrict(u, {k}) = {k} /\ Restrict(u, {k})[k] = e
    BY <1>2 DEF Restrict
  <2> QED  BY <2>1, BytesSingle
<1>5. Bytes(u) = entrySize(k, e) + Bytes(Without(m, {k}))
  <2> HIDE DEF u
  <2> QED  BY <1>1, <1>2, <1>3, <1>4, BytesSplit
<1>6. Bytes(Without(m, {k})) \in Nat /\ Bytes(m) \in Nat /\ entrySize(k, e) \in Nat
  BY BytesType, WithoutType, entrySizeType
<1>7. CASE k \in DOMAIN m
  <2>1. Bytes(Restrict(m, {k})) = entrySize(k, m[k])
    <3>1. DOMAIN Restrict(m, {k}) = {k} /\ Restrict(m, {k})[k] = m[k]
      BY DEF Restrict
    <3>2. m[k] \in Entry
      BY <1>7 DEF IsMap
    <3> QED  BY <3>1, <3>2, BytesSingle
  <2>2. Bytes(m) = entrySize(k, m[k]) + Bytes(Without(m, {k}))
    BY <1>7, <2>1, BytesSplit
  <2>3. entrySize(k, m[k]) \in Nat
    BY <1>7, entrySizeType DEF IsMap
  <2> QED  BY <1>5, <1>6, <1>7, <2>2, <2>3
<1>8. CASE k \notin DOMAIN m
  <2>1. Without(m, {k}) = m
    BY <1>8 DEF Without, Restrict, IsMap
  <2> QED  BY <1>5, <1>6, <1>8, <2>1
<1> QED  BY <1>7, <1>8

---------------------------------------------------------------------------
(* Type correctness.                                                       *)

\* An empty store is well typed.
LEMMA InitType == Init => TypeOK
  BY EmptyMapType, IdleFlushType, IdleEvictType DEF Init, TypeOK, IdleSweep, SweepCall

\* Deleting entries leaves a well-typed memory layer and byte count.
LEMMA cacheDeleteType ==
  ASSUME TypeOK, NEW S, cacheDelete(S)
  PROVE  IsMap(cache', Keys, Entry) /\ cacheBytes' \in Int
<1>1. IsMap(Restrict(cache, S \cap DOMAIN cache), Keys, Entry)
  BY RestrictType DEF TypeOK
<1> QED  BY <1>1, WithoutType, BytesType DEF cacheDelete, TypeOK

\* The steps of PutWithMode keep the types.
LEMMA PutType ==
  ASSUME TypeOK, NEW w \in Writers, Put(w) \/ PutFail(w) \/ PutFailLate(w)
  PROVE  TypeOK'
<1> USE DEF TypeOK
<1>0. ASSUME w \in DOMAIN puts
      PROVE  /\ puts[w] \in PutCall /\ puts[w].key \in Keys /\ puts[w].value \in Value
             /\ puts[w].expiresAt \in Nat /\ puts[w].alone \in BOOLEAN
             /\ RowOf(puts[w]) \in Row
  BY <1>0, RowOfType DEF IsMap, PutCall
<1>1. CASE PutExec(w)
  <2>1. IsMap(db', Keys, Row)
    BY <1>0, <1>1, UpsertType DEF PutExec
  <2>2. IsMap(puts', Writers, PutCall)
    <3>1. [puts[w] EXCEPT !.pc = "cache"] \in PutCall
      BY <1>0, <1>1 DEF PutExec, PutCall
    <3> QED  BY <1>1, <3>1, UpdateType DEF PutExec
  <2> QED  BY <1>1, <2>1, <2>2, WithoutType DEF PutExec, counters
<1>2. CASE PutFail(w)
  BY <1>2, WithoutType DEF PutFail
<1>3. CASE PutCache(w)
  <2>1. EntryOf(puts[w], puts[w].value.mode # "sync") \in Entry
    BY <1>0, <1>3, EntryOfType DEF PutCache
  <2>2. IsMap(cache', Keys, Entry)
    BY <1>0, <1>3, <2>1, UpsertType DEF PutCache, cachePut
  <2>3. cacheBytes' \in Int
    <3>1. \A k \in Keys, e \in Entry : entrySize(k, e) \in Int
      BY entrySizeType
    <3>2. \A k \in DOMAIN cache : k \in Keys /\ cache[k] \in Entry
      BY DEF IsMap
    <3> QED  BY <1>0, <1>3, <2>1, <3>1, <3>2 DEF PutCache, cachePut
  <2>4. IsMap(puts', Writers, PutCall)
    <3>1. [puts[w] EXCEPT !.pc = "mark"] \in PutCall
      BY <1>0, <1>3 DEF PutCache, PutCall
    <3> QED  BY <1>3, <3>1, UpdateType DEF PutCache
  <2> QED  BY <1>3, <2>2, <2>3, <2>4, WithoutType DEF PutCache, counters
<1>4. CASE PutMark(w)
  <2>1. dirty' \subseteq Keys
    BY <1>0, <1>4 DEF PutMark, MarkDirty
  <2>2. IsMap(promised', Keys, Promise)
    <3>1. [value |-> puts[w].value, expiresAt |-> puts[w].expiresAt,
           alone |-> puts[w].alone] \in Promise
      BY <1>0, <1>4 DEF PutMark, Promise
    <3> QED  BY <1>0, <1>4, <3>1, UpsertType DEF PutMark
  <2> QED  BY <1>4, <2>1, <2>2, WithoutType DEF PutMark, counters
<1>5. CASE PutFailLate(w)
  <2>1. IsMap(db', Keys, Row)
    BY <1>0, <1>5, UpsertType DEF PutFailLate
  <2> QED  BY <1>5, <2>1, WithoutType DEF PutFailLate
<1> QED  BY <1>1, <1>2, <1>3, <1>4, <1>5 DEF Put

\* The start of PutWithMode keeps the types.
LEMMA PutBeginType ==
  ASSUME TypeOK, NEW w \in Writers, NEW k \in Keys, NEW mode \in Modes, NEW len \in Lens,
         PutBegin(w, k, mode, len)
  PROVE  TypeOK'
<1> DEFINE W == {o \in DOMAIN puts : puts[o].key = k}
           alone == /\ \A o \in DOMAIN puts : puts[o].key # k
                    /\ mode # "async" => ~FlusherHolds(k)
                    /\ ~EvictorClaims(k, now + TTL)
           call == [pc |-> IF mode = "sync" THEN "exec" ELSE "cache", key |-> k,
                    value |-> [id |-> writes + 1, mode |-> mode, len |-> len],
                    expiresAt |-> now + TTL, alone |-> alone]
<1>1. call \in PutCall
  <2>1. alone \in BOOLEAN
    BY DEF FlusherHolds, EvictorClaims
  <2>2. [id |-> writes + 1, mode |-> mode, len |-> len] \in Value
    BY DEF Value, TypeOK
  <2>3. now + TTL \in Nat
    BY TimeAssumption DEF TypeOK
  <2> QED  BY <2>1, <2>2, <2>3 DEF PutCall
<1>2. puts' = Upsert(Disturb(W), w, call)
  BY DEF PutBegin
<1>3. IsMap(puts', Writers, PutCall)
  <2>1. IsMap(Disturb(W), Writers, PutCall)
    BY DisturbType
  <2> HIDE DEF call, W
  <2> QED  BY <1>1, <1>2, <2>1, UpsertType
<1> QED  BY <1>3 DEF TypeOK, PutBegin

\* The steps of getCached and of its lazy delete keep the types.
LEMMA GetType ==
  ASSUME TypeOK, NEW r \in Readers,
         (\E k \in Keys : GetRead(r, k)) \/ Get(r) \/ LazyFail(r)
  PROVE  TypeOK'
<1> USE DEF TypeOK
<1>1. ASSUME NEW k \in Keys, GetRead(r, k) PROVE TypeOK'
  <2>1. [pc |-> "read", key |-> k, expiresAt |-> cache[k].expiresAt] \in GetCall
    BY <1>1 DEF GetRead, GetCall, IsMap, Entry
  <2>2. IsMap(gets', Readers, GetCall)
    BY <1>1, <2>1, UpsertType DEF GetRead
  <2> QED  BY <1>1, <2>2 DEF GetRead, counters
<1>2. CASE GetReturn(r)
  BY <1>2, WithoutType DEF GetReturn, counters
<1>3. CASE GetDrop(r)
  <2>1. [gets[r] EXCEPT !.pc = "lazy"] \in GetCall
    BY <1>3 DEF GetDrop, GetCall, IsMap
  <2>2. IsMap(gets', Readers, GetCall)
    BY <1>3, <2>1, UpdateType DEF GetDrop
  <2> QED  BY <1>3, <2>2, cacheDeleteType DEF GetDrop, counters
<1>4. CASE LazyDelete(r)
  <2> DEFINE S == {k \in DOMAIN db \cap {gets[r].key} :
                      Format(db[k].expiresAt) = Format(gets[r].expiresAt)}
  <2>1. db' = Without(db, S) /\ Thin(S) /\ S \subseteq Keys
    BY <1>4 DEF LazyDelete, IsMap
  <2> HIDE DEF S
  <2>2. thinned' \subseteq Keys
    BY <2>1 DEF Thin
  <2> QED  BY <1>4, <2>1, <2>2, WithoutType DEF LazyDelete, counters
<1>5. CASE LazyFail(r)
  BY <1>5, WithoutType DEF LazyFail
<1> QED  BY <1>1, <1>2, <1>3, <1>4, <1>5 DEF Get

\* The steps of Flush keep the types.
LEMMA FlushType ==
  ASSUME TypeOK, NEW f \in Flushers, Flush(f) \/ FlushFail(f)
  PROVE  TypeOK'
<1> USE DEF TypeOK
<1>0. ASSUME NEW c, IsFlushCall(c), fl' = [fl EXCEPT ![f] = c]
      PROVE  /\ fl' = [g \in Flushers |-> fl'[g]]
             /\ \A g \in Flushers : IsFlushCall(fl'[g])
  BY <1>0
<1>1. CASE FlushTake(f)
  <2>1. IsFlushCall(FlushAt("read", dirty, EmptyMap, {}))
    BY EmptyMapType, FlushAtType
  <2> QED  BY <1>0, <1>1, <2>1, DisturbType DEF FlushTake, counters
<1>2. CASE FlushRead(f)
  <2> DEFINE batch == Restrict(cache, fl[f].keys \cap DOMAIN cache)
  <2>1. IsMap(batch, Keys, Entry)
    BY RestrictType
  <2>2. IsFlushCall(FlushAt("commit", {}, batch, {}))
    BY <2>1, FlushAtType
  <2> QED  BY <1>0, <1>2, <2>2, IdleFlushType DEF FlushRead, requests, counters
<1>3. CASE FlushCommit(f)
  <2>1. PICK chunk \in Chunks(DOMAIN fl[f].batch, FlushBatchSize) :
              /\ db' = Overlay(db, [k \in chunk |-> RowOf(fl[f].batch[k])])
              /\ fl' = [fl EXCEPT ![f] = FlushAt("clear", {}, fl[f].batch, chunk)]
    BY <1>3 DEF FlushCommit
  <2>2. chunk \subseteq DOMAIN fl[f].batch
    BY <2>1 DEF Chunks
  <2>3. IsMap(fl[f].batch, Keys, Entry)
    BY DEF IsFlushCall
  <2>4. \A k \in chunk : RowOf(fl[f].batch[k]) \in Row
    BY <2>2, <2>3, RowOfType DEF IsMap, Entry
  <2>5. IsMap([k \in chunk |-> RowOf(fl[f].batch[k])], Keys, Row)
    BY <2>2, <2>3, <2>4 DEF IsMap
  <2>6. IsMap(db', Keys, Row)
    BY <2>1, <2>5, OverlayType
  <2>7. IsFlushCall(FlushAt("clear", {}, fl[f].batch, chunk))
    BY <2>2, <2>3, FlushAtType
  <2> QED  BY <1>0, <1>3, <2>1, <2>6, <2>7 DEF FlushCommit, requests, counters
<1>4. CASE FlushFail(f)
  <2>1. dirty' \subseteq Keys
    BY <1>4 DEF FlushFail, FlushAbandon, reMarkDirty, Chunks, IsFlushCall, IsMap
  <2>2. IsMap(promised', Keys, Promise)
    BY <1>4, WithoutType DEF FlushFail, FlushAbandon
  <2> QED  BY <1>0, <1>4, <2>1, <2>2, IdleFlushType DEF FlushFail, FlushAbandon, requests
<1>5. ASSUME NEW k \in Keys, FlushClear(f, k) PROVE TypeOK'
  <2> DEFINE chunk == fl[f].chunk \ {k}
             batch == Without(fl[f].batch, {k})
             next == FlushAt(IF chunk = {} THEN "commit" ELSE "clear", {}, batch, chunk)
  <2>1. IsMap(batch, Keys, Entry) /\ chunk \subseteq DOMAIN batch
    BY WithoutType DEF IsFlushCall, Without, Restrict
  <2>2. IsFlushCall(next)
    BY <2>1, FlushAtType
  <2>3. fl' = [fl EXCEPT ![f] = IF DOMAIN batch = {} THEN IdleFlush ELSE next]
    BY <1>5 DEF FlushClear
  <2>4. IsMap(cache', Keys, Entry)
    <3>1. CASE SameEntry(k, fl[f].batch[k].expiresAt)
      <4>1. [cache[k] EXCEPT !.volatile = FALSE] \in Entry
        BY <3>1 DEF SameEntry, Entry, IsMap
      <4> QED  BY <1>5, <3>1, <4>1, UpdateType DEF FlushClear, SameEntry
    <3> QED  BY <1>5, <3>1 DEF FlushClear
  <2> HIDE DEF chunk, batch, next
  <2> QED  BY <1>0, <1>5, <2>2, <2>3, <2>4, IdleFlushType DEF FlushClear, requests, counters
<1> QED  BY <1>1, <1>2, <1>3, <1>4, <1>5 DEF Flush

\* The selection of the victims of a batch keeps the types.
LEMMA EvictClaimType ==
  ASSUME TypeOK, NEW pc \in {"volDelete", "rowDelete"},
         NEW victims, IsMap(victims, Keys, Nat), EvictClaim(pc, victims)
  PROVE  /\ IsEvictCall(ev')
         /\ IsMap(promised', Keys, Promise)
         /\ IsMap(puts', Writers, PutCall)
<1>1. ev.run \in Nat /\ ev.batch \in Nat
  BY DEF TypeOK, IsEvictCall
<1> QED  BY <1>1, EvictAtType, WithoutType, DisturbType DEF EvictClaim, TypeOK

\* The steps of EvictOldest keep the types; the LIMIT of the row batch is
\* positive because evictOldest returns before it when the batch is not.
LEMMA EvictType ==
  ASSUME TypeOK, Evict \/ EvictFail
  PROVE  TypeOK'
<1> USE DEF TypeOK, EvictUnchanged
<1>0. /\ ev.run \in Nat /\ ev.batch \in Nat /\ ev.removed \in Nat
      /\ IsMap(ev.victims, Keys, Nat) /\ ev.todo \subseteq DOMAIN ev.victims
  BY DEF IsEvictCall
<1>1. CASE EvictStart
  BY <1>1, BetweenBatchesType DEF EvictStart
<1>2. CASE EvictVolCheck
  BY <1>0, <1>2, BetweenBatchesType DEF EvictVolCheck, RowPhase
<1>3. CASE EvictVolSnap
  <2> DEFINE volatile == {k \in DOMAIN cache : cache[k].volatile}
             expiries == Expiries(Restrict(cache, volatile))
  <2>1. CASE volatile = {}
    BY <1>3, <2>1, BetweenBatchesType DEF EvictVolSnap, RowPhase
  <2>2. CASE volatile # {}
    <3>1. IsMap(expiries, Keys, Nat)
      <4>1. IsMap(Restrict(cache, volatile), Keys, Entry)
        BY RestrictType
      <4> HIDE DEF volatile
      <4> QED  BY <4>1, EntryExpiry, ExpiriesType
    <3>2. PICK S \in Oldest(expiries, BatchSize, Before) :
              EvictClaim("volDelete", Restrict(expiries, S))
      BY <1>3, <2>2 DEF EvictVolSnap
    <3>3. IsMap(Restrict(expiries, S), Keys, Nat)
      <4>1. S \subseteq DOMAIN expiries
        BY <3>2 DEF Oldest
      <4> HIDE DEF expiries
      <4> QED  BY <3>1, <4>1, RestrictType
    <3> HIDE DEF expiries
    <3> QED  BY <1>3, <3>2, <3>3, EvictClaimType DEF EvictVolSnap
  <2> QED  BY <2>1, <2>2
<1>4. ASSUME NEW k \in Keys, EvictVolDelete(k) PROVE TypeOK'
  <2>1. IsMap(puts', Writers, PutCall)
    BY <1>4, DisturbType DEF EvictVolDelete
  <2>2. IsMap(promised', Keys, Promise)
    BY <1>4, WithoutType DEF EvictVolDelete
  <2>3. IsMap(db', Keys, Row)
    BY <1>4, WithoutType DEF EvictVolDelete
  <2>4. IsEvictCall(ev')
    BY <1>0, <1>4, EvictAtType DEF EvictVolDelete
  <2> QED  BY <1>4, <2>1, <2>2, <2>3, <2>4 DEF EvictVolDelete
<1>5. CASE EvictVolDrop
  BY <1>0, <1>5, cacheDeleteType, BetweenBatchesType DEF EvictVolDrop, RowPhase
<1>6. CASE EvictRowCheck
  BY <1>0, <1>6, BetweenBatchesType, IdleEvictType DEF EvictRowCheck
<1>7. CASE EvictRowCount
  <2> DEFINE batch == BatchFor(Cardinality(DOMAIN db))
  <2>1. Cardinality(DOMAIN db) \in Nat
    BY SetsAssumption, FS_Subset, FS_CardinalityType DEF IsMap
  <2>2. batch \in Int
    BY <2>1, LimitsAssumption DEF BatchFor
  <2>3. ev' = IF batch <= 0 THEN IdleEvict
              ELSE EvictAt("rowSelect", ev.run, batch, EmptyMap, {}, 0)
    BY <1>7 DEF EvictRowCount
  <2> HIDE DEF batch
  <2>4. IsEvictCall(ev')
    <3>1. CASE batch <= 0
      BY <2>3, <3>1, IdleEvictType
    <3>2. CASE ~(batch <= 0)
      <4>1. batch \in Nat
        BY <2>2, <3>2
      <4> QED  BY <1>0, <2>3, <3>2, <4>1, EmptyMapType, EvictAtType
    <3> QED  BY <3>1, <3>2
  <2> QED  BY <1>7, <2>4 DEF EvictRowCount, requests, counters
<1>8. CASE EvictRowSelect
  <2>1. CASE DOMAIN db = {}
    BY <1>8, <2>1, IdleEvictType DEF EvictRowSelect
  <2>2. CASE DOMAIN db # {}
    <3>1. IsMap(Expiries(db), Keys, Nat)
      BY RowExpiry, ExpiriesType
    <3>2. PICK S \in Oldest(Expiries(db), ev.batch, TextLess) :
              EvictClaim("rowDelete", Restrict(Expiries(db), S))
      BY <1>8, <2>2 DEF EvictRowSelect
    <3>3. IsMap(Restrict(Expiries(db), S), Keys, Nat)
      BY <3>1, <3>2, RestrictType DEF Oldest
    <3> QED  BY <1>8, <3>2, <3>3, EvictClaimType DEF EvictRowSelect
  <2> QED  BY <2>1, <2>2
<1>9. CASE EvictRowDelete
  <2>1. PICK chunk \in Oldest(Restrict(ev.victims, ev.todo), MaxDeleteParams, TextLess) :
          /\ db' = Without(db, chunk)
          /\ ev' = EvictAt(IF ev.todo = chunk THEN "rowDrop" ELSE "rowDelete",
                           ev.run, ev.batch, ev.victims, ev.todo \ chunk,
                           ev.removed + Cardinality(chunk \cap DOMAIN db))
    BY <1>9 DEF EvictRowDelete
  <2>2. Cardinality(chunk \cap DOMAIN db) \in Nat
    BY SetsAssumption, FS_Subset, FS_CardinalityType DEF IsMap
  <2>3. IsEvictCall(ev')
    BY <1>0, <2>1, <2>2, EvictAtType
  <2> QED  BY <1>9, <2>1, <2>3, WithoutType DEF EvictRowDelete
<1>10. CASE EvictRowDrop
  BY <1>0, <1>10, cacheDeleteType, BetweenBatchesType, IdleEvictType DEF EvictRowDrop
<1>11. CASE EvictFail
  BY <1>11, IdleEvictType DEF EvictFail
<1> QED  BY <1>1, <1>2, <1>3, <1>4, <1>5, <1>6, <1>7, <1>8, <1>9, <1>10, <1>11 DEF Evict

\* The steps of DeleteExpired keep the types.
LEMMA SweepType ==
  ASSUME TypeOK, Sweep \/ SweepFail
  PROVE  TypeOK'
<1> USE DEF TypeOK, SweepUnchanged, requests, SweepCall, IdleSweep
<1>1. CASE SweepStart
  BY <1>1 DEF SweepStart
<1>2. CASE SweepPurge
  <2>1. [sw EXCEPT !.pc = "probe"] \in SweepCall
    OBVIOUS
  <2> QED  BY <1>2, <2>1, cacheDeleteType DEF SweepPurge
<1>3. CASE SweepProbe
  <2>1. [sw EXCEPT !.pc = "delete"] \in SweepCall
    OBVIOUS
  <2> QED  BY <1>3, <2>1 DEF SweepProbe
<1>4. CASE SweepDelete
  <2>1. PICK S : db' = Without(db, S) /\ Thin(S) /\ S \subseteq PastRows
    BY <1>4 DEF SweepDelete, Oldest, Expiries, Restrict
  <2>2. S \subseteq Keys
    BY <2>1 DEF PastRows, IsMap
  <2>3. thinned' \subseteq Keys
    BY <2>1, <2>2 DEF Thin
  <2> QED  BY <1>4, <2>1, <2>3, WithoutType DEF SweepDelete
<1>5. CASE SweepFail
  BY <1>5 DEF SweepFail
<1> QED  BY <1>1, <1>2, <1>3, <1>4, <1>5 DEF Sweep

\* loadCache gives a well-typed memory layer.
LEMMA LoadedType == TypeOK => IsMap(Loaded, Keys, Entry)
  BY EntryOfType DEF TypeOK, Loaded, IsMap, Row

\* A crash followed by Open keeps the types.
LEMMA RestartType == ASSUME TypeOK, Restart PROVE TypeOK'
<1>1. IsMap(promised', Keys, Promise)
  BY RestrictType DEF TypeOK, Restart, Durable
<1>2. IsMap(cache', Keys, Entry) /\ cacheBytes' \in Int
  BY LoadedType, BytesType DEF Restart
<1>3. IsMap(puts', Writers, PutCall) /\ IsMap(gets', Readers, GetCall)
  BY EmptyMapType DEF Restart
<1> QED  BY <1>1, <1>2, <1>3, IdleFlushType, IdleEvictType
         DEF Restart, TypeOK, SweepCall, IdleSweep

\* Every step keeps the types.
LEMMA NextType == ASSUME TypeOK, [Next]_vars PROVE TypeOK'
<1>1. CASE Tick
  BY <1>1, TimeAssumption DEF Tick, TypeOK, requests, counters
<1>2. CASE UNCHANGED vars
  BY <1>2 DEF vars, TypeOK
<1> QED  BY <1>1, <1>2, PutBeginType, PutType, GetType, FlushType, EvictType, SweepType,
            RestartType DEF Next

\* Every variable of the store keeps its type: in particular the batch of the
\* row eviction, which becomes the LIMIT of a statement, is never negative.
THEOREM TypeCorrect == Spec => []TypeOK
  BY InitType, NextType, PTL DEF Spec

---------------------------------------------------------------------------
(* The byte count.                                                         *)

\* delete(s.cache, key) with its subtraction keeps the byte count exact.
LEMMA cacheDeleteBytes ==
  ASSUME TypeOK, CacheBytesExact, NEW S, cacheDelete(S)
  PROVE  CacheBytesExact'
<1> DEFINE R == S \cap DOMAIN cache
<1>1. Without(cache, S) = Without(cache, R)
  BY DEF Without, Restrict
<1>2. Bytes(cache) = Bytes(Restrict(cache, R)) + Bytes(Without(cache, R))
  BY BytesSplit DEF TypeOK
<1>3. Bytes(Restrict(cache, R)) \in Nat /\ Bytes(Without(cache, R)) \in Nat
  BY RestrictType, WithoutType, BytesType DEF TypeOK
<1>4. cacheBytes' = Bytes(cache) - Bytes(Restrict(cache, R))
  BY DEF cacheDelete, CacheBytesExact
<1>5. cache' = Without(cache, R)
  BY <1>1 DEF cacheDelete
<1> QED  BY <1>2, <1>3, <1>4, <1>5 DEF CacheBytesExact

\* clearVolatile changes no size.
LEMMA clearVolatileBytes ==
  ASSUME TypeOK, CacheBytesExact, NEW k \in DOMAIN cache,
         cache' = [cache EXCEPT ![k].volatile = FALSE], UNCHANGED cacheBytes
  PROVE  CacheBytesExact'
<1>1. DOMAIN cache' = DOMAIN cache
  OBVIOUS
<1>2. \A x \in DOMAIN cache : cache[x] \in Entry
  BY DEF TypeOK, IsMap
<1>3. \A x \in DOMAIN cache : cache'[x].value = cache[x].value
  BY <1>2 DEF Entry
<1>4. \A x \in DOMAIN cache : entrySize(x, cache'[x]) = entrySize(x, cache[x])
  BY <1>3 DEF entrySize
<1>5. BytePairs(cache') = BytePairs(cache)
  BY <1>1, <1>4 DEF BytePairs
<1> QED  BY <1>5 DEF CacheBytesExact, Bytes

\* Every step keeps the byte count exact.
LEMMA CacheBytesStep ==
  ASSUME TypeOK, CacheBytesExact, [Next]_vars
  PROVE  CacheBytesExact'
<1>0. ASSUME UNCHANGED <<cache, cacheBytes>> PROVE CacheBytesExact'
  BY <1>0 DEF CacheBytesExact
<1>1. ASSUME NEW w \in Writers, PutCache(w) PROVE CacheBytesExact'
  <2> DEFINE k == puts[w].key
             e == EntryOf(puts[w], puts[w].value.mode # "sync")
  <2>1. puts[w] \in PutCall
    BY <1>1 DEF PutCache, TypeOK, IsMap
  <2>2. k \in Keys /\ puts[w].value \in Value /\ puts[w].expiresAt \in Nat
    BY <2>1 DEF PutCall
  <2>3. e \in Entry
    BY <2>2, EntryOfType
  <2>4. cachePut(k, e)
    BY <1>1 DEF PutCache
  <2> HIDE DEF k, e
  <2> QED  BY <2>2, <2>3, <2>4, BytesUpsert DEF cachePut, CacheBytesExact, TypeOK
<1>2. ASSUME NEW r \in Readers, GetDrop(r) PROVE CacheBytesExact'
  BY <1>2, cacheDeleteBytes DEF GetDrop
<1>3. ASSUME NEW f \in Flushers, NEW k \in Keys, FlushClear(f, k) PROVE CacheBytesExact'
  <2>1. CASE SameEntry(k, fl[f].batch[k].expiresAt)
    BY <1>3, <2>1, clearVolatileBytes DEF FlushClear, SameEntry
  <2>2. CASE ~SameEntry(k, fl[f].batch[k].expiresAt)
    BY <1>0, <1>3, <2>2 DEF FlushClear
  <2> QED  BY <2>1, <2>2
<1>4. CASE EvictVolDrop \/ EvictRowDrop
  BY <1>4, cacheDeleteBytes DEF EvictVolDrop, EvictRowDrop
<1>5. CASE SweepPurge
  BY <1>5, cacheDeleteBytes DEF SweepPurge
<1>6. CASE Restart
  BY <1>6 DEF Restart, CacheBytesExact
<1>7. ASSUME NEW w \in Writers,
             \/ \E k \in Keys, mode \in Modes, len \in Lens : PutBegin(w, k, mode, len)
             \/ PutExec(w) \/ PutMark(w) \/ PutFail(w) \/ PutFailLate(w)
      PROVE  CacheBytesExact'
  BY <1>0, <1>7 DEF PutBegin, PutExec, PutMark, PutFail, PutFailLate
<1>8. ASSUME NEW r \in Readers,
             (\E k \in Keys : GetRead(r, k)) \/ GetReturn(r) \/ LazyDelete(r) \/ LazyFail(r)
      PROVE  CacheBytesExact'
  BY <1>0, <1>8 DEF GetRead, GetReturn, LazyDelete, LazyFail
<1>9. ASSUME NEW f \in Flushers,
             FlushTake(f) \/ FlushRead(f) \/ FlushCommit(f) \/ FlushFail(f)
      PROVE  CacheBytesExact'
  BY <1>0, <1>9 DEF FlushTake, FlushRead, FlushCommit, FlushFail, FlushAbandon
<1>10. CASE \/ EvictStart \/ EvictVolCheck \/ EvictVolSnap
            \/ \E k \in Keys : EvictVolDelete(k)
            \/ EvictRowCheck \/ EvictRowCount \/ EvictRowSelect \/ EvictRowDelete
            \/ EvictFail
  BY <1>0, <1>10 DEF EvictStart, EvictVolCheck, EvictVolSnap, EvictVolDelete,
        EvictRowCheck, EvictRowCount, EvictRowSelect, EvictRowDelete, EvictFail
<1>11. CASE SweepStart \/ SweepProbe \/ SweepDelete \/ SweepFail \/ Tick \/ UNCHANGED vars
  BY <1>0, <1>11 DEF SweepStart, SweepProbe, SweepDelete, SweepFail, Tick, vars
<1> QED  BY <1>1, <1>2, <1>3, <1>4, <1>5, <1>6, <1>7, <1>8, <1>9, <1>10, <1>11
         DEF Next, Put, Get, Flush, Evict, Sweep

\* s.cacheBytes never drifts from the entries in memory, whatever the
\* interleaving of writers, readers, flushes, evictions and sweeps: the
\* budget that EvictOldest compares is the real one.
THEOREM CacheBytesCorrect == Spec => []CacheBytesExact
<1>1. Init => CacheBytesExact
  <2> SUFFICES ASSUME Init PROVE CacheBytesExact
    OBVIOUS
  <2>1. BytePairs(cache) = {}
    BY DEF Init, EmptyMap, BytePairs
  <2> QED  BY <2>1, FS_EmptySet DEF Init, CacheBytesExact, Bytes
<1>2. TypeOK /\ CacheBytesExact /\ [Next]_vars => CacheBytesExact'
  BY CacheBytesStep
<1> QED  BY <1>1, <1>2, TypeCorrect, PTL DEF Spec

---------------------------------------------------------------------------
(* Which steps write what.                                                 *)

\* The statements that write to the table.
LEMMA WritesDb ==
  ASSUME [Next]_vars
  PROVE  \/ UNCHANGED db
         \/ \E w \in Writers : PutExec(w) \/ PutFailLate(w)
         \/ \E r \in Readers : LazyDelete(r)
         \/ \E f \in Flushers : FlushCommit(f)
         \/ \E k \in Keys : EvictVolDelete(k)
         \/ EvictRowDelete \/ SweepDelete
<1>1. CASE \E w \in Writers :
             \/ \E k \in Keys, mode \in Modes, len \in Lens : PutBegin(w, k, mode, len)
             \/ Put(w) \/ PutFail(w) \/ PutFailLate(w)
  BY <1>1, Zenon DEF Put, PutBegin, PutCache, PutMark, PutFail
<1>2. CASE \E r \in Readers : (\E k \in Keys : GetRead(r, k)) \/ Get(r) \/ LazyFail(r)
  BY <1>2, Zenon DEF Get, GetRead, GetReturn, GetDrop, LazyFail
<1>3. CASE \E f \in Flushers : Flush(f) \/ FlushFail(f)
  BY <1>3, Zenon DEF Flush, FlushTake, FlushRead, FlushClear, FlushFail, FlushAbandon
<1>4. CASE Evict \/ EvictFail
  BY <1>4, Zenon DEF Evict, EvictStart, EvictVolCheck, EvictVolSnap, EvictVolDrop,
                     EvictRowCheck, EvictRowCount, EvictRowSelect, EvictRowDrop, EvictFail,
                     EvictUnchanged
<1>5. CASE Sweep \/ SweepFail
  BY <1>5, Zenon DEF Sweep, SweepStart, SweepPurge, SweepProbe, SweepFail, SweepUnchanged
<1>6. CASE Restart \/ Tick \/ UNCHANGED vars
  BY <1>6, Zenon DEF vars, Restart, Tick
<1> QED  BY <1>1, <1>2, <1>3, <1>4, <1>5, <1>6, Zenon DEF Next

\* The critical sections that write to s.cache.
LEMMA WritesCache ==
  ASSUME [Next]_vars
  PROVE  \/ UNCHANGED cache
         \/ \E w \in Writers : PutCache(w)
         \/ \E r \in Readers : GetDrop(r)
         \/ \E f \in Flushers : (\E k \in Keys : FlushClear(f, k))
         \/ EvictVolDrop \/ EvictRowDrop \/ SweepPurge \/ Restart
<1>1. CASE \E w \in Writers :
             \/ \E k \in Keys, mode \in Modes, len \in Lens : PutBegin(w, k, mode, len)
             \/ Put(w) \/ PutFail(w) \/ PutFailLate(w)
  BY <1>1, Zenon DEF Put, PutBegin, PutExec, PutMark, PutFail, PutFailLate
<1>2. CASE \E r \in Readers : (\E k \in Keys : GetRead(r, k)) \/ Get(r) \/ LazyFail(r)
  BY <1>2, Zenon DEF Get, GetRead, GetReturn, LazyDelete, LazyFail
<1>3. CASE \E f \in Flushers : Flush(f) \/ FlushFail(f)
  BY <1>3, Zenon DEF Flush, FlushTake, FlushRead, FlushCommit, FlushFail, FlushAbandon
<1>4. CASE Evict \/ EvictFail
  BY <1>4, Zenon DEF Evict, EvictStart, EvictVolCheck, EvictVolSnap, EvictVolDelete,
                     EvictRowCheck, EvictRowCount, EvictRowSelect, EvictRowDelete, EvictFail,
                     EvictUnchanged
<1>5. CASE Sweep \/ SweepFail
  BY <1>5, Zenon DEF Sweep, SweepStart, SweepProbe, SweepDelete, SweepFail, SweepUnchanged
<1>6. CASE Restart \/ Tick \/ UNCHANGED vars
  BY <1>6, Zenon DEF vars, Tick
<1> QED  BY <1>1, <1>2, <1>3, <1>4, <1>5, <1>6, Zenon DEF Next

\* The steps of the writes, and those that disturb a write.
LEMMA WritesPuts ==
  ASSUME [Next]_vars
  PROVE  \/ UNCHANGED puts
         \/ \E w \in Writers :
               \/ (\E k \in Keys, mode \in Modes, len \in Lens : PutBegin(w, k, mode, len))
               \/ PutExec(w) \/ PutCache(w) \/ PutMark(w) \/ PutFail(w) \/ PutFailLate(w)
         \/ \E f \in Flushers : FlushTake(f)
         \/ EvictVolSnap \/ (\E k \in Keys : EvictVolDelete(k)) \/ EvictRowSelect \/ Restart
<1>1. CASE \E w \in Writers :
             \/ \E k \in Keys, mode \in Modes, len \in Lens : PutBegin(w, k, mode, len)
             \/ Put(w) \/ PutFail(w) \/ PutFailLate(w)
  BY <1>1, Zenon DEF Put, requests
<1>2. CASE \E r \in Readers : (\E k \in Keys : GetRead(r, k)) \/ Get(r) \/ LazyFail(r)
  BY <1>2, Zenon DEF Get, GetRead, GetReturn, GetDrop, LazyDelete, LazyFail, requests
<1>3. CASE \E f \in Flushers : Flush(f) \/ FlushFail(f)
  BY <1>3, Zenon DEF Flush, FlushRead, FlushCommit, FlushClear, FlushFail, FlushAbandon,
                     requests
<1>4. CASE Evict \/ EvictFail
  BY <1>4, Zenon DEF Evict, EvictStart, EvictVolCheck, EvictVolDrop, EvictRowCheck, EvictRowCount, EvictRowDelete, EvictRowDrop, EvictFail,
                     EvictUnchanged, requests
<1>5. CASE Sweep \/ SweepFail
  BY <1>5, Zenon DEF Sweep, SweepStart, SweepPurge, SweepProbe, SweepDelete, SweepFail,
                     SweepUnchanged, requests
<1>6. CASE Restart \/ Tick \/ UNCHANGED vars
  BY <1>6, Zenon DEF vars, Tick, requests
<1> QED  BY <1>1, <1>2, <1>3, <1>4, <1>5, <1>6, Zenon DEF Next

\* The steps that make or end a promise.
LEMMA WritesPromised ==
  ASSUME [Next]_vars
  PROVE  \/ UNCHANGED promised
         \/ \E w \in Writers :
               \/ PutExec(w)
               \/ PutFailLate(w) \/ PutCache(w) \/ PutMark(w)
         \/ \E f \in Flushers : FlushFail(f)
         \/ EvictVolSnap \/ (\E k \in Keys : EvictVolDelete(k)) \/ EvictRowSelect \/ Restart
<1>1. CASE \E w \in Writers :
             \/ \E k \in Keys, mode \in Modes, len \in Lens : PutBegin(w, k, mode, len)
             \/ Put(w) \/ PutFail(w) \/ PutFailLate(w)
  BY <1>1, Zenon DEF Put, PutBegin, PutFail
<1>2. CASE \E r \in Readers : (\E k \in Keys : GetRead(r, k)) \/ Get(r) \/ LazyFail(r)
  BY <1>2, Zenon DEF Get, GetRead, GetReturn, GetDrop, LazyDelete, LazyFail
<1>3. CASE \E f \in Flushers : Flush(f) \/ FlushFail(f)
  BY <1>3, Zenon DEF Flush, FlushTake, FlushRead, FlushCommit, FlushClear
<1>4. CASE Evict \/ EvictFail
  BY <1>4, Zenon DEF Evict, EvictStart, EvictVolCheck, EvictVolDrop, EvictRowCheck, EvictRowCount, EvictRowDelete, EvictRowDrop, EvictFail,
                     EvictUnchanged
<1>5. CASE Sweep \/ SweepFail
  BY <1>5, Zenon DEF Sweep, SweepStart, SweepPurge, SweepProbe, SweepDelete, SweepFail,
                     SweepUnchanged
<1>6. CASE Restart \/ Tick \/ UNCHANGED vars
  BY <1>6, Zenon DEF vars, Tick
<1> QED  BY <1>1, <1>2, <1>3, <1>4, <1>5, <1>6, Zenon DEF Next

\* The steps of a flush.
LEMMA WritesFlush ==
  ASSUME [Next]_vars
  PROVE  \/ UNCHANGED fl
         \/ \E f \in Flushers : FlushTake(f) \/ FlushRead(f) \/ FlushCommit(f) \/ (\E k \in Keys : FlushClear(f, k)) \/ FlushFail(f)
         \/ Restart
<1>1. CASE \E w \in Writers :
             \/ \E k \in Keys, mode \in Modes, len \in Lens : PutBegin(w, k, mode, len)
             \/ Put(w) \/ PutFail(w) \/ PutFailLate(w)
  BY <1>1, Zenon DEF Put, PutBegin, PutExec, PutCache, PutMark, PutFail, PutFailLate
<1>2. CASE \E r \in Readers : (\E k \in Keys : GetRead(r, k)) \/ Get(r) \/ LazyFail(r)
  BY <1>2, Zenon DEF Get, GetRead, GetReturn, GetDrop, LazyDelete, LazyFail
<1>3. CASE \E f \in Flushers : Flush(f) \/ FlushFail(f)
  BY <1>3, Zenon DEF Flush
<1>4. CASE Evict \/ EvictFail
  BY <1>4, Zenon DEF Evict, EvictStart, EvictVolCheck, EvictVolSnap, EvictVolDelete,
                     EvictVolDrop, EvictRowCheck, EvictRowCount, EvictRowSelect,
                     EvictRowDelete, EvictRowDrop, EvictFail, EvictUnchanged
<1>5. CASE Sweep \/ SweepFail
  BY <1>5, Zenon DEF Sweep, SweepStart, SweepPurge, SweepProbe, SweepDelete, SweepFail,
                     SweepUnchanged
<1>6. CASE Restart \/ Tick \/ UNCHANGED vars
  BY <1>6, Zenon DEF vars, Tick
<1> QED  BY <1>1, <1>2, <1>3, <1>4, <1>5, <1>6, Zenon DEF Next

\* The steps that mark keys as dirty or take the marks.
LEMMA WritesDirty ==
  ASSUME [Next]_vars
  PROVE  \/ UNCHANGED dirty
         \/ \E w \in Writers : PutMark(w)
         \/ \E f \in Flushers : FlushTake(f) \/ FlushFail(f)
         \/ Restart
<1>1. CASE \E w \in Writers :
             \/ \E k \in Keys, mode \in Modes, len \in Lens : PutBegin(w, k, mode, len)
             \/ Put(w) \/ PutFail(w) \/ PutFailLate(w)
  BY <1>1, Zenon DEF Put, PutBegin, PutExec, PutCache, PutFail, PutFailLate
<1>2. CASE \E r \in Readers : (\E k \in Keys : GetRead(r, k)) \/ Get(r) \/ LazyFail(r)
  BY <1>2, Zenon DEF Get, GetRead, GetReturn, GetDrop, LazyDelete, LazyFail
<1>3. CASE \E f \in Flushers : Flush(f) \/ FlushFail(f)
  BY <1>3, Zenon DEF Flush, FlushRead, FlushCommit, FlushClear
<1>4. CASE Evict \/ EvictFail
  BY <1>4, Zenon DEF Evict, EvictStart, EvictVolCheck, EvictVolSnap, EvictVolDelete,
                     EvictVolDrop, EvictRowCheck, EvictRowCount, EvictRowSelect,
                     EvictRowDelete, EvictRowDrop, EvictFail, EvictUnchanged
<1>5. CASE Sweep \/ SweepFail
  BY <1>5, Zenon DEF Sweep, SweepStart, SweepPurge, SweepProbe, SweepDelete, SweepFail,
                     SweepUnchanged
<1>6. CASE Restart \/ Tick \/ UNCHANGED vars
  BY <1>6, Zenon DEF vars, Tick
<1> QED  BY <1>1, <1>2, <1>3, <1>4, <1>5, <1>6, Zenon DEF Next

\* The steps of the eviction.
LEMMA WritesEvict ==
  ASSUME [Next]_vars
  PROVE  \/ UNCHANGED ev
         \/ \E k \in Keys : EvictVolDelete(k)
         \/ EvictStart \/ EvictVolCheck \/ EvictVolSnap \/ EvictVolDrop
         \/ EvictRowCheck \/ EvictRowCount \/ EvictRowSelect
         \/ EvictRowDelete \/ EvictRowDrop \/ EvictFail \/ Restart
<1>1. CASE \E w \in Writers :
             \/ \E k \in Keys, mode \in Modes, len \in Lens : PutBegin(w, k, mode, len)
             \/ Put(w) \/ PutFail(w) \/ PutFailLate(w)
  BY <1>1, Zenon DEF Put, PutBegin, PutExec, PutCache, PutMark, PutFail, PutFailLate
<1>2. CASE \E r \in Readers : (\E k \in Keys : GetRead(r, k)) \/ Get(r) \/ LazyFail(r)
  BY <1>2, Zenon DEF Get, GetRead, GetReturn, GetDrop, LazyDelete, LazyFail
<1>3. CASE \E f \in Flushers : Flush(f) \/ FlushFail(f)
  BY <1>3, Zenon DEF Flush, FlushTake, FlushRead, FlushCommit, FlushClear, FlushFail,
                     FlushAbandon
<1>4. CASE Evict \/ EvictFail
  BY <1>4, Zenon DEF Evict, EvictUnchanged
<1>5. CASE Sweep \/ SweepFail
  BY <1>5, Zenon DEF Sweep, SweepStart, SweepPurge, SweepProbe, SweepDelete, SweepFail,
                     SweepUnchanged
<1>6. CASE Restart \/ Tick \/ UNCHANGED vars
  BY <1>6, Zenon DEF vars, Tick
<1> QED  BY <1>1, <1>2, <1>3, <1>4, <1>5, <1>6, Zenon DEF Next

\* The steps of the reads.
LEMMA WritesGets ==
  ASSUME [Next]_vars
  PROVE  \/ UNCHANGED gets
         \/ \E r \in Readers : (\E k \in Keys : GetRead(r, k)) \/ GetReturn(r) \/ GetDrop(r) \/ LazyDelete(r) \/ LazyFail(r)
         \/ Restart
<1>1. CASE \E w \in Writers :
             \/ \E k \in Keys, mode \in Modes, len \in Lens : PutBegin(w, k, mode, len)
             \/ Put(w) \/ PutFail(w) \/ PutFailLate(w)
  BY <1>1, Zenon DEF Put, PutBegin, PutExec, PutCache, PutMark, PutFail, PutFailLate, requests
<1>2. CASE \E r \in Readers : (\E k \in Keys : GetRead(r, k)) \/ Get(r) \/ LazyFail(r)
  BY <1>2, Zenon DEF Get, requests
<1>3. CASE \E f \in Flushers : Flush(f) \/ FlushFail(f)
  BY <1>3, Zenon DEF Flush, FlushTake, FlushRead, FlushCommit, FlushClear, FlushFail,
                     FlushAbandon, requests
<1>4. CASE Evict \/ EvictFail
  BY <1>4, Zenon DEF Evict, EvictStart, EvictVolCheck, EvictVolSnap, EvictVolDelete,
                     EvictVolDrop, EvictRowCheck, EvictRowCount, EvictRowSelect,
                     EvictRowDelete, EvictRowDrop, EvictFail, EvictUnchanged, requests
<1>5. CASE Sweep \/ SweepFail
  BY <1>5, Zenon DEF Sweep, SweepStart, SweepPurge, SweepProbe, SweepDelete, SweepFail,
                     SweepUnchanged, requests
<1>6. CASE Restart \/ Tick \/ UNCHANGED vars
  BY <1>6, Zenon DEF vars, Tick, requests
<1> QED  BY <1>1, <1>2, <1>3, <1>4, <1>5, <1>6, Zenon DEF Next

\* The steps of the sweep.
LEMMA WritesSweep ==
  ASSUME [Next]_vars
  PROVE  \/ UNCHANGED sw
         \/ SweepStart \/ SweepPurge \/ SweepProbe \/ SweepDelete
         \/ SweepFail \/ Restart
<1>1. CASE \E w \in Writers :
             \/ \E k \in Keys, mode \in Modes, len \in Lens : PutBegin(w, k, mode, len)
             \/ Put(w) \/ PutFail(w) \/ PutFailLate(w)
  BY <1>1, Zenon DEF Put, PutBegin, PutExec, PutCache, PutMark, PutFail, PutFailLate
<1>2. CASE \E r \in Readers : (\E k \in Keys : GetRead(r, k)) \/ Get(r) \/ LazyFail(r)
  BY <1>2, Zenon DEF Get, GetRead, GetReturn, GetDrop, LazyDelete, LazyFail
<1>3. CASE \E f \in Flushers : Flush(f) \/ FlushFail(f)
  BY <1>3, Zenon DEF Flush, FlushTake, FlushRead, FlushCommit, FlushClear, FlushFail,
                     FlushAbandon
<1>4. CASE Evict \/ EvictFail
  BY <1>4, Zenon DEF Evict, EvictStart, EvictVolCheck, EvictVolSnap, EvictVolDelete,
                     EvictVolDrop, EvictRowCheck, EvictRowCount, EvictRowSelect,
                     EvictRowDelete, EvictRowDrop, EvictFail, EvictUnchanged
<1>5. CASE Sweep \/ SweepFail
  BY <1>5, Zenon DEF Sweep, SweepUnchanged
<1>6. CASE Restart \/ Tick \/ UNCHANGED vars
  BY <1>6, Zenon DEF vars, Tick
<1> QED  BY <1>1, <1>2, <1>3, <1>4, <1>5, <1>6, Zenon DEF Next

\* Only the clock moves the time.
LEMMA WritesClock ==
  ASSUME [Next]_vars
  PROVE  \/ UNCHANGED now
         \/ Tick
<1>1. CASE \E w \in Writers :
             \/ \E k \in Keys, mode \in Modes, len \in Lens : PutBegin(w, k, mode, len)
             \/ Put(w) \/ PutFail(w) \/ PutFailLate(w)
  BY <1>1, Zenon DEF Put, PutBegin, PutExec, PutCache, PutMark, PutFail, PutFailLate
<1>2. CASE \E r \in Readers : (\E k \in Keys : GetRead(r, k)) \/ Get(r) \/ LazyFail(r)
  BY <1>2, Zenon DEF Get, GetRead, GetReturn, GetDrop, LazyDelete, LazyFail
<1>3. CASE \E f \in Flushers : Flush(f) \/ FlushFail(f)
  BY <1>3, Zenon DEF Flush, FlushTake, FlushRead, FlushCommit, FlushClear, FlushFail,
                     FlushAbandon
<1>4. CASE Evict \/ EvictFail
  BY <1>4, Zenon DEF Evict, EvictStart, EvictVolCheck, EvictVolSnap, EvictVolDelete,
                     EvictVolDrop, EvictRowCheck, EvictRowCount, EvictRowSelect,
                     EvictRowDelete, EvictRowDrop, EvictFail, EvictUnchanged
<1>5. CASE Sweep \/ SweepFail
  BY <1>5, Zenon DEF Sweep, SweepStart, SweepPurge, SweepProbe, SweepDelete, SweepFail,
                     SweepUnchanged
<1>6. CASE Restart \/ Tick \/ UNCHANGED vars
  BY <1>6, Zenon DEF vars, Restart
<1> QED  BY <1>1, <1>2, <1>3, <1>4, <1>5, <1>6, Zenon DEF Next

\* Only a new write takes a number.
LEMMA WritesCount ==
  ASSUME [Next]_vars
  PROVE  \/ UNCHANGED writes
         \/ \E w \in Writers : (\E k \in Keys, mode \in Modes, len \in Lens : PutBegin(w, k, mode, len))
<1>1. CASE \E w \in Writers :
             \/ \E k \in Keys, mode \in Modes, len \in Lens : PutBegin(w, k, mode, len)
             \/ Put(w) \/ PutFail(w) \/ PutFailLate(w)
  BY <1>1, Zenon DEF Put, PutExec, PutCache, PutMark, PutFail, PutFailLate, counters
<1>2. CASE \E r \in Readers : (\E k \in Keys : GetRead(r, k)) \/ Get(r) \/ LazyFail(r)
  BY <1>2, Zenon DEF Get, GetRead, GetReturn, GetDrop, LazyDelete, LazyFail, counters
<1>3. CASE \E f \in Flushers : Flush(f) \/ FlushFail(f)
  BY <1>3, Zenon DEF Flush, FlushTake, FlushRead, FlushCommit, FlushClear, FlushFail,
                     FlushAbandon, counters
<1>4. CASE Evict \/ EvictFail
  BY <1>4, Zenon DEF Evict, EvictStart, EvictVolCheck, EvictVolSnap, EvictVolDelete,
                     EvictVolDrop, EvictRowCheck, EvictRowCount, EvictRowSelect,
                     EvictRowDelete, EvictRowDrop, EvictFail, EvictUnchanged, counters
<1>5. CASE Sweep \/ SweepFail
  BY <1>5, Zenon DEF Sweep, SweepStart, SweepPurge, SweepProbe, SweepDelete, SweepFail,
                     SweepUnchanged, counters
<1>6. CASE Restart \/ Tick \/ UNCHANGED vars
  BY <1>6, Zenon DEF vars, Restart, Tick, counters
<1> QED  BY <1>1, <1>2, <1>3, <1>4, <1>5, <1>6, Zenon DEF Next

---------------------------------------------------------------------------
(* Times that were read earlier.                                           *)

\* The sweep acts on a moment that has passed, and a lazy delete on an expiry
\* that has.
ClocksAgree ==
  /\ sw.at <= now
  /\ \A r \in DOMAIN gets : gets[r].pc = "lazy" => After(now, gets[r].expiresAt)

\* The time does not go back.
LEMMA TimePasses ==
  ASSUME TypeOK, [Next]_vars
  PROVE  now' \in Nat /\ now <= now'
<1>1. CASE UNCHANGED now
  BY <1>1 DEF TypeOK
<1>2. CASE Tick
  BY <1>2, TimeAssumption DEF Tick, TypeOK
<1> QED  BY <1>1, <1>2, WritesClock

\* Every step keeps the clocks in order.
LEMMA ClocksStep ==
  ASSUME TypeOK, ClocksAgree, [Next]_vars
  PROVE  ClocksAgree'
<1>1. now \in Nat /\ now' \in Nat /\ now <= now' /\ sw.at \in Nat
  BY TimePasses DEF TypeOK, SweepCall
<1>2. sw'.at <= now'
  <2>1. CASE UNCHANGED sw
    BY <1>1, <2>1 DEF ClocksAgree
  <2>2. CASE SweepStart
    BY <1>1, <2>2 DEF SweepStart, SweepUnchanged
  <2>3. CASE SweepPurge \/ SweepProbe \/ SweepDelete \/ SweepFail
    <3>1. sw' = IdleSweep \/ sw'.at = sw.at
      BY <2>3 DEF SweepPurge, SweepProbe, SweepDelete, SweepFail, TypeOK, SweepCall
    <3> QED  BY <1>1, <3>1 DEF ClocksAgree, IdleSweep
  <2>4. CASE Restart
    BY <1>1, <2>4 DEF Restart, IdleSweep
  <2> QED  BY <2>1, <2>2, <2>3, <2>4, WritesSweep
<1>3. ASSUME NEW r \in DOMAIN gets', gets'[r].pc = "lazy"
      PROVE  After(now', gets'[r].expiresAt)
  <2>1. /\ gets'[r].expiresAt \in Nat /\ gets'[r] \in GetCall
    <3>1. IsMap(gets', Readers, GetCall)
      BY NextType DEF TypeOK
    <3> QED  BY <3>1 DEF IsMap, GetCall
  <2>2. \A x \in DOMAIN gets : gets[x] \in GetCall
    BY DEF TypeOK, IsMap
  <2>3. CASE UNCHANGED gets
    BY <1>1, <1>3, <2>1, <2>3 DEF ClocksAgree, After
  <2>4. ASSUME NEW x \in Readers, NEW k \in Keys, GetRead(x, k)
        PROVE  After(now', gets'[r].expiresAt)
    <3>1. r # x /\ r \in DOMAIN gets /\ gets'[r] = gets[r] /\ now' = now
      BY <1>3, <2>4 DEF GetRead, Upsert
    <3> QED  BY <1>3, <3>1 DEF ClocksAgree, After
  <2>5. ASSUME NEW x \in Readers, GetReturn(x) \/ LazyDelete(x) \/ LazyFail(x)
        PROVE  After(now', gets'[r].expiresAt)
    <3>1. gets' = Without(gets, {x}) /\ now' = now
      BY <2>5 DEF GetReturn, LazyDelete, LazyFail
    <3>2. r \in DOMAIN gets /\ gets'[r] = gets[r]
      BY <3>1 DEF Without, Restrict
    <3> QED  BY <1>3, <3>1, <3>2 DEF ClocksAgree, After
  <2>6. ASSUME NEW x \in Readers, GetDrop(x)
        PROVE  After(now', gets'[r].expiresAt)
    <3>1. gets' = [gets EXCEPT ![x].pc = "lazy"] /\ now' = now /\ After(now, gets[x].expiresAt)
      BY <2>6 DEF GetDrop
    <3>2. r \in DOMAIN gets /\ gets'[r].expiresAt = gets[r].expiresAt
      BY <2>2, <3>1 DEF GetCall
    <3>3. r # x => gets'[r] = gets[r]
      BY <3>1
    <3> QED  BY <1>3, <3>1, <3>2, <3>3 DEF ClocksAgree
  <2>7. CASE Restart
    BY <2>7 DEF Restart, EmptyMap
  <2> QED  BY <2>3, <2>4, <2>5, <2>6, <2>7, WritesGets
<1> QED  BY <1>2, <1>3 DEF ClocksAgree

\* The clocks are in order at all times.
LEMMA ClocksInvariant == Spec => []ClocksAgree
<1>1. Init => ClocksAgree
  BY DEF Init, ClocksAgree, IdleSweep, EmptyMap
<1>2. TypeOK /\ ClocksAgree /\ [Next]_vars => ClocksAgree'
  BY ClocksStep
<1> QED  BY <1>1, <1>2, TypeCorrect, PTL DEF Spec

---------------------------------------------------------------------------
(* What a step may do to the row and to the entry of a key.                *)

RowKept(k) ==
  (k \in DOMAIN db' <=> k \in DOMAIN db) /\ (k \in DOMAIN db => db'[k] = db[k])
RowGone(k) == k \in DOMAIN db /\ k \notin DOMAIN db'
RowPutBy(w, k) == (PutExec(w) \/ PutFailLate(w)) /\ puts[w].key = k
RowFlushedBy(f, k) ==
  /\ FlushCommit(f) /\ k \in DOMAIN fl[f].batch /\ k \in fl'[f].chunk
  /\ k \in DOMAIN db' /\ db'[k] = RowOf(fl[f].batch[k])

EntryKept(k) ==
  (k \in DOMAIN cache' <=> k \in DOMAIN cache)
    /\ (k \in DOMAIN cache => RowOf(cache'[k]) = RowOf(cache[k]))
EntryGone(k) == k \in DOMAIN cache /\ k \notin DOMAIN cache'

\* Deleting a set of keys.
LEMMA WithoutRow ==
  ASSUME NEW S, db' = Without(db, S), NEW k
  PROVE  (k \in S /\ RowGone(k)) \/ RowKept(k)
  BY DEF Without, Restrict, RowKept, RowGone

\* The purge deletes the row under k although it expires later.
Overtakes(k) == k \in Keys /\ EvictVolDelete(k) /\ Overtaken(k)

\* The row of a key stays as it is, or it is put, or flushed, or it is past its
\* expiry by the clock or by its text, or the eviction has a claim on it, or the
\* order of the texts lets the purge take it.
LEMMA RowEffect ==
  ASSUME TypeOK, ClocksAgree, [Next]_vars, NEW k
  PROVE  \/ RowKept(k)
         \/ \E w \in Writers : RowPutBy(w, k)
         \/ \E f \in Flushers : RowFlushedBy(f, k)
         \/ RowGone(k) /\ (After(now, db[k].expiresAt) \/ Sweepable(db[k].expiresAt, now))
         \/ /\ RowGone(k) /\ EvictorClaims(k, db[k].expiresAt)
            /\ ev.pc \in {"volDelete", "rowDelete"} /\ k \in DOMAIN ev.victims
         \/ RowGone(k) /\ Overtakes(k)
<1>0. \A x \in DOMAIN db : db[x].expiresAt \in Nat
  BY DEF TypeOK, IsMap, Row
<1>1. CASE UNCHANGED db
  BY <1>1 DEF RowKept
<1>2. ASSUME NEW w \in Writers, PutExec(w) \/ PutFailLate(w)
      PROVE  RowKept(k) \/ RowPutBy(w, k)
  <2>1. db' = Upsert(db, puts[w].key, RowOf(puts[w]))
    BY <1>2 DEF PutExec, PutFailLate
  <2> QED  BY <1>2, <2>1 DEF Upsert, RowKept, RowPutBy
<1>3. ASSUME NEW r \in Readers, LazyDelete(r)
      PROVE  RowKept(k) \/ (RowGone(k) /\ After(now, db[k].expiresAt))
  <2> DEFINE S == {x \in DOMAIN db \cap {gets[r].key} :
                      Format(db[x].expiresAt) = Format(gets[r].expiresAt)}
  <2>1. db' = Without(db, S)
    BY <1>3 DEF LazyDelete
  <2>2. gets[r].expiresAt \in Nat /\ After(now, gets[r].expiresAt)
    BY <1>3 DEF LazyDelete, TypeOK, IsMap, GetCall, ClocksAgree
  <2>3. k \in S => db[k].expiresAt = gets[r].expiresAt
    BY <1>0, <2>2, FormatInjective
  <2> HIDE DEF S
  <2> QED  BY <2>1, <2>2, <2>3, WithoutRow
<1>4. ASSUME NEW f \in Flushers, FlushCommit(f)
      PROVE  RowKept(k) \/ RowFlushedBy(f, k)
  <2>1. PICK chunk \in Chunks(DOMAIN fl[f].batch, FlushBatchSize) :
            /\ db' = Overlay(db, [x \in chunk |-> RowOf(fl[f].batch[x])])
            /\ fl' = [fl EXCEPT ![f] = FlushAt("clear", {}, fl[f].batch, chunk)]
    BY <1>4 DEF FlushCommit
  <2>2. chunk \subseteq DOMAIN fl[f].batch
    BY DEF Chunks
  <2>3. fl'[f].chunk = chunk
    BY <2>1 DEF TypeOK, FlushAt
  <2>4. k \in chunk => k \in DOMAIN db' /\ db'[k] = RowOf(fl[f].batch[k])
    BY <2>1 DEF Overlay
  <2>5. k \notin chunk => RowKept(k)
    BY <2>1 DEF Overlay, RowKept
  <2> QED  BY <1>4, <2>2, <2>3, <2>4, <2>5 DEF RowFlushedBy
<1>5. ASSUME NEW x \in Keys, EvictVolDelete(x)
      PROVE  \/ RowKept(k)
             \/ /\ RowGone(k) /\ EvictorClaims(k, db[k].expiresAt)
                /\ ev.pc \in {"volDelete", "rowDelete"} /\ k \in DOMAIN ev.victims
             \/ RowGone(k) /\ Overtakes(k)
  <2>1. db' = Without(db, {y \in {x} : Shadow(y)}) /\ ev.pc = "volDelete" /\ x \in ev.todo
    BY <1>5 DEF EvictVolDelete
  <2>2. x \in DOMAIN ev.victims /\ ev.victims[x] \in Nat
    BY <2>1 DEF TypeOK, IsEvictCall, IsMap
  <2>3. CASE k = x /\ Shadow(k) /\ RowGone(k)
    <3>1. k \in DOMAIN db /\ db[k].expiresAt \in Nat
      BY <1>0, <2>3 DEF Shadow
    <3>2. CASE db[k].expiresAt <= ev.victims[k]
      BY <2>1, <2>2, <2>3, <3>2 DEF EvictorClaims
    <3>3. CASE db[k].expiresAt > ev.victims[k]
      BY <1>5, <2>3, <3>3 DEF Overtakes, Overtaken, Shadow
    <3> QED  BY <2>2, <2>3, <3>1, <3>2, <3>3
  <2> QED  BY <2>1, <2>3, WithoutRow
<1>6. ASSUME EvictRowDelete
      PROVE  \/ RowKept(k)
             \/ /\ RowGone(k) /\ EvictorClaims(k, db[k].expiresAt)
                /\ ev.pc \in {"volDelete", "rowDelete"} /\ k \in DOMAIN ev.victims
  <2>1. PICK chunk : db' = Without(db, chunk) /\ chunk \subseteq DOMAIN Restrict(ev.victims, ev.todo)
    BY <1>6 DEF EvictRowDelete, Oldest
  <2>2. chunk \subseteq DOMAIN ev.victims /\ ev.pc = "rowDelete"
    BY <1>6, <2>1 DEF EvictRowDelete, TypeOK, IsEvictCall, Restrict
  <2>3. CASE k \in chunk /\ RowGone(k)
    BY <2>2, <2>3 DEF EvictorClaims
  <2> QED  BY <2>1, <2>3, WithoutRow
<1>7. ASSUME SweepDelete
      PROVE  RowKept(k) \/ (RowGone(k) /\ Sweepable(db[k].expiresAt, now))
  <2>1. PICK S : db' = Without(db, S) /\ S \subseteq PastRows
    BY <1>7 DEF SweepDelete, Oldest, Expiries, Restrict
  <2>2. k \in S => TextLess(db[k].expiresAt, sw.at) /\ k \in DOMAIN db
    BY <2>1 DEF PastRows
  <2>3. sw.at \in Nat /\ now \in Nat /\ sw.at <= now
    BY DEF TypeOK, SweepCall, ClocksAgree
  <2>4. k \in S => Sweepable(db[k].expiresAt, now)
    BY <1>0, <2>2, <2>3, SweepIsSweepable
  <2> QED  BY <2>1, <2>4, WithoutRow
<1> QED  BY <1>1, <1>2, <1>3, <1>4, <1>5, <1>6, <1>7, WritesDb

\* Deleting a set of keys from memory.
LEMMA cacheDeleteEntry ==
  ASSUME NEW S, cacheDelete(S), NEW k
  PROVE  (k \in S /\ EntryGone(k)) \/ EntryKept(k)
  BY DEF cacheDelete, Without, Restrict, EntryKept, EntryGone

\* The entry of a key keeps its value and expiry, or it is put, or it is past
\* its expiry, or the eviction has a claim on it, or the process restarts.
LEMMA EntryEffect ==
  ASSUME TypeOK, ClocksAgree, [Next]_vars, NEW k
  PROVE  \/ EntryKept(k)
         \/ \E w \in Writers : PutCache(w) /\ puts[w].key = k
         \/ EntryGone(k) /\ After(now, cache[k].expiresAt)
         \/ /\ EntryGone(k) /\ EvictorClaims(k, cache[k].expiresAt)
            /\ ev.pc \in {"volDrop", "rowDrop"} /\ k \in DOMAIN ev.victims
         \/ Restart
<1>0. \A x \in DOMAIN cache : cache[x] \in Entry /\ cache[x].expiresAt \in Nat
  BY DEF TypeOK, IsMap, Entry
<1>1. CASE UNCHANGED cache
  BY <1>1 DEF EntryKept
<1>2. ASSUME NEW w \in Writers, PutCache(w)
      PROVE  EntryKept(k) \/ puts[w].key = k
  BY <1>2 DEF PutCache, cachePut, Upsert, EntryKept
<1>3. ASSUME NEW r \in Readers, GetDrop(r)
      PROVE  EntryKept(k) \/ (EntryGone(k) /\ After(now, cache[k].expiresAt))
  <2> DEFINE S == {x \in {gets[r].key} : SameEntry(x, gets[r].expiresAt)}
  <2>1. cacheDelete(S) /\ After(now, gets[r].expiresAt)
    BY <1>3 DEF GetDrop
  <2>2. k \in S => cache[k].expiresAt = gets[r].expiresAt
    BY DEF SameEntry
  <2> HIDE DEF S
  <2> QED  BY <2>1, <2>2, cacheDeleteEntry
<1>4. ASSUME NEW f \in Flushers, NEW x \in Keys, FlushClear(f, x)
      PROVE  EntryKept(k)
  <2>1. CASE SameEntry(x, fl[f].batch[x].expiresAt)
    <3>1. x \in DOMAIN cache /\ cache' = [cache EXCEPT ![x].volatile = FALSE]
      BY <1>4, <2>1 DEF FlushClear, SameEntry
    <3> QED  BY <1>0, <3>1 DEF EntryKept, RowOf, Entry
  <2>2. CASE ~SameEntry(x, fl[f].batch[x].expiresAt)
    BY <1>4, <2>2 DEF FlushClear, EntryKept
  <2> QED  BY <2>1, <2>2
<1>5. ASSUME EvictVolDrop
      PROVE  \/ EntryKept(k)
             \/ /\ EntryGone(k) /\ EvictorClaims(k, cache[k].expiresAt)
                /\ ev.pc \in {"volDrop", "rowDrop"} /\ k \in DOMAIN ev.victims
  <2> DEFINE S == {x \in DOMAIN ev.victims : StillVictim(x)}
  <2>1. cacheDelete(S) /\ ev.pc = "volDrop"
    BY <1>5 DEF EvictVolDrop
  <2>2. k \in S => k \in DOMAIN ev.victims /\ EvictorClaims(k, cache[k].expiresAt)
    BY DEF StillVictim, SameEntry, EvictorClaims
  <2> HIDE DEF S
  <2> QED  BY <2>1, <2>2, cacheDeleteEntry
<1>6. ASSUME EvictRowDrop
      PROVE  \/ EntryKept(k)
             \/ /\ EntryGone(k) /\ EvictorClaims(k, cache[k].expiresAt)
                /\ ev.pc \in {"volDrop", "rowDrop"} /\ k \in DOMAIN ev.victims
  <2>1. cacheDelete(DOMAIN ev.victims) /\ ev.pc = "rowDrop"
    BY <1>6 DEF EvictRowDrop
  <2> QED  BY <2>1, cacheDeleteEntry DEF EvictorClaims
<1>7. ASSUME SweepPurge
      PROVE  EntryKept(k) \/ (EntryGone(k) /\ After(now, cache[k].expiresAt))
  <2>1. cacheDelete(Expired(cache, sw.at))
    BY <1>7 DEF SweepPurge
  <2>2. sw.at \in Nat /\ now \in Nat /\ sw.at <= now
    BY DEF TypeOK, SweepCall, ClocksAgree
  <2>3. k \in Expired(cache, sw.at) => After(now, cache[k].expiresAt)
    BY <1>0, <2>2 DEF Expired, After
  <2> QED  BY <2>1, <2>3, cacheDeleteEntry
<1> QED  BY <1>1, <1>2, <1>3, <1>4, <1>5, <1>6, <1>7, WritesCache

\* The step that LiveEntriesLeaveByEviction allows.
EntriesLeave ==
  \A k \in DOMAIN cache \ DOMAIN cache' :
     \/ ~Unexpired(cache[k])
     \/ ev.pc \in {"volDrop", "rowDrop"} /\ k \in DOMAIN ev.victims
     \/ restarts' # restarts

\* And the one that LiveRowsLeaveByEviction allows.
RowsLeave ==
  \A k \in DOMAIN db \ DOMAIN db' :
     \/ ~Unexpired(db[k]) \/ Sweepable(db[k].expiresAt, now)
     \/ ev.pc \in {"volDelete", "rowDelete"} /\ k \in DOMAIN ev.victims

\* A live entry leaves memory only by an eviction that selected its key or with
\* the process: no Get and no sweep acts on an entry that replaced the one it
\* looked at.
THEOREM LiveEntriesStay == Spec => LiveEntriesLeaveByEviction
<1>1. TypeOK /\ ClocksAgree /\ [Next]_vars => EntriesLeave
  <2> SUFFICES ASSUME TypeOK, ClocksAgree, [Next]_vars, NEW k \in DOMAIN cache \ DOMAIN cache'
               PROVE  \/ ~Unexpired(cache[k])
                      \/ ev.pc \in {"volDrop", "rowDrop"} /\ k \in DOMAIN ev.victims
                      \/ restarts' # restarts
    BY DEF EntriesLeave
  <2>1. ~EntryKept(k)
    BY DEF EntryKept
  <2>2. ASSUME NEW w \in Writers, PutCache(w), puts[w].key = k
        PROVE  FALSE
    BY <2>2 DEF PutCache, cachePut, Upsert
  <2>3. Restart => restarts' # restarts
    BY DEF Restart, TypeOK
  <2> QED  BY <2>1, <2>2, <2>3, EntryEffect DEF Unexpired
<1>2. TypeOK /\ ClocksAgree /\ [Next]_vars => [EntriesLeave]_vars
  BY <1>1
<1> QED  BY <1>2, TypeCorrect, ClocksInvariant, PTL DEF Spec, LiveEntriesLeaveByEviction, EntriesLeave

\* A row leaves the table before its expiry, or before its text is past, only by
\* an eviction that selected its key: the lazy delete and the sweep spare a row
\* that was written after they looked.
THEOREM LiveRowsStay == Spec => LiveRowsLeaveByEviction
<1>1. TypeOK /\ ClocksAgree /\ [Next]_vars => RowsLeave
  <2> SUFFICES ASSUME TypeOK, ClocksAgree, [Next]_vars, NEW k \in DOMAIN db \ DOMAIN db'
               PROVE  \/ ~Unexpired(db[k]) \/ Sweepable(db[k].expiresAt, now)
                      \/ ev.pc \in {"volDelete", "rowDelete"} /\ k \in DOMAIN ev.victims
    BY DEF RowsLeave
  <2>1. ~RowKept(k)
    BY DEF RowKept
  <2>2. ASSUME NEW w \in Writers, RowPutBy(w, k)
        PROVE  FALSE
    BY <2>2 DEF RowPutBy, PutExec, PutFailLate, Upsert
  <2>3. ASSUME NEW f \in Flushers, RowFlushedBy(f, k)
        PROVE  FALSE
    BY <2>3 DEF RowFlushedBy
  <2>4. Overtakes(k) => ev.pc = "volDelete" /\ k \in DOMAIN ev.victims
    BY DEF Overtakes, EvictVolDelete, TypeOK, IsEvictCall
  <2> QED  BY <2>1, <2>2, <2>3, <2>4, RowEffect DEF Unexpired
<1>2. TypeOK /\ ClocksAgree /\ [Next]_vars => [RowsLeave]_vars
  BY <1>1
<1> QED  BY <1>2, TypeCorrect, ClocksInvariant, PTL DEF Spec, LiveRowsLeaveByEviction, RowsLeave

---------------------------------------------------------------------------
(* What a step may do to the writes, the promises and the claims on a key. *)

\* The eviction e will remove what is under k and expires at exp.
ClaimedIn(e, k, exp) ==
  /\ k \in DOMAIN e.victims
  /\ \/ e.pc \in {"rowDelete", "rowDrop"}
     \/ exp = e.victims[k]
     \/ k \in e.todo /\ exp <= e.victims[k]

\* Some flush of F has the key.
HeldIn(F, k) == \E f \in Flushers : k \in F[f].keys \cup DOMAIN F[f].batch

\* The call goes on as the same write.
SameCall(w) ==
  /\ w \in DOMAIN puts
  /\ puts'[w].key = puts[w].key /\ puts'[w].value = puts[w].value
  /\ puts'[w].expiresAt = puts[w].expiresAt
  /\ puts'[w].alone => puts[w].alone
  /\ \/ puts'[w].pc = puts[w].pc
     \/ PutExec(w) /\ puts'[w].pc = "cache"
     \/ PutCache(w) /\ puts'[w].pc = "mark"

\* A call is disturbed and nothing else of it changes.
LEMMA DisturbCall ==
  ASSUME TypeOK, NEW W, NEW w \in DOMAIN puts
  PROVE  /\ w \in DOMAIN Disturb(W)
         /\ Disturb(W)[w].key = puts[w].key /\ Disturb(W)[w].value = puts[w].value
         /\ Disturb(W)[w].expiresAt = puts[w].expiresAt /\ Disturb(W)[w].pc = puts[w].pc
         /\ Disturb(W)[w].alone => puts[w].alone /\ w \notin W
<1>1. puts[w] \in PutCall
  BY DEF TypeOK, IsMap
<1> QED  BY <1>1 DEF Disturb, PutCall

\* A write in progress has just begun, or is one that was there before.
LEMMA PutsEffect ==
  ASSUME TypeOK, [Next]_vars, NEW w \in DOMAIN puts'
  PROVE  \/ \E k \in Keys, mode \in Modes, len \in Lens : PutBegin(w, k, mode, len)
         \/ SameCall(w)
<1>0. \A o \in DOMAIN puts : puts[o] \in PutCall
  BY DEF TypeOK, IsMap
<1>1. CASE UNCHANGED puts
  BY <1>1 DEF SameCall
<1>2. ASSUME NEW o \in Writers, NEW k \in Keys, NEW mode \in Modes, NEW len \in Lens,
             PutBegin(o, k, mode, len), o # w
      PROVE  SameCall(w)
  <2>1. PICK W, call : puts' = Upsert(Disturb(W), o, call)
    BY <1>2 DEF PutBegin
  <2>2. w \in DOMAIN puts /\ puts'[w] = Disturb(W)[w]
    BY <1>2, <2>1 DEF Upsert, Disturb
  <2> QED  BY <2>2, DisturbCall DEF SameCall
<1>3. ASSUME NEW o \in Writers, PutExec(o) \/ PutCache(o)
      PROVE  SameCall(w)
  <2>1. CASE o = w
    BY <1>0, <1>3, <2>1 DEF PutExec, PutCache, SameCall, PutCall
  <2>2. CASE o # w
    BY <1>3, <2>2 DEF PutExec, PutCache, SameCall
  <2> QED  BY <2>1, <2>2
<1>4. ASSUME NEW o \in Writers, PutMark(o) \/ PutFail(o) \/ PutFailLate(o)
      PROVE  SameCall(w)
  <2>1. puts' = Without(puts, {o})
    BY <1>4 DEF PutMark, PutFail, PutFailLate
  <2> QED  BY <2>1 DEF Without, Restrict, SameCall
<1>5. ASSUME NEW W, puts' = Disturb(W)
      PROVE  SameCall(w)
  <2>1. w \in DOMAIN puts
    BY <1>5 DEF Disturb
  <2> QED  BY <1>5, <2>1, DisturbCall DEF SameCall
<1>6. CASE EvictVolSnap \/ EvictRowSelect
  BY <1>1, <1>5, <1>6 DEF EvictVolSnap, EvictRowSelect, EvictClaim
<1>9. CASE \E x \in Keys : EvictVolDelete(x)
  BY <1>5, <1>9 DEF EvictVolDelete
<1>7. CASE \E f \in Flushers : FlushTake(f)
  BY <1>5, <1>7 DEF FlushTake
<1>8. CASE Restart
  BY <1>8 DEF Restart, EmptyMap
<1> QED  BY <1>1, <1>2, <1>3, <1>4, <1>6, <1>7, <1>8, <1>9, WritesPuts

\* A promise is one that was there before, or that of a write that returns.
LEMMA PromisesEffect ==
  ASSUME TypeOK, [Next]_vars, NEW k \in DOMAIN promised'
  PROVE  \/ k \in DOMAIN promised /\ promised'[k] = promised[k]
         \/ \E w \in Writers :
               /\ PutMark(w) /\ puts[w].key = k
               /\ promised'[k] = [value |-> puts[w].value, expiresAt |-> puts[w].expiresAt,
                                  alone |-> puts[w].alone]
<1>1. ASSUME NEW S, promised' = Without(promised, S)
      PROVE  k \in DOMAIN promised /\ promised'[k] = promised[k]
  BY <1>1 DEF Without, Restrict
<1>2. CASE UNCHANGED promised
  BY <1>2
<1>3. CASE \E w \in Writers : PutExec(w) \/ PutCache(w) \/ PutFailLate(w)
  BY <1>1, <1>3 DEF PutExec, PutCache, PutFailLate
<1>4. ASSUME NEW w \in Writers, PutMark(w)
      PROVE  \/ k \in DOMAIN promised /\ promised'[k] = promised[k]
             \/ /\ puts[w].key = k
                /\ promised'[k] = [value |-> puts[w].value, expiresAt |-> puts[w].expiresAt,
                                   alone |-> puts[w].alone]
  BY <1>4 DEF PutMark, Upsert
<1>5. CASE \E f \in Flushers : FlushFail(f)
  BY <1>1, <1>5 DEF FlushFail, FlushAbandon
<1>6. CASE EvictVolSnap \/ EvictRowSelect
  BY <1>1, <1>2, <1>6 DEF EvictVolSnap, EvictRowSelect, EvictClaim
<1>7. CASE Restart
  BY <1>7 DEF Restart, Restrict, Durable
<1>8. CASE \E x \in Keys : EvictVolDelete(x)
  BY <1>1, <1>8 DEF EvictVolDelete
<1> QED  BY <1>2, <1>3, <1>4, <1>5, <1>6, <1>7, <1>8, WritesPromised

\* The eviction has a new claim only by selecting the key.
LEMMA ClaimsEffect ==
  ASSUME TypeOK, [Next]_vars, NEW k, NEW exp \in Nat, ClaimedIn(ev', k, exp)
  PROVE  \/ ClaimedIn(ev, k, exp)
         \/ \E pc, victims :
               /\ EvictClaim(pc, victims) /\ k \in DOMAIN victims
               /\ pc = "volDelete" => exp <= victims[k]
<1>1. ASSUME NEW pc, NEW run, NEW batch, ev' = EvictAt(pc, run, batch, EmptyMap, {}, 0)
      PROVE  FALSE
  BY <1>1 DEF ClaimedIn, EvictAt, EmptyMap
<1>2. CASE UNCHANGED ev
  BY <1>2
<1>3. CASE EvictStart \/ EvictVolCheck \/ EvictVolDrop
  BY <1>1, <1>3 DEF EvictStart, EvictVolCheck, EvictVolDrop, RowPhase, BetweenBatches
<1>4. CASE EvictRowCheck \/ EvictRowCount \/ EvictRowDrop \/ EvictFail
  BY <1>1, <1>4 DEF EvictRowCheck, EvictRowCount, EvictRowDrop, EvictFail, IdleEvict, BetweenBatches
<1>5. CASE Restart
  BY <1>1, <1>5 DEF Restart, IdleEvict, BetweenBatches
<1>6. ASSUME NEW x \in Keys, EvictVolDelete(x)
      PROVE  ClaimedIn(ev, k, exp)
  BY <1>6 DEF EvictVolDelete, ClaimedIn, EvictAt
<1>7. ASSUME EvictRowDelete
      PROVE  ClaimedIn(ev, k, exp)
  BY <1>7 DEF EvictRowDelete, ClaimedIn, EvictAt
<1>8. ASSUME NEW pc \in {"volDelete", "rowDelete"}, NEW victims, EvictClaim(pc, victims)
      PROVE  \E p, v :
               /\ EvictClaim(p, v) /\ k \in DOMAIN v
               /\ p = "volDelete" => exp <= v[k]
  <2>1. k \in DOMAIN victims
    BY <1>8 DEF EvictClaim, EvictAt, ClaimedIn
  <2>2. pc = "volDelete" => exp = victims[k] \/ exp <= victims[k]
    BY <1>8 DEF EvictClaim, EvictAt, ClaimedIn
  <2>3. pc = "volDelete" => exp <= victims[k]
    BY <2>2
  <2> QED  BY <1>8, <2>1, <2>3
<1>9. CASE EvictVolSnap
  BY <1>1, <1>8, <1>9 DEF EvictVolSnap, RowPhase, BetweenBatches
<1>10. CASE EvictRowSelect
  BY <1>1, <1>8, <1>10 DEF EvictRowSelect, IdleEvict, BetweenBatches
<1> QED  BY <1>2, <1>3, <1>4, <1>5, <1>6, <1>7, <1>9, <1>10, WritesEvict

\* A flush has a new key only by taking it.
LEMMA HoldsEffect ==
  ASSUME TypeOK, [Next]_vars, NEW k, HeldIn(fl', k)
  PROVE  HeldIn(fl, k) \/ \E f \in Flushers : FlushTake(f) /\ k \in dirty
<1>0. \A g \in Flushers : IsFlushCall(fl[g])
  BY DEF TypeOK
<1>1. PICK g \in Flushers : k \in fl'[g].keys \cup DOMAIN fl'[g].batch
  BY DEF HeldIn
<1>2. CASE UNCHANGED fl
  BY <1>2
<1>3. ASSUME NEW f \in Flushers, NEW call, fl' = [fl EXCEPT ![f] = call],
             call.keys \cup DOMAIN call.batch \subseteq fl[f].keys \cup DOMAIN fl[f].batch
      PROVE  HeldIn(fl, k)
  <2>1. CASE g = f
    <3>1. fl'[g] = call
      BY <1>3, <2>1 DEF TypeOK
    <3> QED  BY <1>1, <1>3, <2>1, <3>1 DEF HeldIn
  <2>2. CASE g # f
    BY <1>1, <1>3, <2>2 DEF HeldIn
  <2> QED  BY <2>1, <2>2
<1>4. IdleFlush.keys = {} /\ DOMAIN IdleFlush.batch = {}
  BY DEF IdleFlush, FlushAt, EmptyMap
<1>5. ASSUME NEW f \in Flushers, FlushTake(f)
      PROVE  HeldIn(fl, k) \/ k \in dirty
  <2>1. fl' = [fl EXCEPT ![f] = FlushAt("read", dirty, EmptyMap, {})]
    BY <1>5 DEF FlushTake
  <2>2. CASE g = f
    BY <1>1, <2>1, <2>2 DEF TypeOK, FlushAt, EmptyMap
  <2>3. CASE g # f
    BY <1>1, <2>1, <2>3 DEF HeldIn
  <2> QED  BY <2>2, <2>3
<1>6. ASSUME NEW f \in Flushers, FlushRead(f)
      PROVE  HeldIn(fl, k)
  <2> DEFINE batch == Restrict(cache, fl[f].keys \cap DOMAIN cache)
             call == IF DOMAIN batch = {} THEN IdleFlush ELSE FlushAt("commit", {}, batch, {})
  <2>1. fl' = [fl EXCEPT ![f] = call]
    BY <1>6 DEF FlushRead
  <2>2. call.keys \cup DOMAIN call.batch \subseteq fl[f].keys
    BY <1>4 DEF FlushAt, Restrict
  <2> HIDE DEF call
  <2> QED  BY <1>3, <2>1, <2>2
<1>7. ASSUME NEW f \in Flushers, FlushCommit(f)
      PROVE  HeldIn(fl, k)
  <2>1. PICK chunk : fl' = [fl EXCEPT ![f] = FlushAt("clear", {}, fl[f].batch, chunk)]
    BY <1>7 DEF FlushCommit
  <2>2. /\ FlushAt("clear", {}, fl[f].batch, chunk).keys = {}
        /\ FlushAt("clear", {}, fl[f].batch, chunk).batch = fl[f].batch
    BY DEF FlushAt
  <2> QED  BY <1>3, <2>1, <2>2
<1>8. ASSUME NEW f \in Flushers, NEW x \in Keys, FlushClear(f, x)
      PROVE  HeldIn(fl, k)
  <2> DEFINE chunk == fl[f].chunk \ {x}
             batch == Without(fl[f].batch, {x})
             call == IF DOMAIN batch = {} THEN IdleFlush
                     ELSE FlushAt(IF chunk = {} THEN "commit" ELSE "clear", {}, batch, chunk)
  <2>1. fl' = [fl EXCEPT ![f] = call]
    BY <1>8 DEF FlushClear
  <2>2. call.keys \cup DOMAIN call.batch \subseteq DOMAIN fl[f].batch
    BY <1>4 DEF FlushAt, Without, Restrict
  <2> HIDE DEF call
  <2> QED  BY <1>3, <2>1, <2>2
<1>9. ASSUME NEW f \in Flushers, FlushFail(f)
      PROVE  HeldIn(fl, k)
  BY <1>3, <1>4, <1>9 DEF FlushFail, FlushAbandon
<1>10. CASE Restart
  BY <1>1, <1>4, <1>10 DEF Restart
<1> QED  BY <1>2, <1>5, <1>6, <1>7, <1>8, <1>9, <1>10, WritesFlush

\* A key becomes dirty by a write that returns or by a flush that fails on it.
LEMMA DirtyEffect ==
  ASSUME TypeOK, [Next]_vars, NEW k \in dirty'
  PROVE  \/ k \in dirty
         \/ \E w \in Writers : PutMark(w) /\ puts[w].key = k
         \/ HeldIn(fl, k)
<1>1. ASSUME NEW w \in Writers, PutMark(w)
      PROVE  k \in dirty \/ puts[w].key = k
  BY <1>1 DEF PutMark, MarkDirty
<1>2. ASSUME NEW f \in Flushers, FlushFail(f)
      PROVE  k \in dirty \/ HeldIn(fl, k)
  BY <1>2 DEF FlushFail, FlushAbandon, reMarkDirty, Chunks, HeldIn
<1> QED  BY <1>1, <1>2, WritesDirty DEF FlushTake, Restart

\* The batch of a flush holds what it held, or what it reads from memory.
LEMMA BatchEffect ==
  ASSUME TypeOK, [Next]_vars, NEW f \in Flushers, NEW k \in DOMAIN fl'[f].batch
  PROVE  \/ k \in DOMAIN fl[f].batch /\ fl'[f].batch[k] = fl[f].batch[k]
         \/ /\ FlushRead(f) /\ k \in fl[f].keys \cap DOMAIN cache
            /\ fl'[f].batch[k] = cache[k]
<1>1. CASE UNCHANGED fl
  BY <1>1
<1>2. DOMAIN IdleFlush.batch = {}
  BY DEF IdleFlush, FlushAt, EmptyMap
<1>3. CASE Restart
  BY <1>2, <1>3 DEF Restart
<1>4. ASSUME NEW g \in Flushers, NEW call, fl' = [fl EXCEPT ![g] = call]
      PROVE  fl'[f] = IF g = f THEN call ELSE fl[f]
  BY <1>4 DEF TypeOK
<1>5. ASSUME NEW g \in Flushers, FlushTake(g)
      PROVE  k \in DOMAIN fl[f].batch /\ fl'[f].batch[k] = fl[f].batch[k]
  <2>1. fl'[f] = IF g = f THEN FlushAt("read", dirty, EmptyMap, {}) ELSE fl[f]
    BY <1>4, <1>5 DEF FlushTake
  <2> QED  BY <2>1 DEF FlushAt, EmptyMap
<1>6. ASSUME NEW g \in Flushers, FlushRead(g)
      PROVE  \/ k \in DOMAIN fl[f].batch /\ fl'[f].batch[k] = fl[f].batch[k]
             \/ /\ FlushRead(f) /\ k \in fl[f].keys \cap DOMAIN cache
                /\ fl'[f].batch[k] = cache[k]
  <2> DEFINE batch == Restrict(cache, fl[g].keys \cap DOMAIN cache)
             call == IF DOMAIN batch = {} THEN IdleFlush ELSE FlushAt("commit", {}, batch, {})
  <2>1. fl'[f] = IF g = f THEN call ELSE fl[f]
    BY <1>4, <1>6 DEF FlushRead
  <2>2. call.batch = batch \/ DOMAIN call.batch = {}
    BY <1>2 DEF FlushAt
  <2> HIDE DEF call
  <2> QED  BY <1>6, <2>1, <2>2 DEF Restrict
<1>7. ASSUME NEW g \in Flushers, FlushCommit(g)
      PROVE  k \in DOMAIN fl[f].batch /\ fl'[f].batch[k] = fl[f].batch[k]
  <2>1. PICK chunk : fl' = [fl EXCEPT ![g] = FlushAt("clear", {}, fl[g].batch, chunk)]
    BY <1>7 DEF FlushCommit
  <2>2. fl'[f] = IF g = f THEN FlushAt("clear", {}, fl[g].batch, chunk) ELSE fl[f]
    BY <1>4, <2>1
  <2> QED  BY <2>2 DEF FlushAt
<1>8. ASSUME NEW g \in Flushers, NEW x \in Keys, FlushClear(g, x)
      PROVE  k \in DOMAIN fl[f].batch /\ fl'[f].batch[k] = fl[f].batch[k]
  <2> DEFINE chunk == fl[g].chunk \ {x}
             batch == Without(fl[g].batch, {x})
             call == IF DOMAIN batch = {} THEN IdleFlush
                     ELSE FlushAt(IF chunk = {} THEN "commit" ELSE "clear", {}, batch, chunk)
  <2>1. fl'[f] = IF g = f THEN call ELSE fl[f]
    BY <1>4, <1>8 DEF FlushClear
  <2>2. call.batch = batch \/ DOMAIN call.batch = {}
    BY <1>2 DEF FlushAt
  <2> HIDE DEF call
  <2> QED  BY <2>1, <2>2 DEF Without, Restrict
<1>9. ASSUME NEW g \in Flushers, FlushFail(g)
      PROVE  k \in DOMAIN fl[f].batch /\ fl'[f].batch[k] = fl[f].batch[k]
  <2>1. fl'[f] = IF g = f THEN IdleFlush ELSE fl[f]
    BY <1>4, <1>9 DEF FlushFail, FlushAbandon
  <2> QED  BY <1>2, <2>1
<1> QED  BY <1>1, <1>3, <1>5, <1>6, <1>7, <1>8, <1>9, WritesFlush

---------------------------------------------------------------------------
(* The numbers of the writes.                                              *)

\* No value is in the system before the write that makes it has begun.
IdsUsed ==
  /\ \A k \in DOMAIN db : db[k].value.id <= writes
  /\ \A k \in DOMAIN cache : cache[k].value.id <= writes
  /\ \A w \in DOMAIN puts : puts[w].value.id <= writes
  /\ \A f \in Flushers : \A k \in DOMAIN fl[f].batch : fl[f].batch[k].value.id <= writes

\* Every step keeps that order.
LEMMA IdsStep ==
  ASSUME TypeOK, ClocksAgree, IdsUsed, [Next]_vars
  PROVE  IdsUsed'
<1>1. writes \in Nat /\ writes' \in Nat /\ writes <= writes'
  <2>1. CASE UNCHANGED writes
    BY <2>1 DEF TypeOK
  <2>2. CASE \E w \in Writers, k \in Keys, mode \in Modes, len \in Lens : PutBegin(w, k, mode, len)
    BY <2>2 DEF TypeOK, PutBegin
  <2> QED  BY <2>1, <2>2, WritesCount
<1>2. /\ \A k \in DOMAIN db : db[k].value.id \in Nat
      /\ \A k \in DOMAIN cache : cache[k].value.id \in Nat
      /\ \A w \in DOMAIN puts : puts[w].value.id \in Nat
      /\ \A f \in Flushers : \A k \in DOMAIN fl[f].batch : fl[f].batch[k].value.id \in Nat
  <2>1. \A k \in DOMAIN db : db[k].value.id \in Nat
    BY DEF TypeOK, IsMap, Row, Value
  <2>2. \A k \in DOMAIN cache : cache[k].value.id \in Nat
    BY DEF TypeOK, IsMap, Entry, Value
  <2>3. \A w \in DOMAIN puts : puts[w].value.id \in Nat
    BY DEF TypeOK, IsMap, PutCall, Value
  <2>4. \A f \in Flushers : \A k \in DOMAIN fl[f].batch : fl[f].batch[k].value.id \in Nat
    BY DEF TypeOK, IsFlushCall, IsMap, Entry, Value
  <2> QED  BY <2>1, <2>2, <2>3, <2>4
<1>3. ASSUME NEW k \in DOMAIN db'
      PROVE  db'[k].value.id <= writes'
  <2>1. CASE RowKept(k)
    BY <1>1, <1>2, <2>1 DEF RowKept, IdsUsed
  <2>2. ASSUME NEW w \in Writers, RowPutBy(w, k)
        PROVE  db'[k].value.id <= writes'
    <3>1. w \in DOMAIN puts /\ db'[k] = RowOf(puts[w])
      BY <2>2 DEF RowPutBy, PutExec, PutFailLate, Upsert
    <3>2. db'[k].value = puts[w].value
      BY <3>1 DEF RowOf
    <3> QED  BY <1>1, <1>2, <3>1, <3>2 DEF IdsUsed
  <2>3. ASSUME NEW f \in Flushers, RowFlushedBy(f, k)
        PROVE  db'[k].value.id <= writes'
    <3>1. k \in DOMAIN fl[f].batch /\ db'[k].value = fl[f].batch[k].value
      BY <2>3 DEF RowFlushedBy, RowOf
    <3> QED  BY <1>1, <1>2, <3>1 DEF IdsUsed
  <2> QED  BY <2>1, <2>2, <2>3, RowEffect DEF RowGone
<1>4. ASSUME NEW k \in DOMAIN cache'
      PROVE  cache'[k].value.id <= writes'
  <2>1. CASE EntryKept(k)
    <3>1. k \in DOMAIN cache /\ cache'[k].value = cache[k].value
      BY <2>1 DEF EntryKept, RowOf
    <3> QED  BY <1>1, <1>2, <3>1 DEF IdsUsed
  <2>2. ASSUME NEW w \in Writers, PutCache(w), puts[w].key = k
        PROVE  cache'[k].value.id <= writes'
    <3>1. w \in DOMAIN puts /\ cache'[k] = EntryOf(puts[w], puts[w].value.mode # "sync")
      BY <2>2 DEF PutCache, cachePut, Upsert
    <3>2. cache'[k].value = puts[w].value
      BY <3>1 DEF EntryOf
    <3> QED  BY <1>1, <1>2, <3>1, <3>2 DEF IdsUsed
  <2>3. CASE Restart
    <3>1. k \in DOMAIN db /\ cache'[k].value = db[k].value
      BY <2>3 DEF Restart, Loaded, EntryOf
    <3> QED  BY <1>1, <1>2, <3>1 DEF IdsUsed
  <2> QED  BY <2>1, <2>2, <2>3, EntryEffect DEF EntryGone
<1>5. ASSUME NEW w \in DOMAIN puts'
      PROVE  puts'[w].value.id <= writes'
  <2>1. CASE SameCall(w)
    BY <1>1, <1>2, <2>1 DEF SameCall, IdsUsed
  <2>2. ASSUME NEW k \in Keys, NEW mode \in Modes, NEW len \in Lens, PutBegin(w, k, mode, len)
        PROVE  puts'[w].value.id <= writes'
    <3>1. puts'[w].value.id = writes + 1 /\ writes' = writes + 1
      BY <2>2 DEF PutBegin, Upsert
    <3> QED  BY <1>1, <3>1
  <2> QED  BY <2>1, <2>2, PutsEffect
<1>6. ASSUME NEW f \in Flushers, NEW k \in DOMAIN fl'[f].batch
      PROVE  fl'[f].batch[k].value.id <= writes'
  BY <1>1, <1>2, BatchEffect DEF IdsUsed
<1> QED  BY <1>3, <1>4, <1>5, <1>6 DEF IdsUsed

---------------------------------------------------------------------------
(* The two layers hold a write, in the state of which m, t, e and F are    *)
(* the map, the time, the eviction and the flushes.                        *)

ServedIn(m, t, k, v, exp) ==
  ~After(t, exp) => k \in DOMAIN m /\ m[k].value = v /\ m[k].expiresAt = exp
StoredIn(m, t, k, v, exp) ==
  ~After(t, exp) /\ ~Sweepable(exp, t) =>
    k \in DOMAIN m /\ m[k] = [value |-> v, expiresAt |-> exp]
UnwrittenIn(m, k, v) == k \in DOMAIN m => m[k].value # v

\* The entry of a write stays until another write replaces it.
LEMMA ServedKept ==
  ASSUME TypeOK, ClocksAgree, [Next]_vars, NEW k, NEW v, NEW exp \in Nat,
         ServedIn(cache, now, k, v, exp), ~ClaimedIn(ev, k, exp), ~Restart,
         \A w \in Writers : PutCache(w) => puts[w].key # k
  PROVE  ServedIn(cache', now', k, v, exp)
<1> SUFFICES ASSUME ~After(now', exp)
             PROVE  k \in DOMAIN cache' /\ cache'[k].value = v /\ cache'[k].expiresAt = exp
  BY DEF ServedIn
<1>1. ~After(now, exp)
  BY TimePasses DEF After, TypeOK
<1>2. k \in DOMAIN cache /\ cache[k].value = v /\ cache[k].expiresAt = exp
  BY <1>1 DEF ServedIn
<1>3. ~EvictorClaims(k, cache[k].expiresAt)
  BY <1>2 DEF EvictorClaims, ClaimedIn
<1>4. EntryKept(k)
  BY <1>1, <1>2, <1>3, EntryEffect
<1> QED  BY <1>2, <1>4 DEF EntryKept, RowOf

\* The row of a write stays until another one is put or flushed.
LEMMA StoredKept ==
  ASSUME TypeOK, ClocksAgree, [Next]_vars, NEW k, NEW v, NEW exp \in Nat,
         StoredIn(db, now, k, v, exp), ~ClaimedIn(ev, k, exp),
         \A w \in Writers : ~RowPutBy(w, k),
         \A f \in Flushers : ~RowFlushedBy(f, k),
         Overtakes(k) => db[k] # [value |-> v, expiresAt |-> exp]
  PROVE  StoredIn(db', now', k, v, exp)
<1> SUFFICES ASSUME ~After(now', exp), ~Sweepable(exp, now')
             PROVE  k \in DOMAIN db' /\ db'[k] = [value |-> v, expiresAt |-> exp]
  BY DEF StoredIn
<1>1. now \in Nat /\ now' \in Nat /\ now <= now'
  BY TimePasses DEF TypeOK
<1>2. ~After(now, exp)
  BY <1>1 DEF After
<1>3. ~Sweepable(exp, now)
  <2>1. Sec(now) <= Sec(now') /\ Sec(now) \in Nat /\ Sec(now') \in Nat /\ Sec(exp) \in Nat
    BY <1>1, SecMonotonic, TimeSplit
  <2> QED  BY <2>1 DEF Sweepable
<1>4. k \in DOMAIN db /\ db[k] = [value |-> v, expiresAt |-> exp] /\ db[k].expiresAt = exp
  BY <1>2, <1>3 DEF StoredIn
<1>5. ~EvictorClaims(k, db[k].expiresAt)
  BY <1>4 DEF EvictorClaims, ClaimedIn
<1>6. RowKept(k)
  BY <1>2, <1>3, <1>4, <1>5, RowEffect
<1> QED  BY <1>4, <1>6 DEF RowKept

\* A value that is not in the table gets there by a put or a flush only.
LEMMA UnwrittenKept ==
  ASSUME TypeOK, ClocksAgree, [Next]_vars, NEW k, NEW v, UnwrittenIn(db, k, v),
         \A w \in Writers : ~RowPutBy(w, k),
         \A f \in Flushers : ~RowFlushedBy(f, k)
  PROVE  UnwrittenIn(db', k, v)
  BY RowEffect DEF UnwrittenIn, RowKept, RowGone

---------------------------------------------------------------------------
(* The contract of a write that runs alone on its key.                     *)

\* Nothing is about to remove the write or to put an older value over it.
SafeIn(d, e, F, k, v, exp) ==
  /\ ~ClaimedIn(e, k, exp)
  /\ v.mode # "async" => ~HeldIn(F, k)
  /\ v.mode = "memory" => UnwrittenIn(d, k, v)

\* A call of PutWithMode: it has done what its pc says, and no other is on the key.
AlonePut(w) ==
  /\ \A o \in DOMAIN puts : o # w => puts[o].key # puts[w].key
  /\ SafeIn(db, ev, fl, puts[w].key, puts[w].value, puts[w].expiresAt)
  /\ puts[w].pc = "exec" => puts[w].value.mode = "sync"
  /\ puts[w].pc = "mark" =>
       ServedIn(cache, now, puts[w].key, puts[w].value, puts[w].expiresAt)
  /\ puts[w].pc # "exec" /\ puts[w].value.mode = "sync" =>
       StoredIn(db, now, puts[w].key, puts[w].value, puts[w].expiresAt)

\* A write that has returned.
AlonePromise(k) ==
  /\ SafeIn(db, ev, fl, k, promised[k].value, promised[k].expiresAt)
  /\ ServedIn(cache, now, k, promised[k].value, promised[k].expiresAt)
  /\ promised[k].value.mode = "sync" =>
       StoredIn(db, now, k, promised[k].value, promised[k].expiresAt)
  /\ promised[k].value.mode # "async" => k \notin dirty

AloneKept ==
  /\ \A w \in DOMAIN puts : puts[w].alone => AlonePut(w)
  /\ \A k \in DOMAIN promised : promised[k].alone => AlonePromise(k)

\* An alone write has nothing against it when it begins.
LEMMA ContractBegins ==
  ASSUME TypeOK, IdsUsed, NEW w \in Writers, NEW k \in Keys, NEW mode \in Modes, NEW len \in Lens,
         PutBegin(w, k, mode, len), puts'[w].alone
  PROVE  AlonePut(w)'
<1> DEFINE alone == /\ \A o \in DOMAIN puts : puts[o].key # k
                    /\ mode # "async" => ~FlusherHolds(k)
                    /\ ~EvictorClaims(k, now + TTL)
           W == {o \in DOMAIN puts : puts[o].key = k}
           v == [id |-> writes + 1, mode |-> mode, len |-> len]
           call == [pc |-> IF mode = "sync" THEN "exec" ELSE "cache", key |-> k,
                    value |-> v, expiresAt |-> now + TTL, alone |-> alone]
<1>1. puts' = Upsert(Disturb(W), w, call) /\ UNCHANGED <<db, fl, ev>>
  BY Zenon DEF PutBegin
<1>2. puts'[w] = call
  BY <1>1 DEF Upsert
<1>3. alone
  <2>1. call.alone = alone
    BY Zenon
  <2> QED  BY <1>2, <2>1, Zenon
<1>4. /\ puts'[w].key = k /\ puts'[w].value = v /\ v.mode = mode /\ v.id = writes + 1
      /\ puts'[w].expiresAt = now + TTL /\ puts'[w].pc \in {"exec", "cache"}
      /\ puts'[w].pc = "exec" <=> mode = "sync"
  BY <1>2
<1>5. \A o \in DOMAIN puts' : o # w => puts'[o].key # puts'[w].key
  <2> SUFFICES ASSUME NEW o \in DOMAIN puts', o # w  PROVE puts'[o].key # k
    BY <1>4
  <2>1. o \in DOMAIN puts /\ puts'[o] = Disturb(W)[o]
    BY <1>1 DEF Upsert, Disturb
  <2> QED  BY <1>3, <2>1, DisturbCall
<1>6. ~ClaimedIn(ev', k, now + TTL) /\ (mode # "async" => ~HeldIn(fl', k))
  BY <1>1, <1>3, Zenon DEF EvictorClaims, ClaimedIn, FlusherHolds, HeldIn
<1>7. UnwrittenIn(db', k, v)
  <2>1. k \in DOMAIN db => db[k].value.id <= writes /\ db[k].value.id \in Nat /\ writes \in Nat
    BY DEF IdsUsed, TypeOK, IsMap, Row, Value
  <2> QED  BY <1>1, <2>1 DEF UnwrittenIn
<1>8. SafeIn(db', ev', fl', k, v, now + TTL)
  BY <1>4, <1>6, <1>7 DEF SafeIn
<1> QED  BY <1>4, <1>5, <1>8 DEF AlonePut

\* A call in progress that is alone stays so only while it keeps its part.
LEMMA ContractPut ==
  ASSUME TypeOK, ClocksAgree, [Next]_vars, NEW w \in DOMAIN puts', SameCall(w),
         puts'[w].alone, AlonePut(w)
  PROVE  AlonePut(w)'
<1> DEFINE k == puts[w].key
           v == puts[w].value
           exp == puts[w].expiresAt
<1>0. /\ w \in DOMAIN puts /\ w \in Writers /\ puts[w] \in PutCall /\ exp \in Nat /\ k \in Keys
      /\ puts'[w].key = k /\ puts'[w].value = v /\ puts'[w].expiresAt = exp
  BY DEF SameCall, TypeOK, IsMap, PutCall
<1>1. ASSUME NEW W, puts' = Disturb(W)
      PROVE  w \notin W
  BY <1>0, <1>1, DisturbCall
<1>2. ASSUME NEW o \in DOMAIN puts', o # w
      PROVE  puts'[o].key # puts'[w].key
  <2>1. CASE SameCall(o)
    BY <1>0, <1>2, <2>1 DEF SameCall, AlonePut
  <2>2. ASSUME NEW x \in Keys, NEW mode \in Modes, NEW len \in Lens, PutBegin(o, x, mode, len)
        PROVE  puts'[o].key # k
    <3> DEFINE W == {y \in DOMAIN puts : puts[y].key = x}
    <3>1. PICK call : puts' = Upsert(Disturb(W), o, call) /\ call.key = x
      <4>1. PICK pc, v1, e1, a1 :
               puts' = Upsert(Disturb(W), o, [pc |-> pc, key |-> x, value |-> v1,
                                              expiresAt |-> e1, alone |-> a1])
        BY <2>2, Zenon DEF PutBegin
      <4> QED  BY <4>1
    <3>2. puts'[w] = Disturb(W)[w] /\ puts'[o].key = x
      BY <1>0, <1>2, <3>1 DEF Upsert, Disturb
    <3>3. w \notin W
      BY <1>0, <3>2, DisturbCall
    <3> QED  BY <1>0, <3>2, <3>3
  <2> QED  BY <1>0, <2>1, <2>2, PutsEffect
<1>3. ~ClaimedIn(ev', k, exp)
  <2> SUFFICES ASSUME ClaimedIn(ev', k, exp)  PROVE FALSE
    OBVIOUS
  <2>1. ~ClaimedIn(ev, k, exp)
    BY DEF AlonePut, SafeIn
  <2>2. PICK pc, victims : /\ EvictClaim(pc, victims) /\ k \in DOMAIN victims
                           /\ pc = "volDelete" => exp <= victims[k]
    BY <1>0, <2>1, ClaimsEffect
  <2> DEFINE W == {x \in DOMAIN puts :
                     /\ puts[x].key \in DOMAIN victims
                     /\ pc = "volDelete" => puts[x].expiresAt <= victims[puts[x].key]}
  <2>3. puts' = Disturb(W)
    BY <2>2, Zenon DEF EvictClaim
  <2>4. w \in W
    BY <1>0, <2>2
  <2> QED  BY <1>1, <2>3, <2>4
<1>4. v.mode # "async" => ~HeldIn(fl', k)
  <2> SUFFICES ASSUME v.mode # "async", HeldIn(fl', k)  PROVE FALSE
    OBVIOUS
  <2>1. ~HeldIn(fl, k)
    BY DEF AlonePut, SafeIn
  <2>2. PICK f \in Flushers : FlushTake(f) /\ k \in dirty
    BY <2>1, HoldsEffect
  <2> QED  BY <1>0, <1>1, <2>2 DEF FlushTake
<1>5. ASSUME NEW o \in Writers, RowPutBy(o, k)
      PROVE  o = w /\ PutExec(w)
  <2>1. o \in DOMAIN puts /\ puts[o].key = k
    BY <1>5 DEF RowPutBy, PutExec, PutFailLate
  <2>2. o = w
    BY <2>1 DEF AlonePut
  <2>3. ~PutFailLate(w)
    BY DEF PutFailLate, Without, Restrict
  <2> QED  BY <1>5, <2>2, <2>3 DEF RowPutBy
<1>6. ASSUME NEW f \in Flushers, RowFlushedBy(f, k)
      PROVE  v.mode = "async"
  BY <1>6 DEF RowFlushedBy, AlonePut, SafeIn, HeldIn
<1>7. v.mode = "memory" => UnwrittenIn(db', k, v)
  <2> SUFFICES ASSUME v.mode = "memory"  PROVE UnwrittenIn(db', k, v)
    OBVIOUS
  <2>1. UnwrittenIn(db, k, v) /\ puts[w].pc # "exec"
    BY DEF AlonePut, SafeIn
  <2>2. ~PutExec(w)
    BY <2>1 DEF PutExec
  <2> QED  BY <1>5, <1>6, <2>1, <2>2, UnwrittenKept
<1>8. puts'[w].pc = "exec" => v.mode = "sync"
  BY DEF SameCall, AlonePut
<1>9. puts'[w].pc = "mark" => ServedIn(cache', now', k, v, exp)
  <2> SUFFICES ASSUME puts'[w].pc = "mark"  PROVE ServedIn(cache', now', k, v, exp)
    OBVIOUS
  <2>1. CASE PutCache(w)
    <3>1. cache' = Upsert(cache, k, EntryOf(puts[w], v.mode # "sync"))
      BY <2>1 DEF PutCache, cachePut
    <3> QED  BY <3>1 DEF Upsert, EntryOf, ServedIn
  <2>2. CASE ~PutCache(w)
    <3>1. puts[w].pc = "mark"
      BY <2>2 DEF SameCall
    <3>2. ServedIn(cache, now, k, v, exp) /\ ~ClaimedIn(ev, k, exp)
      BY <3>1 DEF AlonePut, SafeIn
    <3>3. ~Restart
      BY DEF Restart, EmptyMap
    <3>4. ASSUME NEW o \in Writers, PutCache(o)
          PROVE  puts[o].key # k
      <4>1. o \in DOMAIN puts /\ o # w
        BY <2>2, <3>4 DEF PutCache
      <4> QED  BY <4>1 DEF AlonePut
    <3> QED  BY <1>0, <3>2, <3>3, <3>4, ServedKept
  <2> QED  BY <2>1, <2>2
<1>10. puts'[w].pc # "exec" /\ v.mode = "sync" => StoredIn(db', now', k, v, exp)
  <2> SUFFICES ASSUME puts'[w].pc # "exec", v.mode = "sync"
               PROVE  StoredIn(db', now', k, v, exp)
    OBVIOUS
  <2>1. CASE PutExec(w)
    <3>1. db' = Upsert(db, k, [value |-> v, expiresAt |-> exp])
      BY <2>1 DEF PutExec, RowOf
    <3> QED  BY <3>1 DEF Upsert, StoredIn
  <2>2. CASE ~PutExec(w)
    <3>1. puts[w].pc # "exec"
      BY <2>2 DEF SameCall, PutCache
    <3>2. StoredIn(db, now, k, v, exp) /\ ~ClaimedIn(ev, k, exp)
      BY <3>1 DEF AlonePut, SafeIn
    <3>3. Overtakes(k) => db[k] # [value |-> v, expiresAt |-> exp]
      <4> SUFFICES ASSUME Overtakes(k)  PROVE db[k] # RowOf(puts[w])
        BY DEF RowOf
      <4> DEFINE W == {x \in DOMAIN puts : /\ puts[x].key = k /\ Overtaken(k)
                                           /\ db[k] = RowOf(puts[x])}
      <4>1. puts' = Disturb(W) /\ Overtaken(k)
        BY Zenon DEF Overtakes, EvictVolDelete
      <4>2. w \notin W
        BY <1>1, <4>1
      <4> QED  BY <1>0, <4>1, <4>2
    <3> QED  BY <1>0, <1>5, <1>6, <2>2, <3>2, <3>3, StoredKept
  <2> QED  BY <2>1, <2>2
<1>11. SafeIn(db', ev', fl', k, v, exp)
  BY <1>3, <1>4, <1>7 DEF SafeIn
<1> HIDE DEF k, v, exp
<1> QED  BY <1>0, <1>2, <1>8, <1>9, <1>10, <1>11 DEF AlonePut

\* A call that returns leaves what its promise says.
LEMMA ContractReturns ==
  ASSUME TypeOK, ClocksAgree, NEW w \in Writers, PutMark(w), AlonePut(w),
         NEW k, k = puts[w].key
  PROVE  AlonePromise(k)'
<1> DEFINE v == puts[w].value
           exp == puts[w].expiresAt
<1>1. /\ puts[w].pc = "mark" /\ UNCHANGED <<now, db, cache, fl, ev>>
      /\ promised'[k].value = v /\ promised'[k].expiresAt = exp
      /\ dirty' = MarkDirty(k, v.mode)
  BY DEF PutMark, Upsert
<1>2. v.mode # "async" => k \notin dirty'
  BY <1>1 DEF MarkDirty
<1> HIDE DEF v, exp
<1>3. /\ SafeIn(db, ev, fl, k, v, exp) /\ ServedIn(cache, now, k, v, exp)
      /\ v.mode = "sync" => StoredIn(db, now, k, v, exp)
  BY <1>1 DEF AlonePut, v, exp
<1> QED  BY <1>1, <1>2, <1>3 DEF AlonePromise

\* A promise that stands has not been overtaken.
LEMMA OvertakenWithdrawn ==
  ASSUME NEW k \in DOMAIN promised', k \in DOMAIN promised, Overtakes(k)
  PROVE  db[k] # RowOf(promised[k])
<1>1. /\ promised' = Without(promised, {x \in {k} \cap DOMAIN promised :
                                          Overtaken(x) /\ db[x] = RowOf(promised[x])})
      /\ Overtaken(k)
  BY Zenon DEF Overtakes, EvictVolDelete
<1> QED  BY <1>1 DEF Without, Restrict

\* A promise that no write replaces is kept.
LEMMA ContractPromise ==
  ASSUME TypeOK, ClocksAgree, [Next]_vars, NEW k \in DOMAIN promised', k \in DOMAIN promised,
         promised'[k] = promised[k], AlonePromise(k),
         \A w \in Writers : PutMark(w) => puts[w].key # k
  PROVE  AlonePromise(k)'
<1> DEFINE v == promised[k].value
           exp == promised[k].expiresAt
<1>0. promised[k] \in Promise /\ exp \in Nat
  BY DEF TypeOK, IsMap, Promise
<1>1. ASSUME NEW S, promised' = Without(promised, S)
      PROVE  k \notin S
  BY <1>1 DEF Without, Restrict
<1>2. ~ClaimedIn(ev', k, exp)
  <2> SUFFICES ASSUME ClaimedIn(ev', k, exp)  PROVE FALSE
    OBVIOUS
  <2>1. ~ClaimedIn(ev, k, exp)
    BY DEF AlonePromise, SafeIn
  <2>2. PICK pc, victims : EvictClaim(pc, victims) /\ k \in DOMAIN victims
    BY <1>0, <2>1, ClaimsEffect
  <2> QED  BY <1>1, <2>2 DEF EvictClaim
<1>3. v.mode # "async" => ~HeldIn(fl, k) /\ k \notin dirty
  BY DEF AlonePromise, SafeIn
<1>4. v.mode # "async" => ~HeldIn(fl', k) /\ k \notin dirty'
  BY <1>3, HoldsEffect, DirtyEffect
<1>5. ASSUME NEW w \in Writers
      PROVE  ~RowPutBy(w, k) /\ (PutCache(w) => puts[w].key # k)
  BY <1>1 DEF RowPutBy, PutExec, PutFailLate, PutCache
<1>6. ASSUME NEW f \in Flushers, RowFlushedBy(f, k)
      PROVE  v.mode = "async"
  BY <1>3, <1>6 DEF RowFlushedBy, HeldIn
<1>7. v.mode = "memory" => UnwrittenIn(db', k, v)
  <2> SUFFICES ASSUME v.mode = "memory"  PROVE UnwrittenIn(db', k, v)
    OBVIOUS
  <2>1. UnwrittenIn(db, k, v)
    BY DEF AlonePromise, SafeIn
  <2> QED  BY <1>5, <1>6, <2>1, UnwrittenKept
<1>8. ServedIn(cache, now, k, v, exp) /\ ~ClaimedIn(ev, k, exp)
      /\ (v.mode = "sync" => StoredIn(db, now, k, v, exp))
  BY DEF AlonePromise, SafeIn
<1>9. v.mode = "sync" => StoredIn(db', now', k, v, exp)
  <2>1. Overtakes(k) => db[k] # [value |-> v, expiresAt |-> exp]
    BY OvertakenWithdrawn DEF RowOf
  <2> QED  BY <1>0, <1>5, <1>6, <1>8, <2>1, StoredKept
<1>10. ServedIn(cache', now', k, v, exp)
  <2>1. CASE ~Restart
    BY <1>0, <1>5, <1>8, <2>1, ServedKept
  <2>2. CASE Restart
    <3>1. k \in Durable /\ cache' = Loaded /\ now' = now
      BY <2>2 DEF Restart, Restrict
    <3>2. k \in DOMAIN db /\ db[k] = [value |-> v, expiresAt |-> exp] /\ ~After(now, exp)
      <4>1. ~After(now, exp) /\ ~Sweepable(exp, now)
        BY <3>1 DEF Durable
      <4>2. v.mode = "sync" \/ (k \in DOMAIN db /\ db[k] = RowOf(promised[k]))
        BY <3>1 DEF Durable
      <4> QED  BY <1>8, <4>1, <4>2 DEF RowOf, StoredIn
    <3>3. k \in DOMAIN Loaded /\ Loaded[k] = EntryOf(db[k], FALSE)
      <4>1. k \notin Expired(db, now)
        BY <3>2 DEF Expired
      <4> QED  BY <3>2, <4>1 DEF Loaded
    <3> QED  BY <3>1, <3>2, <3>3 DEF ServedIn, EntryOf
  <2> QED  BY <2>1, <2>2
<1>11. SafeIn(db', ev', fl', k, v, exp)
  BY <1>2, <1>4, <1>7 DEF SafeIn
<1> HIDE DEF v, exp
<1>12. promised'[k].value = v /\ promised'[k].expiresAt = exp
  BY DEF v, exp
<1> QED  BY <1>4, <1>9, <1>10, <1>11, <1>12 DEF AlonePromise

\* Every step keeps the contract.
LEMMA ContractStep ==
  ASSUME TypeOK, ClocksAgree, IdsUsed, AloneKept, [Next]_vars
  PROVE  AloneKept'
<1>1. ASSUME NEW w \in DOMAIN puts', puts'[w].alone
      PROVE  AlonePut(w)'
  <2>1. CASE SameCall(w)
    <3>1. AlonePut(w)
      BY <1>1, <2>1 DEF SameCall, AloneKept
    <3> QED  BY <1>1, <2>1, <3>1, ContractPut
  <2>2. w \in Writers
    <3>1. IsMap(puts', Writers, PutCall)
      BY NextType DEF TypeOK
    <3> QED  BY <3>1 DEF IsMap
  <2> QED  BY <1>1, <2>1, <2>2, PutsEffect, ContractBegins
<1>2. ASSUME NEW k \in DOMAIN promised', promised'[k].alone
      PROVE  AlonePromise(k)'
  <2>1. ASSUME NEW w \in Writers, PutMark(w), puts[w].key = k
        PROVE  AlonePromise(k)'
    <3>1. w \in DOMAIN puts /\ puts[w].alone
      BY <1>2, <2>1 DEF PutMark, Upsert
    <3>2. AlonePut(w)
      BY <3>1 DEF AloneKept
    <3> QED  BY <2>1, <3>2, ContractReturns
  <2>2. CASE \A w \in Writers : PutMark(w) => puts[w].key # k
    <3>1. k \in DOMAIN promised /\ promised'[k] = promised[k]
      BY <2>2, PromisesEffect
    <3>2. AlonePromise(k)
      BY <1>2, <3>1 DEF AloneKept
    <3> QED  BY <2>2, <3>1, <3>2, ContractPromise
  <2> QED  BY <2>1, <2>2
<1> QED  BY <1>1, <1>2 DEF AloneKept

\* The contract holds at all times.
LEMMA ContractInvariant == Spec => [](TypeOK /\ ClocksAgree /\ IdsUsed /\ AloneKept)
<1>1. Init => IdsUsed /\ AloneKept
  <2>1. ASSUME Init
        PROVE  \A f \in Flushers : DOMAIN fl[f].batch = {}
    BY <2>1 DEF Init, IdleFlush, FlushAt, EmptyMap
  <2> QED  BY <2>1 DEF Init, EmptyMap, IdsUsed, AloneKept
<1>2. TypeOK /\ ClocksAgree /\ IdsUsed /\ AloneKept /\ [Next]_vars => IdsUsed' /\ AloneKept'
  BY IdsStep, ContractStep
<1> QED  BY <1>1, <1>2, TypeCorrect, ClocksInvariant, PTL DEF Spec

\* Served and stored, in the words of the properties.
LEMMA PromiseKept ==
  ASSUME TypeOK, AloneKept, NEW k \in DOMAIN promised, promised[k].alone
  PROVE  /\ Served(k)
         /\ promised[k].value.mode = "sync" => Stored(k)
<1>1. AlonePromise(k)
  BY DEF AloneKept
<1> QED  BY <1>1 DEF AlonePromise, ServedIn, StoredIn, Served, Stored, Unexpired, RowOf

\* A sync write that was alone on its key is served and its row is in the table
\* until it expires or is evicted, however the jobs, the other writes, the
\* failures and the restarts interleave.
THEOREM SyncKeepsPromise == Spec => []SyncHonoured
<1>1. TypeOK /\ AloneKept => SyncHonoured
  BY PromiseKept DEF SyncHonoured, AloneIn
<1> QED  BY <1>1, ContractInvariant, PTL

\* A memory write that was alone on its key is served, is not in the table, and
\* nothing is left that would write it there.
THEOREM MemoryKeepsPromise == Spec => []MemoryHonoured
<1>1. TypeOK /\ AloneKept => MemoryHonoured
  <2> SUFFICES ASSUME TypeOK, AloneKept, NEW k \in AloneIn("memory")
               PROVE  /\ Served(k)
                      /\ k \in DOMAIN db => db[k].value # promised[k].value
                      /\ k \notin dirty /\ ~FlusherHolds(k)
    BY DEF MemoryHonoured
  <2>1. /\ k \in DOMAIN promised /\ promised[k].alone
        /\ promised[k].value.mode = "memory"
    BY DEF AloneIn
  <2>2. AlonePromise(k)
    BY <2>1 DEF AloneKept
  <2>3. UnwrittenIn(db, k, promised[k].value) /\ ~HeldIn(fl, k) /\ k \notin dirty
    BY <2>1, <2>2 DEF AlonePromise, SafeIn
  <2> QED  BY <2>1, <2>3, PromiseKept DEF UnwrittenIn, HeldIn, FlusherHolds
<1> QED  BY <1>1, ContractInvariant, PTL

---------------------------------------------------------------------------
(* Async writes.  They are kept by a single flush job: a second flush that *)
(* still has an older batch may put an older row over the flushed one.     *)

OneFlusher == \A f, g \in Flushers : f = g

\* All that is needed of it: no two flushes are in progress at a time.
OneFlush == \A f, g \in Flushers : fl[f].pc # "idle" /\ fl[g].pc # "idle" => f = g

\* What a flush holds at each of its steps.
FlushShape ==
  \A f \in Flushers :
     /\ fl[f].pc \in {"idle", "read"} => DOMAIN fl[f].batch = {}
     /\ fl[f].pc # "read" => fl[f].keys = {}
     /\ fl[f].pc # "clear" => fl[f].chunk = {}

\* The row is still to be flushed, or it is in the table and no flush has the key.
Owed(k, v, exp) ==
  \/ k \in dirty
  \/ \E f \in Flushers :
        \/ k \in fl[f].keys
        \/ /\ k \in DOMAIN fl[f].batch
           /\ fl[f].batch[k].value = v /\ fl[f].batch[k].expiresAt = exp
           /\ k \in fl[f].chunk => StoredIn(db, now, k, v, exp)
  \/ StoredIn(db, now, k, v, exp) /\ ~HeldIn(fl, k)

AsyncKept ==
  \A k \in DOMAIN promised :
     promised[k].alone /\ promised[k].value.mode = "async"
       /\ ~After(now, promised[k].expiresAt)
       => Owed(k, promised[k].value, promised[k].expiresAt)

\* What a step does to the flush that makes it.
LEMMA FlushEffect ==
  ASSUME TypeOK, [Next]_vars, NEW f \in Flushers
  PROVE  \/ fl'[f] = fl[f]
         \/ fl'[f] = IdleFlush /\ (Restart \/ FlushFail(f))
         \/ fl'[f] = FlushAt("read", dirty, EmptyMap, {}) /\ FlushTake(f)
         \/ /\ FlushRead(f)
            /\ fl'[f] = LET batch == Restrict(cache, fl[f].keys \cap DOMAIN cache)
                        IN  IF DOMAIN batch = {} THEN IdleFlush
                            ELSE FlushAt("commit", {}, batch, {})
         \/ /\ FlushCommit(f)
            /\ \E chunk \in SUBSET DOMAIN fl[f].batch :
                  fl'[f] = FlushAt("clear", {}, fl[f].batch, chunk)
         \/ \E x \in fl[f].chunk :
               /\ FlushClear(f, x)
               /\ fl'[f] = LET chunk == fl[f].chunk \ {x}
                               batch == Without(fl[f].batch, {x})
                           IN  IF DOMAIN batch = {} THEN IdleFlush
                               ELSE FlushAt(IF chunk = {} THEN "commit" ELSE "clear",
                                            {}, batch, chunk)
<1>1. CASE UNCHANGED fl
  BY <1>1
<1>2. CASE Restart
  BY <1>2 DEF Restart
<1>3. ASSUME NEW g \in Flushers, NEW call, fl' = [fl EXCEPT ![g] = call]
      PROVE  fl'[f] = IF g = f THEN call ELSE fl[f]
  BY <1>3 DEF TypeOK
<1>4. ASSUME NEW g \in Flushers, FlushTake(g)
      PROVE  \/ fl'[f] = fl[f]
             \/ fl'[f] = FlushAt("read", dirty, EmptyMap, {}) /\ FlushTake(f)
  BY <1>3, <1>4 DEF FlushTake
<1>5. ASSUME NEW g \in Flushers, FlushRead(g)
      PROVE  \/ fl'[f] = fl[f]
             \/ /\ FlushRead(f)
                /\ fl'[f] = LET batch == Restrict(cache, fl[f].keys \cap DOMAIN cache)
                            IN  IF DOMAIN batch = {} THEN IdleFlush
                                ELSE FlushAt("commit", {}, batch, {})
  BY <1>3, <1>5 DEF FlushRead
<1>6. ASSUME NEW g \in Flushers, FlushCommit(g)
      PROVE  \/ fl'[f] = fl[f]
             \/ /\ FlushCommit(f)
                /\ \E chunk \in SUBSET DOMAIN fl[f].batch :
                      fl'[f] = FlushAt("clear", {}, fl[f].batch, chunk)
  <2>1. PICK chunk \in Chunks(DOMAIN fl[g].batch, FlushBatchSize) :
          fl' = [fl EXCEPT ![g] = FlushAt("clear", {}, fl[g].batch, chunk)]
    BY <1>6 DEF FlushCommit
  <2>2. chunk \in SUBSET DOMAIN fl[g].batch
    BY DEF Chunks
  <2> QED  BY <1>3, <1>6, <2>1, <2>2
<1>7. ASSUME NEW g \in Flushers, NEW x \in Keys, FlushClear(g, x)
      PROVE  \/ fl'[f] = fl[f]
             \/ /\ FlushClear(f, x) /\ x \in fl[f].chunk
                /\ fl'[f] = LET chunk == fl[f].chunk \ {x}
                                batch == Without(fl[f].batch, {x})
                            IN  IF DOMAIN batch = {} THEN IdleFlush
                                ELSE FlushAt(IF chunk = {} THEN "commit" ELSE "clear",
                                             {}, batch, chunk)
  BY <1>3, <1>7 DEF FlushClear
<1>8. ASSUME NEW g \in Flushers, FlushFail(g)
      PROVE  fl'[f] = fl[f] \/ (fl'[f] = IdleFlush /\ FlushFail(f))
  BY <1>3, <1>8 DEF FlushFail, FlushAbandon
<1> QED  BY <1>1, <1>2, <1>4, <1>5, <1>6, <1>7, <1>8, WritesFlush

\* Every step keeps the shape of the flushes.
LEMMA FlushShapeStep ==
  ASSUME TypeOK, FlushShape, [Next]_vars
  PROVE  FlushShape'
<1> SUFFICES ASSUME NEW f \in Flushers
             PROVE  /\ fl'[f].pc \in {"idle", "read"} => DOMAIN fl'[f].batch = {}
                    /\ fl'[f].pc # "read" => fl'[f].keys = {}
                    /\ fl'[f].pc # "clear" => fl'[f].chunk = {}
  BY DEF FlushShape
<1>1. CASE fl'[f] = fl[f]
  BY <1>1 DEF FlushShape
<1>2. CASE fl'[f] = IdleFlush
  BY <1>2 DEF IdleFlush, FlushAt, EmptyMap
<1>3. ASSUME NEW keys, fl'[f] = FlushAt("read", keys, EmptyMap, {})
      PROVE  /\ fl'[f].pc \in {"idle", "read"} => DOMAIN fl'[f].batch = {}
             /\ fl'[f].pc # "read" => fl'[f].keys = {}
             /\ fl'[f].pc # "clear" => fl'[f].chunk = {}
  BY <1>3 DEF FlushAt, EmptyMap
<1>4. ASSUME NEW pc \in {"commit", "clear"}, NEW batch, NEW chunk,
             fl'[f] = FlushAt(pc, {}, batch, chunk), pc = "clear" \/ chunk = {}
      PROVE  /\ fl'[f].pc \in {"idle", "read"} => DOMAIN fl'[f].batch = {}
             /\ fl'[f].pc # "read" => fl'[f].keys = {}
             /\ fl'[f].pc # "clear" => fl'[f].chunk = {}
  BY <1>4 DEF FlushAt
<1> QED  BY <1>1, <1>2, <1>3, <1>4, FlushEffect

\* An async write that has returned is not forgotten.
LEMMA OwedKept ==
  ASSUME OneFlush, TypeOK, ClocksAgree, FlushShape, [Next]_vars,
         NEW k \in DOMAIN promised', k \in DOMAIN promised, promised'[k] = promised[k],
         AlonePromise(k), \A w \in Writers : PutMark(w) => puts[w].key # k,
         NEW v, v = promised[k].value, NEW exp \in Nat, exp = promised[k].expiresAt,
         ~After(now', exp), Owed(k, v, exp)
  PROVE  Owed(k, v, exp)'
<1>1. /\ ServedIn(cache, now, k, v, exp) /\ ~ClaimedIn(ev, k, exp) /\ ~After(now, exp)
  BY TimePasses DEF AlonePromise, SafeIn, TypeOK, After
<1>2. ASSUME NEW S, promised' = Without(promised, S)
      PROVE  k \notin S
  BY <1>2 DEF Without, Restrict
<1>3. \A w \in Writers : ~RowPutBy(w, k)
  BY <1>2 DEF RowPutBy, PutExec, PutFailLate
<1>4. ASSUME StoredIn(db, now, k, v, exp), \A f \in Flushers : ~RowFlushedBy(f, k)
      PROVE  StoredIn(db', now', k, v, exp)
  <2>1. Overtakes(k) => db[k] # [value |-> v, expiresAt |-> exp]
    BY OvertakenWithdrawn DEF RowOf
  <2> QED  BY <1>1, <1>3, <1>4, <2>1, StoredKept
<1>5. CASE Restart
  <2>1. k \in Durable /\ UNCHANGED <<db, now>> /\ fl' = [f \in Flushers |-> IdleFlush]
    BY <1>5 DEF Restart, Restrict
  <2>2. ~HeldIn(fl', k)
    BY <2>1 DEF HeldIn, IdleFlush, FlushAt, EmptyMap
  <2>3. promised[k].value.mode = "sync" => StoredIn(db, now, k, v, exp)
    BY DEF AlonePromise
  <2>4. promised[k].value.mode # "sync" => k \in DOMAIN db /\ db[k] = [value |-> v, expiresAt |-> exp]
    BY <2>1 DEF Durable, RowOf
  <2>5. StoredIn(db', now', k, v, exp)
    BY <2>1, <2>3, <2>4 DEF StoredIn
  <2> QED  BY <2>2, <2>5 DEF Owed
<1>6. ASSUME ~Restart, k \in dirty
      PROVE  Owed(k, v, exp)'
  <2>1. k \in dirty' \/ \E f \in Flushers : FlushTake(f)
    BY <1>6, WritesDirty DEF PutMark, MarkDirty, FlushFail, FlushAbandon, reMarkDirty
  <2>2. ASSUME NEW f \in Flushers, FlushTake(f)
        PROVE  k \in fl'[f].keys
    BY <1>6, <2>2 DEF FlushTake, FlushAt, TypeOK
  <2> QED  BY <2>1, <2>2 DEF Owed
<1>7. ASSUME ~Restart, NEW f \in Flushers, k \in fl[f].keys
      PROVE  Owed(k, v, exp)'
  <2>1. fl[f].pc = "read"
    BY <1>7 DEF FlushShape
  <2>2. fl'[f] = fl[f] \/ FlushRead(f)
    BY <1>7, <2>1, FlushEffect
            DEF FlushFail, FlushAbandon, FlushTake, FlushCommit, FlushClear
  <2>3. CASE fl'[f] = fl[f]
    BY <1>7, <2>3 DEF Owed
  <2>4. CASE FlushRead(f)
    <3> DEFINE batch == Restrict(cache, fl[f].keys \cap DOMAIN cache)
    <3>1. k \in DOMAIN cache /\ cache[k].value = v /\ cache[k].expiresAt = exp
      BY <1>1 DEF ServedIn
    <3>2. k \in DOMAIN batch /\ batch[k] = cache[k]
      BY <1>7, <3>1 DEF Restrict
    <3>3. fl'[f] = FlushAt("commit", {}, batch, {})
      BY <2>4, <3>2 DEF FlushRead, TypeOK
    <3>4. fl'[f].batch = batch /\ k \notin fl'[f].chunk
      BY <3>3 DEF FlushAt
    <3> HIDE DEF batch
    <3> QED  BY <3>1, <3>2, <3>4 DEF Owed
  <2> QED  BY <2>2, <2>3, <2>4
<1>8. ASSUME ~Restart, NEW f \in Flushers, k \in DOMAIN fl[f].batch,
             fl[f].batch[k].value = v, fl[f].batch[k].expiresAt = exp,
             k \in fl[f].chunk => StoredIn(db, now, k, v, exp)
      PROVE  Owed(k, v, exp)'
  <2>1. fl[f].pc \in {"commit", "clear"}
    BY <1>8 DEF FlushShape, TypeOK, IsFlushCall
  <2>2. ASSUME ~FlushCommit(f)
        PROVE  k \in fl[f].chunk => StoredIn(db', now', k, v, exp)
    <3>1. \A g \in Flushers : FlushCommit(g) => g = f
      BY <2>1 DEF OneFlush, FlushCommit
    <3> QED  BY <1>4, <1>8, <2>2, <3>1 DEF RowFlushedBy
  <2>3. \/ fl'[f] = fl[f] /\ ~FlushCommit(f)
        \/ FlushFail(f) \/ FlushCommit(f)
        \/ \E x \in fl[f].chunk :
             /\ FlushClear(f, x)
             /\ fl'[f] = LET chunk == fl[f].chunk \ {x}
                             batch == Without(fl[f].batch, {x})
                         IN  IF DOMAIN batch = {} THEN IdleFlush
                             ELSE FlushAt(IF chunk = {} THEN "commit" ELSE "clear",
                                          {}, batch, chunk)
    BY <1>8, <2>1, FlushEffect DEF FlushTake, FlushRead
  <2>4. CASE fl'[f] = fl[f] /\ ~FlushCommit(f)
    BY <1>8, <2>2, <2>4 DEF Owed
  <2>5. CASE FlushFail(f)
    <3>1. PICK chunk : /\ dirty' = dirty \cup chunk
                       /\ promised' = Without(promised, DOMAIN fl[f].batch \ (dirty \cup chunk))
      BY <2>5 DEF FlushFail, FlushAbandon, reMarkDirty
    <3>2. k \in dirty'
      BY <1>2, <1>8, <3>1
    <3> QED  BY <3>2 DEF Owed
  <2>6. CASE FlushCommit(f)
    <3>1. PICK chunk \in Chunks(DOMAIN fl[f].batch, FlushBatchSize) :
              /\ db' = Overlay(db, [x \in chunk |-> RowOf(fl[f].batch[x])])
              /\ fl' = [fl EXCEPT ![f] = FlushAt("clear", {}, fl[f].batch, chunk)]
      BY <2>6 DEF FlushCommit
    <3>2. fl'[f].batch = fl[f].batch /\ fl'[f].chunk = chunk
      BY <3>1 DEF TypeOK, FlushAt
    <3>3. k \in chunk => k \in DOMAIN db' /\ db'[k] = [value |-> v, expiresAt |-> exp]
      BY <1>8, <3>1 DEF Overlay, RowOf
    <3>4. k \in chunk => StoredIn(db', now', k, v, exp)
      BY <3>3 DEF StoredIn
    <3> QED  BY <1>8, <3>2, <3>4 DEF Owed
  <2>7. ASSUME NEW x \in fl[f].chunk, FlushClear(f, x),
               fl'[f] = LET chunk == fl[f].chunk \ {x}
                            batch == Without(fl[f].batch, {x})
                        IN  IF DOMAIN batch = {} THEN IdleFlush
                            ELSE FlushAt(IF chunk = {} THEN "commit" ELSE "clear",
                                         {}, batch, chunk)
        PROVE  Owed(k, v, exp)'
    <3> DEFINE chunk == fl[f].chunk \ {x}
               batch == Without(fl[f].batch, {x})
    <3>1. ~FlushCommit(f)
      BY <2>7 DEF FlushClear, FlushCommit
    <3>2. CASE x = k
      <4>1. StoredIn(db', now', k, v, exp)
        BY <2>2, <2>7, <3>1, <3>2
      <4>2. k \notin fl'[f].keys /\ k \notin DOMAIN fl'[f].batch
        BY <2>7, <3>2 DEF IdleFlush, FlushAt, EmptyMap, Without, Restrict
      <4>3. ~HeldIn(fl', k)
        <5>1. ASSUME NEW g \in Flushers, g # f
              PROVE  fl'[g] = fl[g] /\ fl[g].keys = {} /\ DOMAIN fl[g].batch = {}
          <6>1. fl[g].pc = "idle"
            BY <2>1, <5>1 DEF OneFlush
          <6> QED  BY <2>7, <5>1, <6>1 DEF FlushClear, TypeOK, FlushShape
        <5> QED  BY <4>2, <5>1 DEF HeldIn
      <4> QED  BY <4>1, <4>3 DEF Owed
    <3>3. CASE x # k
      <4>1. k \in DOMAIN batch /\ batch[k] = fl[f].batch[k]
        BY <1>8, <3>3 DEF Without, Restrict
      <4>2. PICK pc : fl'[f] = FlushAt(pc, {}, batch, chunk)
        BY <2>7, <4>1
      <4>3. fl'[f].batch = batch /\ fl'[f].chunk \subseteq fl[f].chunk
        BY <4>2 DEF FlushAt
      <4> QED  BY <1>8, <2>2, <3>1, <4>1, <4>3 DEF Owed
    <3> QED  BY <3>2, <3>3
  <2> QED  BY <2>3, <2>4, <2>5, <2>6, <2>7
<1>9. ASSUME ~Restart, StoredIn(db, now, k, v, exp), ~HeldIn(fl, k)
      PROVE  Owed(k, v, exp)'
  <2>1. StoredIn(db', now', k, v, exp)
    BY <1>4, <1>9 DEF RowFlushedBy, HeldIn
  <2>2. HeldIn(fl', k) => k \in dirty
    BY <1>9, HoldsEffect
  <2> QED  BY <1>6, <1>9, <2>1, <2>2 DEF Owed
<1> QED  BY <1>5, <1>6, <1>7, <1>8, <1>9 DEF Owed

\* Every step keeps what the flush job owes.
LEMMA AsyncKeptStep ==
  ASSUME OneFlush, TypeOK, ClocksAgree, FlushShape, AloneKept, AsyncKept, [Next]_vars
  PROVE  AsyncKept'
<1> SUFFICES ASSUME NEW k \in DOMAIN promised', promised'[k].alone,
                    promised'[k].value.mode = "async", ~After(now', promised'[k].expiresAt),
                    NEW v, v = promised'[k].value, NEW exp, exp = promised'[k].expiresAt
             PROVE  Owed(k, v, exp)'
  BY DEF AsyncKept
<1>1. ASSUME NEW w \in Writers, PutMark(w), puts[w].key = k
      PROVE  Owed(k, v, exp)'
  <2>1. puts[w].value.mode = "async"
    BY <1>1 DEF PutMark, Upsert
  <2> QED  BY <1>1, <2>1 DEF PutMark, MarkDirty, Owed
<1>2. CASE \A w \in Writers : PutMark(w) => puts[w].key # k
  <2>1. k \in DOMAIN promised /\ promised'[k] = promised[k]
    BY <1>2, PromisesEffect
  <2>2. AlonePromise(k) /\ exp \in Nat
    BY <2>1 DEF AloneKept, TypeOK, IsMap, Promise
  <2>3. ~After(now, exp)
    BY <2>2, TimePasses DEF After, TypeOK
  <2>4. Owed(k, v, exp)
    BY <2>1, <2>3 DEF AsyncKept
  <2> QED  BY <1>2, <2>1, <2>2, <2>4, OwedKept
<1> QED  BY <1>1, <1>2

\* The flush job keeps what it owes at all times.
LEMMA AsyncInvariant ==
  ASSUME OneFlusher
  PROVE  Spec => [](FlushShape /\ AsyncKept)
<1>1. Init => FlushShape /\ AsyncKept
  BY DEF Init, IdleFlush, FlushAt, EmptyMap, FlushShape, AsyncKept
<1>2. /\ TypeOK /\ ClocksAgree /\ IdsUsed /\ AloneKept
      /\ FlushShape /\ AsyncKept /\ [Next]_vars
      => FlushShape' /\ AsyncKept'
  BY FlushShapeStep, AsyncKeptStep DEF OneFlusher, OneFlush
<1> QED  BY <1>1, <1>2, ContractInvariant, PTL DEF Spec

\* That is what the promise of an async write means.
LEMMA AsyncMeans == TypeOK /\ AloneKept /\ AsyncKept => AsyncHonoured
<1> SUFFICES ASSUME TypeOK, AloneKept, AsyncKept, NEW k \in AloneIn("async")
             PROVE  Served(k) /\ (Stored(k) \/ Pending(k))
  BY DEF AsyncHonoured
<1>1. /\ k \in DOMAIN promised /\ promised[k].alone
      /\ promised[k].value.mode = "async"
  BY DEF AloneIn
<1>2. ~After(now, promised[k].expiresAt) => Owed(k, promised[k].value, promised[k].expiresAt)
  BY <1>1 DEF AsyncKept
<1> QED  BY <1>1, <1>2, PromiseKept DEF Owed, Stored, StoredIn, Pending, Unexpired, RowOf

\* With a single flush job, an async write that was alone on its key is served,
\* and it is in the table or the flush job still has it, even when the write
\* raced a flush of the key or when flushes fail.
THEOREM AsyncKeepsPromise ==
  ASSUME OneFlusher
  PROVE  Spec => []AsyncHonoured
<1>1. Spec => [](FlushShape /\ AsyncKept)
  BY AsyncInvariant
<1> QED  BY <1>1, AsyncMeans, ContractInvariant, PTL

---------------------------------------------------------------------------
(* The refinement of CommitContract: what is behind a write that is about  *)
(* to be acknowledged, and behind a flush that is about to commit.         *)

\* The value is nowhere yet.
Unseen(k, v) ==
  /\ UnwrittenIn(db, k, v)
  /\ UnwrittenIn(cache, k, v)
  /\ \A f \in Flushers : UnwrittenIn(fl[f].batch, k, v)

\* Once the row is in the table no flush has an older value to put over it.
NoStale(k, v, exp) ==
  ~After(now, exp) /\ k \in DOMAIN db /\ db[k] = [value |-> v, expiresAt |-> exp] =>
    \A f \in Flushers : k \in DOMAIN fl[f].batch =>
       fl[f].batch[k].value = v /\ fl[f].batch[k].expiresAt = exp

\* A call of PutWithMode, apart from what AlonePut says of it: its key has no
\* promise any more when it returns.
Returning(w) ==
  /\ puts[w].pc = "mark" => puts[w].key \notin DOMAIN promised
  /\ puts[w].value.mode = "async" /\ puts[w].pc = "cache" => Unseen(puts[w].key, puts[w].value)
  /\ puts[w].value.mode = "async" /\ puts[w].pc = "mark" =>
       NoStale(puts[w].key, puts[w].value, puts[w].expiresAt)

Settled ==
  /\ \A w \in DOMAIN puts : puts[w].value.id # 0 /\ (puts[w].alone => Returning(w))
  /\ \A k \in DOMAIN promised :
       promised[k].alone /\ promised[k].value.mode = "async" =>
         NoStale(k, promised[k].value, promised[k].expiresAt)

\* A flush that begins later reads the value that is served.
LEMMA NoStaleKept ==
  ASSUME OneFlusher, TypeOK, ClocksAgree, [Next]_vars, NEW k, NEW v, NEW exp \in Nat,
         ServedIn(cache, now, k, v, exp), NoStale(k, v, exp),
         \A w \in Writers : ~RowPutBy(w, k)
  PROVE  NoStale(k, v, exp)'
<1> SUFFICES ASSUME ~After(now', exp), k \in DOMAIN db', db'[k] = [value |-> v, expiresAt |-> exp],
                    NEW f \in Flushers, k \in DOMAIN fl'[f].batch
             PROVE  fl'[f].batch[k].value = v /\ fl'[f].batch[k].expiresAt = exp
  BY DEF NoStale
<1>1. ~After(now, exp)
  BY TimePasses DEF After, TypeOK
<1>2. CASE FlushRead(f) /\ k \in fl[f].keys \cap DOMAIN cache /\ fl'[f].batch[k] = cache[k]
  BY <1>1, <1>2 DEF ServedIn
<1>3. CASE k \in DOMAIN fl[f].batch /\ fl'[f].batch[k] = fl[f].batch[k]
  <2>1. CASE RowKept(k)
    BY <1>1, <1>3, <2>1 DEF RowKept, NoStale
  <2>2. ASSUME NEW g \in Flushers, RowFlushedBy(g, k)
        PROVE  fl[f].batch[k].value = v /\ fl[f].batch[k].expiresAt = exp
    <3>1. RowOf(fl[f].batch[k]) = [value |-> v, expiresAt |-> exp]
      BY <2>2 DEF OneFlusher, RowFlushedBy
    <3> QED  BY <3>1 DEF RowOf
  <2> QED  BY <1>3, <2>1, <2>2, RowEffect DEF RowGone
<1> QED  BY <1>2, <1>3, BatchEffect

\* A value that is nowhere gets somewhere only by the write that makes it.
LEMMA UnseenKept ==
  ASSUME TypeOK, ClocksAgree, [Next]_vars, NEW k, NEW v, Unseen(k, v), ~Restart,
         \A w \in Writers : ~RowPutBy(w, k) /\ (PutCache(w) => puts[w].key # k)
  PROVE  Unseen(k, v)'
<1>1. UnwrittenIn(db', k, v)
  <2>1. ASSUME NEW f \in Flushers, RowFlushedBy(f, k)
        PROVE  db'[k].value # v
    BY <2>1 DEF RowFlushedBy, RowOf, Unseen, UnwrittenIn
  <2> QED  BY <2>1, RowEffect DEF Unseen, UnwrittenIn, RowKept, RowGone
<1>2. UnwrittenIn(cache', k, v)
  BY EntryEffect DEF Unseen, UnwrittenIn, EntryKept, EntryGone, RowOf
<1>3. ASSUME NEW f \in Flushers
      PROVE  UnwrittenIn(fl'[f].batch, k, v)
  BY BatchEffect DEF Unseen, UnwrittenIn
<1> QED  BY <1>1, <1>2, <1>3 DEF Unseen

\* A write that begins has a number of its own.
LEMMA SettledBegins ==
  ASSUME TypeOK, IdsUsed, NEW w \in Writers, NEW k \in Keys, NEW mode \in Modes, NEW len \in Lens,
         PutBegin(w, k, mode, len), NEW v, v = [id |-> writes + 1, mode |-> mode, len |-> len]
  PROVE  puts'[w].value.id # 0 /\ Returning(w)'
<1>1. /\ puts'[w].key = k /\ puts'[w].value = v /\ puts'[w].pc \in {"exec", "cache"}
      /\ UNCHANGED <<db, cache, fl>>
  BY DEF PutBegin, Upsert
<1>2. writes \in Nat /\ v.id = writes + 1
  BY DEF TypeOK
<1>3. UnwrittenIn(db, k, v)
  <2>1. k \in DOMAIN db => db[k].value.id <= writes /\ db[k].value.id \in Nat
    BY DEF IdsUsed, TypeOK, IsMap, Row, Value
  <2> QED  BY <1>2, <2>1 DEF UnwrittenIn
<1>4. UnwrittenIn(cache, k, v)
  <2>1. k \in DOMAIN cache => cache[k].value.id <= writes /\ cache[k].value.id \in Nat
    BY DEF IdsUsed, TypeOK, IsMap, Entry, Value
  <2> QED  BY <1>2, <2>1 DEF UnwrittenIn
<1>5. ASSUME NEW f \in Flushers
      PROVE  UnwrittenIn(fl[f].batch, k, v)
  <2>1. k \in DOMAIN fl[f].batch =>
          fl[f].batch[k].value.id <= writes /\ fl[f].batch[k].value.id \in Nat
    BY DEF IdsUsed, TypeOK, IsFlushCall, IsMap, Entry, Value
  <2> QED  BY <1>2, <2>1 DEF UnwrittenIn
<1>6. Unseen(k, v)'
  BY <1>1, <1>3, <1>4, <1>5 DEF Unseen
<1>7. puts'[w].value.id # 0
  BY <1>1, <1>2
<1>8. Returning(w)'
  BY <1>1, <1>6 DEF Returning
<1> QED  BY <1>7, <1>8

\* A call in progress keeps its part.
LEMMA SettledPut ==
  ASSUME OneFlusher, TypeOK, ClocksAgree, [Next]_vars, NEW w \in DOMAIN puts', SameCall(w),
         AlonePut(w), Returning(w),
         NEW k, k = puts[w].key, NEW v, v = puts[w].value, NEW exp, exp = puts[w].expiresAt
  PROVE  Returning(w)'
<1>0. /\ w \in DOMAIN puts /\ w \in Writers /\ exp \in Nat
      /\ puts'[w].key = k /\ puts'[w].value = v /\ puts'[w].expiresAt = exp
  BY DEF SameCall, TypeOK, IsMap, PutCall
<1>1. ~Restart
  BY DEF Restart, EmptyMap
<1>2. ASSUME NEW o \in DOMAIN puts, puts[o].key = k
      PROVE  o = w
  BY <1>2, Zenon DEF AlonePut
<1>3. ~PutMark(w) /\ ~PutFailLate(w)
  <2>1. puts' # Without(puts, {w})
    BY DEF Without, Restrict
  <2> QED  BY <2>1, Zenon DEF PutMark, PutFailLate
<1>4. ASSUME NEW o \in Writers, RowPutBy(o, k)
      PROVE  PutExec(w)
  <2>1. o \in DOMAIN puts /\ puts[o].key = k
    BY <1>4 DEF RowPutBy, PutExec, PutFailLate
  <2> QED  BY <1>2, <1>3, <1>4, <2>1 DEF RowPutBy
<1>5. ASSUME NEW o \in Writers, PutCache(o), puts[o].key = k
      PROVE  o = w
  BY <1>2, <1>5 DEF PutCache
<1>6. puts'[w].pc = "mark" => k \notin DOMAIN promised'
  <2> SUFFICES ASSUME puts'[w].pc = "mark", k \in DOMAIN promised'  PROVE FALSE
    OBVIOUS
  <2>1. ~PutCache(w)
    BY DEF PutCache, Without, Restrict
  <2>2. k \notin DOMAIN promised
    BY <2>1 DEF SameCall, Returning
  <2>3. PICK o \in Writers : PutMark(o) /\ puts[o].key = k
    BY <2>2, PromisesEffect
  <2> QED  BY <1>2, <1>3, <2>3 DEF PutMark
<1>7. ASSUME v.mode = "async", puts'[w].pc = "cache"
      PROVE  Unseen(k, v)'
  <2>1. puts[w].pc = "cache"
    BY <1>7 DEF SameCall, AlonePut, PutExec
  <2>2. ~PutCache(w) /\ ~PutExec(w)
    <3>1. ASSUME PutCache(w)  PROVE puts'[w].pc = "mark"
      BY <1>0, <3>1 DEF PutCache, TypeOK, IsMap, PutCall
    <3> QED  BY <1>7, <2>1, <3>1 DEF PutExec
  <2>3. Unseen(k, v)
    BY <1>7, <2>1 DEF Returning
  <2> QED  BY <1>1, <1>4, <1>5, <2>2, <2>3, UnseenKept
<1>8. ASSUME v.mode = "async", puts'[w].pc = "mark"
      PROVE  NoStale(k, v, exp)'
  <2>1. CASE PutCache(w)
    <3>1. puts[w].pc = "cache" /\ UNCHANGED db
      BY <2>1 DEF PutCache
    <3>2. UnwrittenIn(db, k, v)
      BY <1>8, <3>1 DEF Returning, Unseen
    <3> QED  BY <3>1, <3>2 DEF UnwrittenIn, NoStale
  <2>2. CASE ~PutCache(w)
    <3>1. puts[w].pc = "mark"
      BY <1>8, <2>2 DEF SameCall
    <3>2. ServedIn(cache, now, k, v, exp) /\ NoStale(k, v, exp) /\ ~PutExec(w)
      BY <1>8, <3>1 DEF AlonePut, Returning, PutExec
    <3> QED  BY <1>0, <1>4, <3>2, NoStaleKept
  <2> QED  BY <2>1, <2>2
<1> QED  BY <1>0, <1>6, <1>7, <1>8 DEF Returning

\* Every step keeps this.
LEMMA SettledStep ==
  ASSUME OneFlusher, TypeOK, ClocksAgree, IdsUsed, AloneKept, Settled, [Next]_vars
  PROVE  Settled'
<1>1. ASSUME NEW w \in DOMAIN puts'
      PROVE  puts'[w].value.id # 0 /\ (puts'[w].alone => Returning(w)')
  <2>1. CASE SameCall(w)
    <3>1. /\ w \in DOMAIN puts /\ puts'[w].value = puts[w].value
          /\ puts'[w].alone => puts[w].alone
      BY <2>1 DEF SameCall
    <3>2. puts[w].alone => AlonePut(w) /\ Returning(w)
      BY <3>1, Zenon DEF AloneKept, Settled
    <3>3. puts[w].alone => Returning(w)'
      BY <2>1, <3>2, SettledPut
    <3> QED  BY <3>1, <3>3 DEF Settled
  <2>2. w \in Writers
    <3>1. IsMap(puts', Writers, PutCall)
      BY NextType DEF TypeOK
    <3> QED  BY <3>1 DEF IsMap
  <2> QED  BY <2>1, <2>2, PutsEffect, SettledBegins
<1>2. ASSUME NEW k \in DOMAIN promised', promised'[k].alone, promised'[k].value.mode = "async",
             NEW v, v = promised'[k].value, NEW exp, exp = promised'[k].expiresAt
      PROVE  NoStale(k, v, exp)'
  <2>1. ASSUME NEW w \in Writers, PutMark(w), puts[w].key = k
        PROVE  NoStale(k, v, exp)'
    <3>1. /\ w \in DOMAIN puts /\ puts[w].alone /\ puts[w].value = v /\ puts[w].expiresAt = exp
          /\ puts[w].pc = "mark" /\ UNCHANGED <<now, db, fl>>
      BY <1>2, <2>1 DEF PutMark, Upsert
    <3>2. NoStale(k, v, exp)
      BY <1>2, <2>1, <3>1 DEF Settled, Returning
    <3> QED  BY <3>1, <3>2 DEF NoStale
  <2>2. CASE \A w \in Writers : PutMark(w) => puts[w].key # k
    <3>1. k \in DOMAIN promised /\ promised'[k] = promised[k]
      BY <2>2, PromisesEffect
    <3>2. NoStale(k, v, exp) /\ AlonePromise(k) /\ exp \in Nat
      BY <1>2, <3>1 DEF Settled, AloneKept, TypeOK, IsMap, Promise
    <3>3. ServedIn(cache, now, k, v, exp)
      BY <1>2, <3>1, <3>2 DEF AlonePromise
    <3>4. \A w \in Writers : ~RowPutBy(w, k)
      BY <3>1 DEF RowPutBy, PutExec, PutFailLate, Without, Restrict
    <3> QED  BY <3>2, <3>3, <3>4, NoStaleKept
  <2> QED  BY <2>1, <2>2
<1> QED  BY <1>1, <1>2 DEF Settled

---------------------------------------------------------------------------
(* The refinement of CommitContract: the mapping.                          *)

\* A crash, and nothing else, restarts the process.
LEMMA WritesRestarts ==
  ASSUME [Next]_vars
  PROVE  UNCHANGED restarts \/ Restart
<1>1. CASE \E w \in Writers :
             \/ \E k \in Keys, mode \in Modes, len \in Lens : PutBegin(w, k, mode, len)
             \/ Put(w) \/ PutFail(w) \/ PutFailLate(w)
  BY <1>1, Zenon DEF Put, PutBegin, PutExec, PutCache, PutMark, PutFail, PutFailLate, counters
<1>2. CASE \E r \in Readers : (\E k \in Keys : GetRead(r, k)) \/ Get(r) \/ LazyFail(r)
  BY <1>2, Zenon DEF Get, GetRead, GetReturn, GetDrop, LazyDelete, LazyFail, counters
<1>3. CASE \E f \in Flushers : Flush(f) \/ FlushFail(f)
  BY <1>3, Zenon DEF Flush, FlushTake, FlushRead, FlushCommit, FlushClear, FlushFail,
                     FlushAbandon, counters
<1>4. CASE Evict \/ EvictFail
  BY <1>4, Zenon DEF Evict, EvictStart, EvictVolCheck, EvictVolSnap, EvictVolDelete,
                     EvictVolDrop, EvictRowCheck, EvictRowCount, EvictRowSelect,
                     EvictRowDelete, EvictRowDrop, EvictFail, EvictUnchanged, counters
<1>5. CASE Sweep \/ SweepFail
  BY <1>5, Zenon DEF Sweep, SweepStart, SweepPurge, SweepProbe, SweepDelete, SweepFail,
                     SweepUnchanged
<1>6. CASE Restart \/ Tick \/ UNCHANGED vars
  BY <1>6, Zenon DEF vars, Tick, counters
<1> QED  BY <1>1, <1>2, <1>3, <1>4, <1>5, <1>6, Zenon DEF Next

\* The promises, as the contract sees them.
Mapped ==
  [k \in Keys |->
     IF Binding(k)
     THEN [id |-> promised[k].value.id, mode |-> promised[k].value.mode,
           lapse |-> Lapse(promised[k].expiresAt), stands |-> Stands(k)]
     ELSE NoPromise]

\* Where the promise of a write that was alone stands while it binds.
Flushed(k) == k \in DOMAIN db /\ db[k] = RowOf(promised[k])
Standing(k) ==
  IF promised[k].value.mode = "memory" THEN "memory"
  ELSE IF promised[k].value.mode = "sync" \/ Flushed(k) THEN "durable" ELSE "pending"

\* A promise with its place.
At(p, place) ==
  [id |-> p.value.id, mode |-> p.value.mode, lapse |-> Lapse(p.expiresAt), stands |-> place]

\* A promise that binds is where its mode says.
AllStand ==
  \A k \in Keys :
     Mapped[k] = IF Binding(k) THEN At(promised[k], Standing(k)) ELSE NoPromise

\* A promise binds exactly as long as the row may last.
LEMMA BindsWhileLive ==
  ASSUME TypeOK, NEW k \in DOMAIN promised
  PROVE  /\ promised[k].expiresAt \in Nat /\ Lapse(promised[k].expiresAt) \in Nat
         /\ promised[k].value.mode \in {"sync", "async", "memory"}
         /\ now < Lapse(promised[k].expiresAt) <=> LiveAt(promised[k].expiresAt, now)
<1>1. now \in Nat /\ promised[k].expiresAt \in Nat
  BY DEF TypeOK, IsMap, Promise
<1>2. promised[k].value.mode \in {"sync", "async", "memory"}
  BY SetsAssumption DEF TypeOK, IsMap, Promise, Value
<1> QED  BY <1>1, <1>2, LapseExact

\* That is what the invariants mean.
LEMMA MappedStands == TypeOK /\ AloneKept /\ AsyncKept => AllStand
<1> SUFFICES ASSUME TypeOK, AloneKept, AsyncKept, NEW k \in Keys
             PROVE  Mapped[k] = IF Binding(k) THEN At(promised[k], Standing(k)) ELSE NoPromise
  BY DEF AllStand
<1>1. ASSUME Binding(k)
      PROVE  Stands(k) = Standing(k)
  <2>1. /\ k \in DOMAIN promised /\ promised[k].alone
        /\ LiveAt(promised[k].expiresAt, now)
        /\ promised[k].value.mode \in {"sync", "async", "memory"}
    BY <1>1, BindsWhileLive DEF Binding
  <2>2. Served(k) /\ (promised[k].value.mode = "sync" => Stored(k))
    BY <2>1, PromiseKept
  <2>3. Stored(k) <=> Flushed(k)
    BY <2>1 DEF Stored, Flushed, LiveAt, Unexpired
  <2>4. promised[k].value.mode = "memory" => ~Flushed(k)
    <3> SUFFICES ASSUME promised[k].value.mode = "memory", Flushed(k)  PROVE FALSE
      OBVIOUS
    <3>1. UnwrittenIn(db, k, promised[k].value)
      BY <2>1 DEF AloneKept, AlonePromise, SafeIn
    <3> QED  BY <3>1 DEF Flushed, UnwrittenIn, RowOf
  <2>5. promised[k].value.mode = "async" => Stored(k) \/ Pending(k)
    BY <2>1, AsyncMeans DEF AsyncHonoured, AloneIn
  <2>6. CASE Stored(k)
    <3>1. Stands(k) = "durable"
      BY <2>2, <2>6, Zenon DEF Stands
    <3> QED  BY <2>3, <2>4, <2>6, <3>1 DEF Standing
  <2>7. CASE ~Stored(k) /\ promised[k].value.mode = "async"
    <3>1. Stands(k) = "pending"
      BY <2>2, <2>5, <2>7, Zenon DEF Stands
    <3> QED  BY <2>3, <2>7, <3>1 DEF Standing
  <2>8. CASE ~Stored(k) /\ promised[k].value.mode = "memory"
    <3>1. promised[k].value.mode # "async"
      BY <2>8
    <3>2. Stands(k) = "memory"
      BY <2>2, <2>8, <3>1, Zenon DEF Stands
    <3> QED  BY <2>3, <2>8, <3>2 DEF Standing
  <2> QED  BY <2>1, <2>2, <2>6, <2>7, <2>8
<1> QED  BY <1>1 DEF Mapped, At

---------------------------------------------------------------------------
(* The refinement of CommitContract: the steps.                            *)

\* While a promise binds, its row comes into the table by a flush and does not
\* leave it: neither an older value nor a deletion gets in between.
LEMMA StandsKept ==
  ASSUME OneFlusher, TypeOK, ClocksAgree, AloneKept, Settled, [Next]_vars, UNCHANGED now,
         NEW k \in DOMAIN promised', k \in DOMAIN promised, promised'[k] = promised[k], Binding(k)
  PROVE  \/ Standing(k)' = Standing(k)
         \/ /\ Standing(k) = "pending" /\ Standing(k)' = "durable"
            /\ \E f \in Flushers : FlushCommit(f)
<1> DEFINE v == promised[k].value
           exp == promised[k].expiresAt
           row == [value |-> v, expiresAt |-> exp]
<1>1. RowOf(promised[k]) = row /\ RowOf(promised[k])' = row
  BY DEF RowOf
<1>2. CASE v.mode # "async"
  <2>1. v.mode \in {"sync", "memory"}
    BY <1>2, BindsWhileLive
  <2> QED  BY <2>1 DEF Standing
<1>3. CASE v.mode = "async"
  <2>1. ~After(now, exp) /\ ~Sweepable(exp, now) /\ promised[k].alone
    BY BindsWhileLive DEF Binding, LiveAt
  <2>2. AlonePromise(k) /\ NoStale(k, v, exp)
    BY <1>3, <2>1 DEF AloneKept, Settled
  <2>3. ~ClaimedIn(ev, k, exp)
    BY <2>2 DEF AlonePromise, SafeIn
  <2>4. \A w \in Writers : ~RowPutBy(w, k)
    BY DEF RowPutBy, PutExec, PutFailLate, Without, Restrict
  <2>5. ASSUME Flushed(k)
        PROVE  Flushed(k)'
    <3>1. k \in DOMAIN db /\ db[k] = row /\ db[k].expiresAt = exp
      BY <1>1, <2>5 DEF Flushed
    <3>2. ~EvictorClaims(k, db[k].expiresAt)
      BY <2>3, <3>1 DEF EvictorClaims, ClaimedIn
    <3>3. ASSUME NEW f \in Flushers, RowFlushedBy(f, k)
          PROVE  k \in DOMAIN db' /\ db'[k] = row
      BY <2>1, <2>2, <3>1, <3>3 DEF RowFlushedBy, NoStale, RowOf
    <3>5. ~Overtakes(k)
      BY <1>1, <3>1, OvertakenWithdrawn
    <3>4. k \in DOMAIN db' /\ db'[k] = row
      BY <2>1, <2>4, <3>1, <3>2, <3>3, <3>5, RowEffect DEF RowKept
    <3> QED  BY <1>1, <3>4 DEF Flushed
  <2>6. ASSUME ~Flushed(k), Flushed(k)'
        PROVE  \E f \in Flushers : FlushCommit(f)
    <3>1. ~RowKept(k) /\ ~RowGone(k)
      BY <1>1, <2>6 DEF Flushed, RowKept, RowGone
    <3> QED  BY <2>4, <3>1, RowEffect DEF RowFlushedBy
  <2> QED  BY <1>3, <2>5, <2>6 DEF Standing
<1> QED  BY <1>2, <1>3

\* A promise that is the same in both states, and stands where it stood, looks
\* the same.
LEMMA MappedSame ==
  ASSUME AllStand, AllStand', UNCHANGED now, NEW k \in Keys,
         k \in DOMAIN promised' <=> k \in DOMAIN promised,
         k \in DOMAIN promised => promised'[k] = promised[k],
         Binding(k) => Standing(k)' = Standing(k)
  PROVE  Mapped'[k] = Mapped[k]
<1>1. Binding(k)' <=> Binding(k)
  BY DEF Binding
<1>2. Binding(k) => promised'[k] = promised[k]
  BY DEF Binding
<1> QED  BY <1>1, <1>2, Zenon DEF AllStand

\* Promises that end are withdrawn.
LEMMA Withdraws ==
  ASSUME UNCHANGED <<now, restarts>>,
         \A k \in Keys : Mapped'[k] = Mapped[k] \/ Mapped'[k] = NoPromise
  PROVE  Contract!CNext
<1> DEFINE S == {k \in Keys : Mapped'[k] = NoPromise}
<1>1. Mapped' = [k \in Keys |-> IF k \in S THEN NoPromise ELSE Mapped[k]]
  <2>1. \A k \in Keys : Mapped'[k] = IF k \in S THEN NoPromise ELSE Mapped[k]
    OBVIOUS
  <2> QED  BY <2>1 DEF Mapped
<1>2. S \in SUBSET Keys
  OBVIOUS
<1> HIDE DEF S
<1>3. Contract!Withdraw
  BY <1>1, <1>2 DEF Contract!Withdraw, Contract!NoPromise, NoPromise, Mapped
<1> QED  BY <1>3 DEF Contract!CNext

\* A step in which no write returns and no flush commits withdraws promises, or
\* leaves them alone.
LEMMA OthersWithdraw ==
  ASSUME OneFlusher, TypeOK, ClocksAgree, AloneKept, Settled, AllStand, AllStand', [Next]_vars,
         UNCHANGED <<now, restarts>>,
         \A w \in Writers : ~PutMark(w), \A f \in Flushers : ~FlushCommit(f)
  PROVE  Contract!CNext
<1>1. ASSUME NEW k \in Keys
      PROVE  Mapped'[k] = Mapped[k] \/ Mapped'[k] = NoPromise
  <2>1. CASE k \in DOMAIN promised'
    <3>1. k \in DOMAIN promised /\ promised'[k] = promised[k]
      BY <2>1, PromisesEffect
    <3>2. Binding(k) => Standing(k)' = Standing(k)
      BY <2>1, <3>1, StandsKept
    <3> QED  BY <2>1, <3>1, <3>2, MappedSame
  <2>2. CASE k \notin DOMAIN promised'
    BY <2>2 DEF AllStand, Binding
  <2> QED  BY <2>1, <2>2
<1> QED  BY <1>1, Withdraws

\* The commit of a flush persists pending promises.
LEMMA CommitPersists ==
  ASSUME OneFlusher, TypeOK, ClocksAgree, AloneKept, Settled, AllStand, AllStand', [Next]_vars,
         NEW f \in Flushers, FlushCommit(f)
  PROVE  Contract!CNext
<1>0. UNCHANGED <<now, promised, restarts>>
  BY DEF FlushCommit, counters
<1> DEFINE S == {k \in Keys : Mapped[k].stands = "pending" /\ Mapped'[k] # Mapped[k]}
<1>1. ASSUME NEW k \in Keys
      PROVE  \/ Mapped'[k] = Mapped[k]
             \/ /\ Mapped[k].stands = "pending"
                /\ Mapped'[k] = [Mapped[k] EXCEPT !.stands = "durable"]
  <2>1. CASE ~Binding(k)
    <3>1. Mapped'[k] = Mapped[k]
      BY <1>0, <2>1, MappedSame
    <3> QED  BY <3>1
  <2>2. CASE Binding(k)
    <3>1. k \in DOMAIN promised /\ k \in DOMAIN promised' /\ promised'[k] = promised[k]
      BY <1>0, <2>2 DEF Binding
    <3>2. CASE Standing(k)' = Standing(k)
      <4>1. Mapped'[k] = Mapped[k]
        BY <1>0, <3>1, <3>2, MappedSame
      <4> QED  BY <4>1
    <3>3. CASE Standing(k) = "pending" /\ Standing(k)' = "durable"
      <4>1. Binding(k)'
        BY <1>0, <2>2 DEF Binding
      <4>2. Mapped[k] = At(promised[k], "pending")
        BY <2>2, <3>3 DEF AllStand
      <4>3. Mapped'[k] = At(promised[k], "durable")
        BY <3>1, <3>3, <4>1 DEF AllStand
      <4> QED  BY <4>2, <4>3 DEF At
    <3> QED  BY <1>0, <2>2, <3>1, <3>2, <3>3, StandsKept
  <2> QED  BY <2>1, <2>2
<1>2. Mapped' = [k \in Keys |-> IF k \in S THEN [Mapped[k] EXCEPT !.stands = "durable"]
                                ELSE Mapped[k]]
  <2>1. \A k \in Keys : Mapped'[k] = IF k \in S THEN [Mapped[k] EXCEPT !.stands = "durable"]
                                     ELSE Mapped[k]
    BY <1>1
  <2> QED  BY <2>1 DEF Mapped
<1>3. S \in SUBSET {k \in Keys : Mapped[k].stands = "pending"}
  OBVIOUS
<1> HIDE DEF S
<1>4. Contract!Persist
  BY <1>0, <1>2, <1>3 DEF Contract!Persist, Mapped
<1> QED  BY <1>4 DEF Contract!CNext

\* A write that returns is acknowledged where its mode says, unless it was not
\* alone or is too late.
LEMMA MarkAcknowledges ==
  ASSUME OneFlusher, TypeOK, ClocksAgree, AloneKept, Settled, AllStand, AllStand', TypeOK',
         [Next]_vars, NEW w \in Writers, PutMark(w), NEW k, k = puts[w].key,
         NEW p, p = [value |-> puts[w].value, expiresAt |-> puts[w].expiresAt,
                     alone |-> puts[w].alone]
  PROVE  Contract!CNext
<1>0. /\ k \in Keys /\ w \in DOMAIN puts /\ puts[w].pc = "mark"
      /\ UNCHANGED <<now, db, restarts>> /\ promised' = Upsert(promised, k, p)
      /\ puts[w].value.id # 0
  BY DEF PutMark, TypeOK, IsMap, PutCall, counters, Settled
<1>1. k \in DOMAIN promised' /\ promised'[k] = p /\ p.value = puts[w].value
  BY <1>0 DEF Upsert
<1>2. ASSUME NEW x \in Keys, x # k
      PROVE  Mapped'[x] = Mapped[x]
  <2>1. x \in DOMAIN promised' <=> x \in DOMAIN promised
    BY <1>0, <1>2 DEF Upsert
  <2>2. x \in DOMAIN promised => promised'[x] = promised[x]
    BY <1>0, <1>2 DEF Upsert
  <2>3. Binding(x) => Standing(x)' = Standing(x)
    BY <1>0, <2>2 DEF Binding, Standing, Flushed
  <2> QED  BY <1>0, <2>1, <2>2, <2>3, MappedSame
<1>3. CASE ~Binding(k)'
  <2>1. Mapped'[k] = NoPromise
    BY <1>0, <1>3 DEF AllStand
  <2> QED  BY <1>0, <1>2, <2>1, Withdraws
<1>4. CASE Binding(k)'
  <2>1. p.alone /\ now < Lapse(p.expiresAt)
    BY <1>0, <1>1, <1>4 DEF Binding
  <2>2. k \notin DOMAIN promised
    <3>1. puts[w].alone
      BY <2>1
    <3> QED  BY <1>0, <3>1 DEF Settled, Returning
  <2>3. Mapped[k] = NoPromise
    BY <1>0, <2>2 DEF AllStand, Binding
  <2>4. PICK place : place = Standing(k)'
    OBVIOUS
  <2>5. Mapped'[k] = At(p, place)
    BY <1>0, <1>1, <1>4, <2>4 DEF AllStand
  <2>6. p.value.mode \in {"sync", "async", "memory"}
    BY <1>1, SetsAssumption DEF TypeOK, IsMap, Promise, Value
  <2>7. /\ p.value.mode = "sync" => place = "durable"
        /\ p.value.mode = "async" => place \in {"pending", "durable"}
        /\ p.value.mode = "memory" => place = "memory"
    BY <1>1, <2>4 DEF Standing
  <2>8. /\ Contract!Granted("sync") = {"durable"} /\ Contract!Granted("memory") = {"memory"}
        /\ Contract!Granted("async") = {"pending", "durable"}
    BY DEF Contract!Granted
  <2>9. place \in Contract!Granted(p.value.mode)
    BY <2>6, <2>7, <2>8
  <2>10. /\ Mapped'[k].mode = p.value.mode /\ Mapped'[k].stands = place
         /\ Mapped'[k].id # Mapped[k].id /\ Mapped'[k].lapse > now
    BY <1>0, <1>1, <2>1, <2>3, <2>5 DEF At, NoPromise
  <2>11. Mapped' = [Mapped EXCEPT ![k] = Mapped'[k]]
    BY <1>0, <1>2 DEF Mapped
  <2>12. Contract!Acknowledge(k)
    BY <1>0, <2>6, <2>9, <2>10, <2>11 DEF Contract!Acknowledge, Mapped
  <2> QED  BY <1>0, <2>12 DEF Contract!CNext
<1> QED  BY <1>3, <1>4

\* The time ends exactly the promises that lapse.
LEMMA TickAdvances ==
  ASSUME TypeOK, AllStand, AllStand', Tick
  PROVE  Contract!CNext
<1>1. /\ now \in Nat /\ now' \in Nat /\ now' > now /\ UNCHANGED <<promised, db, restarts>>
  BY TimeAssumption DEF Tick, TypeOK, counters
<1>2. ASSUME NEW k \in Keys
      PROVE  Mapped'[k] = IF now' >= Mapped[k].lapse THEN NoPromise ELSE Mapped[k]
  <2>1. CASE Binding(k)
    <3>1. Lapse(promised[k].expiresAt) \in Nat
      BY <2>1, BindsWhileLive DEF Binding
    <3>2. Mapped[k] = At(promised[k], Standing(k))
      BY <2>1 DEF AllStand
    <3>3. Mapped[k].lapse = Lapse(promised[k].expiresAt)
      BY <3>2 DEF At
    <3>4. Binding(k)' <=> ~(now' >= Lapse(promised[k].expiresAt))
      BY <1>1, <2>1, <3>1 DEF Binding
    <3>5. Standing(k)' = Standing(k)
      BY <1>1 DEF Standing, Flushed
    <3>6. Mapped'[k] = IF Binding(k)' THEN At(promised[k], Standing(k)) ELSE NoPromise
      BY <1>1, <3>5 DEF AllStand
    <3> QED  BY <3>2, <3>3, <3>4, <3>6, Zenon
  <2>2. CASE ~Binding(k)
    <3>1. ~Binding(k)'
      BY <1>1, <2>2, BindsWhileLive DEF Binding
    <3>2. Mapped[k] = NoPromise /\ Mapped'[k] = NoPromise
      BY <2>2, <3>1 DEF AllStand
    <3> QED  BY <3>2
  <2> QED  BY <2>1, <2>2
<1>3. Contract!Advance
  BY <1>1, <1>2 DEF Contract!Advance, Contract!NoPromise, NoPromise, Mapped
<1> QED  BY <1>3 DEF Contract!CNext

\* A crash ends exactly the promises that are not durable.
LEMMA RestartCrashes ==
  ASSUME TypeOK, AllStand, AllStand', Restart
  PROVE  Contract!CNext
<1>1. /\ UNCHANGED <<now, db>> /\ restarts' = restarts + 1
      /\ promised' = Restrict(promised, Durable)
  BY DEF Restart
<1>2. \A k : k \in DOMAIN promised' <=> k \in Durable
  BY <1>1 DEF Restrict
<1>3. \A k \in DOMAIN promised' : k \in DOMAIN promised /\ promised'[k] = promised[k]
  BY <1>1 DEF Restrict, Durable
<1>4. ASSUME NEW k \in Keys
      PROVE  Mapped'[k] = IF Mapped[k].stands = "durable" THEN Mapped[k] ELSE NoPromise
  <2>1. CASE Binding(k)
    <3>1. /\ k \in DOMAIN promised /\ LiveAt(promised[k].expiresAt, now)
          /\ promised[k].value.mode \in {"sync", "async", "memory"}
      BY <2>1, BindsWhileLive DEF Binding
    <3>2. Mapped[k] = At(promised[k], Standing(k)) /\ Mapped[k].stands = Standing(k)
      BY <2>1 DEF AllStand, At
    <3>3. k \in Durable <=> Standing(k) = "durable"
      BY <3>1 DEF Durable, Standing, Flushed, LiveAt
    <3>4. CASE Standing(k) = "durable"
      <4>1. k \in DOMAIN promised' /\ promised'[k] = promised[k]
        BY <1>2, <1>3, <3>3, <3>4
      <4>2. Binding(k)' /\ Standing(k)' = Standing(k)
        BY <1>1, <2>1, <4>1 DEF Binding, Standing, Flushed
      <4>3. Mapped'[k] = Mapped[k]
        BY <3>2, <4>1, <4>2 DEF AllStand
      <4> QED  BY <3>2, <3>4, <4>3
    <3>5. CASE Standing(k) # "durable"
      <4>1. Mapped'[k] = NoPromise
        BY <1>2, <3>3, <3>5 DEF AllStand, Binding
      <4> QED  BY <3>2, <3>5, <4>1
    <3> QED  BY <3>4, <3>5
  <2>2. CASE ~Binding(k)
    <3>1. ~Binding(k)'
      BY <1>1, <1>3, <2>2 DEF Binding
    <3>2. Mapped[k] = NoPromise /\ Mapped'[k] = NoPromise
      BY <2>2, <3>1 DEF AllStand
    <3> QED  BY <3>2
  <2> QED  BY <2>1, <2>2
<1>5. Contract!Crash
  BY <1>1, <1>4 DEF Contract!Crash, Contract!NoPromise, NoPromise, Mapped
<1> QED  BY <1>5 DEF Contract!CNext

\* Every step of the store is a step of the contract.
LEMMA StoreStep ==
  ASSUME OneFlusher, TypeOK, ClocksAgree, AloneKept, Settled, AllStand, AllStand', TypeOK',
         [Next]_vars
  PROVE  Contract!CNext
<1>1. CASE \E w \in Writers : PutMark(w)
  BY <1>1, MarkAcknowledges
<1>2. CASE \E f \in Flushers : FlushCommit(f)
  BY <1>2, CommitPersists
<1>3. CASE Tick \/ Restart
  BY <1>3, TickAdvances, RestartCrashes
<1>4. UNCHANGED now \/ Tick
  BY WritesClock
<1>5. UNCHANGED restarts \/ Restart
  BY WritesRestarts
<1> QED  BY <1>1, <1>2, <1>3, <1>4, <1>5, OthersWithdraw

\* With a single flush job, the cached store implements the contract of its
\* commit modes: every interleaving of writes, reads, flushes, evictions,
\* sweeps, failures and restarts looks to the clients like promises that are
\* made where their mode says, become durable, are withdrawn, lapse in time, or
\* end in a crash exactly when they are not durable.
THEOREM StoreImplements ==
  ASSUME OneFlusher
  PROVE  Spec => ImplementsContract
<1>1. Init => Settled /\ Contract!CInit
  <2> SUFFICES ASSUME Init  PROVE Settled /\ Contract!CInit
    OBVIOUS
  <2>1. Settled
    BY DEF Init, Settled, EmptyMap
  <2>2. \A k \in Keys : ~Binding(k)
    BY DEF Init, EmptyMap, Binding
  <2>3. Mapped = [k \in Keys |-> NoPromise]
    BY <2>2, Zenon DEF Mapped
  <2>4. Contract!CInit
    BY <2>3 DEF Init, Contract!CInit, Contract!NoPromise, NoPromise, Mapped
  <2> QED  BY <2>1, <2>4
<1>2. TypeOK /\ ClocksAgree /\ IdsUsed /\ AloneKept /\ Settled /\ [Next]_vars => Settled'
  BY SettledStep
<1>3. /\ TypeOK /\ ClocksAgree /\ AloneKept /\ Settled /\ AllStand /\ AllStand' /\ TypeOK'
      /\ [Next]_vars
      => [Contract!CNext]_(Contract!cvars)
  BY StoreStep
<1>4. Spec => [](FlushShape /\ AsyncKept)
  BY AsyncInvariant
<1> QED  BY <1>1, <1>2, <1>3, <1>4, ContractInvariant, MappedStands, PTL
            DEF Spec, ImplementsContract, Contract!CSpec

---------------------------------------------------------------------------
(* The row phase of the eviction leaves a row.                             *)

\* Unless another job has taken rows, the batch is smaller than the table, and
\* once it is selected a row outside it stays.
RowsLeft ==
  thinned = {} =>
    /\ ev.pc = "rowSelect" => ev.batch < Cardinality(DOMAIN db)
    /\ ev.pc = "rowDelete" => DOMAIN db \ DOMAIN ev.victims # {}

\* During the row phase its own DELETE takes rows, and what takes others is noted.
LEMMA RowsGrow ==
  ASSUME TypeOK, [Next]_vars, ev.pc \in {"rowSelect", "rowDelete"}
  PROVE  DOMAIN db \subseteq DOMAIN db' \/ EvictRowDelete \/ thinned' # {}
<1>1. CASE UNCHANGED db
  BY <1>1
<1>2. CASE \E w \in Writers : PutExec(w) \/ PutFailLate(w)
  BY <1>2 DEF PutExec, PutFailLate, Upsert
<1>3. CASE \E f \in Flushers : FlushCommit(f)
  BY <1>3 DEF FlushCommit, Overlay
<1>4. CASE \E k \in Keys : EvictVolDelete(k)
  BY <1>4 DEF EvictVolDelete
<1>5. ASSUME NEW S, db' = Without(db, S), Thin(S)
      PROVE  DOMAIN db \subseteq DOMAIN db' \/ thinned' # {}
  BY <1>5 DEF Thin, Without, Restrict
<1>6. CASE SweepDelete
  BY <1>5, <1>6 DEF SweepDelete
<1>7. CASE \E r \in Readers : LazyDelete(r)
  BY <1>5, <1>7 DEF LazyDelete
<1> QED  BY <1>1, <1>2, <1>3, <1>4, <1>6, <1>7, WritesDb

\* What is noted stays so until the eviction counts again.
LEMMA ThinnedGrows ==
  ASSUME [Next]_vars
  PROVE  thinned \subseteq thinned' \/ EvictRowCount \/ Restart
<1>1. CASE \E w \in Writers :
             \/ \E k \in Keys, mode \in Modes, len \in Lens : PutBegin(w, k, mode, len)
             \/ Put(w) \/ PutFail(w) \/ PutFailLate(w)
  BY <1>1, Zenon DEF Put, PutBegin, PutExec, PutCache, PutMark, PutFail, PutFailLate
<1>2. CASE \E r \in Readers : (\E k \in Keys : GetRead(r, k)) \/ Get(r) \/ LazyFail(r)
  <2>1. ASSUME NEW r \in Readers, LazyDelete(r)  PROVE thinned \subseteq thinned'
    BY <2>1 DEF LazyDelete, Thin
  <2> QED  BY <1>2, <2>1, Zenon DEF Get, GetRead, GetReturn, GetDrop, LazyFail
<1>3. CASE \E f \in Flushers : Flush(f) \/ FlushFail(f)
  BY <1>3, Zenon DEF Flush, FlushTake, FlushRead, FlushCommit, FlushClear, FlushFail,
                     FlushAbandon
<1>4. CASE Evict \/ EvictFail
  BY <1>4, Zenon DEF Evict, EvictStart, EvictVolCheck, EvictVolSnap, EvictVolDelete,
                     EvictVolDrop, EvictRowCheck, EvictRowSelect, EvictRowDelete,
                     EvictRowDrop, EvictFail, EvictUnchanged
<1>5. CASE Sweep \/ SweepFail
  <2>1. CASE SweepDelete
    BY <2>1 DEF SweepDelete, Thin
  <2> QED  BY <1>5, <2>1, Zenon DEF Sweep, SweepStart, SweepPurge, SweepProbe, SweepFail
<1>6. CASE Restart \/ Tick \/ UNCHANGED vars
  BY <1>6, Zenon DEF vars, Tick
<1> QED  BY <1>1, <1>2, <1>3, <1>4, <1>5, <1>6, Zenon DEF Next

\* A set of n keys of a larger table leaves one out.
LEMMA OneOutside ==
  ASSUME NEW T, IsFiniteSet(T), NEW S, S \subseteq T, NEW n \in Nat, n < Cardinality(T),
         Cardinality(S) = Least(n, Cardinality(T))
  PROVE  T \ S # {}
<1>1. Cardinality(T) \in Nat
  BY FS_CardinalityType
<1>2. Cardinality(S) = n
  BY <1>1 DEF Least
<1> QED  BY <1>1, <1>2

\* Every step keeps a row outside the batch.
LEMMA RowsLeftStep ==
  ASSUME TypeOK, RowsLeft, [Next]_vars
  PROVE  RowsLeft'
<1> SUFFICES ASSUME thinned' = {}  PROVE RowsLeft'
  BY DEF RowsLeft
<1>0. IsFiniteSet(DOMAIN db) /\ IsFiniteSet(DOMAIN db') /\ ev.batch \in Nat
  <2>1. TypeOK'
    BY NextType
  <2>2. DOMAIN db \subseteq Keys /\ DOMAIN db' \subseteq Keys
    BY <2>1 DEF TypeOK, IsMap
  <2> QED  BY <2>2, SetsAssumption, FS_Subset DEF TypeOK, IsEvictCall
<1>1. thinned = {} \/ EvictRowCount \/ Restart
  BY ThinnedGrows
<1>11. (EvictRowCount => ev.pc = "rowCount") /\ (Restart => ev'.pc = "idle")
  BY DEF EvictRowCount, Restart, IdleEvict, BetweenBatches, EvictAt
<1>2. CASE UNCHANGED ev /\ ev.pc \notin {"rowSelect", "rowDelete"}
  BY <1>1, <1>2 DEF RowsLeft
<1>3. CASE UNCHANGED ev /\ ev.pc \in {"rowSelect", "rowDelete"} /\ DOMAIN db \subseteq DOMAIN db'
  <2>1. Cardinality(DOMAIN db) <= Cardinality(DOMAIN db')
    BY <1>0, <1>3, FS_Subset
  <2>2. Cardinality(DOMAIN db) \in Nat /\ Cardinality(DOMAIN db') \in Nat
    BY <1>0, FS_CardinalityType
  <2>3. ev.pc = "rowSelect" => ev.batch < Cardinality(DOMAIN db')
    BY <1>0, <1>1, <1>11, <1>3, <2>1, <2>2 DEF RowsLeft
  <2>4. ev.pc = "rowDelete" => DOMAIN db' \ DOMAIN ev.victims # {}
    BY <1>1, <1>11, <1>3 DEF RowsLeft
  <2> QED  BY <1>1, <1>3, <2>3, <2>4 DEF RowsLeft
<1>4. CASE EvictRowCount
  <2> DEFINE total == Cardinality(DOMAIN db)
             batch == BatchFor(total)
  <2>1. /\ ev' = IF batch <= 0 THEN IdleEvict
                 ELSE EvictAt("rowSelect", ev.run, batch, EmptyMap, {}, 0)
        /\ db' = db
    BY <1>4 DEF EvictRowCount
  <2>2. total \in Nat
    BY <1>0, FS_CardinalityType
  <2>3. batch < total
    <3> HIDE DEF total
    <3> QED  BY <2>2, LimitsAssumption DEF BatchFor
  <2> HIDE DEF batch
  <2>4. CASE ev' = IdleEvict
    BY <1>1, <2>4 DEF RowsLeft, IdleEvict, BetweenBatches, EvictAt
  <2>5. CASE ev' = EvictAt("rowSelect", ev.run, batch, EmptyMap, {}, 0)
    <3>1. ev'.pc = "rowSelect" /\ ev'.batch = batch
      BY <2>5 DEF EvictAt
    <3> QED  BY <1>1, <2>1, <2>3, <3>1 DEF RowsLeft
  <2> QED  BY <2>1, <2>4, <2>5
<1>5. CASE EvictRowSelect /\ DOMAIN db # {}
  <2>1. PICK S \in Oldest(Expiries(db), ev.batch, TextLess) :
            EvictClaim("rowDelete", Restrict(Expiries(db), S))
    BY <1>5 DEF EvictRowSelect
  <2>2. ev.pc = "rowSelect" /\ db' = db
    BY <1>5 DEF EvictRowSelect
  <2>3. DOMAIN Expiries(db) = DOMAIN db
    BY DEF Expiries
  <2>4. S \subseteq DOMAIN db /\ Cardinality(S) = Least(ev.batch, Cardinality(DOMAIN db))
    BY <2>1, <2>3 DEF Oldest
  <2>6. DOMAIN Restrict(Expiries(db), S) = S
    BY DEF Restrict
  <2>7. ev'.pc = "rowDelete" /\ ev'.victims = Restrict(Expiries(db), S)
    BY <2>1 DEF EvictClaim, EvictAt
  <2>8. ev.batch < Cardinality(DOMAIN db)
    BY <1>1, <1>11, <2>2, <2>7 DEF RowsLeft
  <2>5. DOMAIN db \ S # {}
    BY <1>0, <2>4, <2>8, OneOutside
  <2> QED  BY <1>1, <2>2, <2>5, <2>6, <2>7 DEF RowsLeft
<1>6. CASE EvictRowSelect /\ DOMAIN db = {}
  BY <1>1, <1>6 DEF EvictRowSelect, RowsLeft, IdleEvict, BetweenBatches, EvictAt
<1>7. CASE EvictRowDelete
  <2>1. PICK chunk \in Oldest(Restrict(ev.victims, ev.todo), MaxDeleteParams, TextLess) :
          /\ db' = Without(db, chunk)
          /\ ev' = EvictAt(IF ev.todo = chunk THEN "rowDrop" ELSE "rowDelete",
                           ev.run, ev.batch, ev.victims, ev.todo \ chunk,
                           ev.removed + Cardinality(chunk \cap DOMAIN db))
    BY <1>7 DEF EvictRowDelete
  <2>2. chunk \subseteq DOMAIN ev.victims
    BY <2>1 DEF Oldest, Restrict, TypeOK, IsEvictCall
  <2>3. ev'.victims = ev.victims /\ ev'.pc \in {"rowDrop", "rowDelete"}
    BY <2>1 DEF EvictAt
  <2>4. DOMAIN db \ DOMAIN ev.victims # {}
    BY <1>7 DEF EvictRowDelete, EvictUnchanged, RowsLeft
  <2>5. DOMAIN db' = DOMAIN db \ chunk
    BY <2>1 DEF Without, Restrict
  <2> QED  BY <1>1, <2>2, <2>3, <2>4, <2>5 DEF RowsLeft
<1>8. CASE Restart \/ EvictFail
  <2>1. ev' = IdleEvict
    BY <1>8 DEF Restart, EvictFail
  <2> QED  BY <1>1, <2>1 DEF RowsLeft, IdleEvict, BetweenBatches, EvictAt
<1>9. CASE EvictStart \/ EvictVolCheck \/ EvictVolDrop \/ EvictRowCheck \/ EvictRowDrop
  <2>1. ev'.pc \notin {"rowSelect", "rowDelete"}
    <3>1. ev'.pc \in {"idle", "volCheck", "volSnap", "rowCheck", "rowCount"}
      BY <1>9 DEF EvictStart, EvictVolCheck, EvictVolDrop, EvictRowCheck, EvictRowDrop,
                  RowPhase, IdleEvict, BetweenBatches, EvictAt
    <3> QED  BY <3>1
  <2> QED  BY <1>1, <2>1 DEF RowsLeft
<1>10. CASE EvictVolSnap \/ \E k \in Keys : EvictVolDelete(k)
  <2>1. CASE EvictVolSnap
    <3>1. ev' = RowPhase \/ \E victims : EvictClaim("volDelete", victims)
      BY <2>1, Zenon DEF EvictVolSnap
    <3>2. \A pc, run, batch, victims, todo, removed :
             EvictAt(pc, run, batch, victims, todo, removed).pc = pc
      BY DEF EvictAt
    <3>3. ASSUME NEW victims, EvictClaim("volDelete", victims)  PROVE ev'.pc = "volDelete"
      <4>1. ev' = EvictAt("volDelete", ev.run, ev.batch, victims, DOMAIN victims, 0)
        BY <3>3, Zenon DEF EvictClaim
      <4> QED  BY <3>2, <4>1
    <3>4. RowPhase.pc = "rowCheck"
      BY DEF RowPhase, BetweenBatches, EvictAt
    <3> QED  BY <1>1, <3>1, <3>3, <3>4 DEF RowsLeft
  <2>2. CASE \E k \in Keys : EvictVolDelete(k)
    <3>1. ev'.pc \in {"volDrop", "volDelete"}
      BY <2>2 DEF EvictVolDelete, EvictAt
    <3> QED  BY <1>1, <3>1 DEF RowsLeft
  <2> QED  BY <1>10, <2>1, <2>2
<1> QED  BY <1>2, <1>3, <1>4, <1>5, <1>6, <1>7, <1>8, <1>9, <1>10, WritesEvict, RowsGrow
      DEF RowsLeft

\* The row that stays is in the table after the DELETE as well.
LEMMA DeleteLeavesOne ==
  ASSUME TypeOK, RowsLeft, [Next]_vars, ev.pc = "rowDelete", ev' # ev, thinned = {}
  PROVE  DOMAIN db' # {}
<1>1. DOMAIN db \ DOMAIN ev.victims # {}
  BY DEF RowsLeft
<1>2. CASE DOMAIN db \subseteq DOMAIN db'
  BY <1>1, <1>2
<1>3. CASE EvictRowDelete
  <2>1. PICK chunk : db' = Without(db, chunk) /\ chunk \subseteq DOMAIN Restrict(ev.victims, ev.todo)
    BY <1>3 DEF EvictRowDelete, Oldest
  <2>2. chunk \subseteq DOMAIN ev.victims
    BY <2>1 DEF TypeOK, IsEvictCall, Restrict
  <2> QED  BY <1>1, <2>1, <2>2 DEF Without, Restrict
<1>4. CASE thinned' # {}
  <2>1. EvictRowDelete \/ EvictFail \/ Restart
    BY WritesEvict DEF EvictStart, EvictVolCheck, EvictVolSnap, EvictVolDelete, EvictVolDrop,
                       EvictRowCheck, EvictRowCount, EvictRowSelect, EvictRowDrop
  <2>2. thinned' = {}
    BY <2>1, Zenon DEF EvictRowDelete, EvictFail, Restart, EvictUnchanged
  <2> QED  BY <1>4, <2>2
<1> QED  BY <1>2, <1>3, <1>4, RowsGrow

\* "Never fully empty the table" (store.go, evictOldest): whatever is written,
\* flushed, read or swept between the count, the SELECT and the DELETEs, a DELETE
\* of the row phase leaves a row unless a lazy delete or the sweep took one.
THEOREM RowPhaseLeaves == Spec => RowPhaseLeavesOne
<1>1. Init => RowsLeft
  BY DEF Init, RowsLeft, IdleEvict, BetweenBatches, EvictAt
<1>2. TypeOK /\ RowsLeft /\ [Next]_vars => RowsLeft'
  BY RowsLeftStep
<1>3. TypeOK /\ RowsLeft /\ [Next]_vars =>
        [ev.pc = "rowDelete" /\ ev' # ev /\ thinned = {} => DOMAIN db' # {}]_vars
  BY DeleteLeavesOne
<1> QED  BY <1>1, <1>2, <1>3, TypeCorrect, PTL DEF Spec, RowPhaseLeavesOne

---------------------------------------------------------------------------
(* The shutdown.  As long as nothing has gone wrong with it, the steps of  *)
(* Lifecycle are steps of KVStore, and what they keep is kept: only one    *)
(* flush is in progress at a time, first the background one and then the   *)
(* final one, and from stopJobs on no request is left to mark a key.       *)

OneBackground == \A f, g \in Background : f = g

StoreKept == TypeOK /\ ClocksAgree /\ IdsUsed /\ AloneKept /\ FlushShape /\ AsyncKept

Orderly ==
  /\ ~late
  /\ phase \in {"serving", "draining", "stopping", "flushing", "closing", "exited"}
  /\ phase # "flushing" => fl[Final].pc = "idle"
  /\ phase \notin {"serving", "draining"} =>
        /\ open = {} /\ DOMAIN puts = {}
        /\ \A f \in Background : fl[f].pc = "idle"
  /\ phase \in {"flushing", "closing", "exited"} => dirty = {}

\* Every step of the store keeps it, while no two flushes are in progress.
LEMMA StoreKeptStep == StoreKept /\ OneFlush /\ [Next]_vars => StoreKept'
BY NextType, ClocksStep, IdsStep, ContractStep, FlushShapeStep, AsyncKeptStep DEF StoreKept

\* An empty store owes nothing.
LEMMA StoreKeptInit == Init => StoreKept
<1> SUFFICES ASSUME Init PROVE StoreKept
  OBVIOUS
<1>1. \A f \in Flushers : DOMAIN fl[f].batch = {}
  BY DEF Init, IdleFlush, FlushAt, EmptyMap
<1>2. IdsUsed /\ AloneKept
  BY <1>1 DEF Init, EmptyMap, IdsUsed, AloneKept
<1>3. FlushShape /\ AsyncKept
  BY DEF Init, IdleFlush, FlushAt, EmptyMap, FlushShape, AsyncKept
<1>4. TypeOK
  BY InitType
<1>5. ClocksAgree
  BY DEF Init, ClocksAgree, EmptyMap, IdleSweep
<1> QED  BY <1>2, <1>3, <1>4, <1>5 DEF StoreKept

\* The final flush starts when the background one is over.
LEMMA OrderlyOneFlush ==
  ASSUME OneBackground, Orderly
  PROVE  OneFlush
<1> SUFFICES ASSUME NEW f \in Flushers, NEW g \in Flushers,
                    fl[f].pc # "idle", fl[g].pc # "idle"
             PROVE  f = g
  BY DEF OneFlush
<1>1. CASE phase = "flushing"
  BY <1>1 DEF Orderly, Background
<1>2. CASE phase # "flushing"
  BY <1>2 DEF Orderly, Background, OneBackground
<1> QED  BY <1>1, <1>2

\* Without a flaw, a step of the process is one of the store.
LEMMA OrderlyNext ==
  ASSUME Orderly, LNext, ~flawed'
  PROVE  [Next]_vars
<1>1. ASSUME NEW w \in Writers, Begin(w) \/ Handle(w) \/ HandleFail(w)
      PROVE  Next
  BY <1>1, Zenon DEF Begin, Handle, HandleFail, Next
<1>2. ASSUME NEW f \in Background, Work(f)
      PROVE  Next
  <2>1. f \in Flushers
    BY DEF Background
  <2> QED  BY <1>2, <2>1, Zenon DEF Work, Next
<1>3. ASSUME NEW f \in Background, Linger(f) \/ Cancelled(f)
      PROVE  FALSE
  <2>1. Cancelled(f) => Stopped /\ fl[f].pc = "commit"
    BY Zenon DEF Cancelled, FlushAbandon
  <2>2. Linger(f) => flawed'
    BY Zenon DEF Linger
  <2>3. Stopped => fl[f].pc = "idle"
    BY DEF Stopped, Orderly
  <2> QED  BY <1>3, <2>1, <2>2, <2>3
<1>4. CASE FinalFlush
  <2>1. Flush(Final)
    BY <1>4, Zenon DEF FinalFlush, Flush
  <2> QED  BY <2>1, FinalAssumption, Zenon DEF Next
<1>5. CASE FinalFail
  BY <1>5, Zenon DEF FinalFail
<1>6. CASE LTick
  BY <1>6, Zenon DEF LTick, Next
<1>7. CASE \/ \E w \in Writers : Accept(w)
           \/ Signal \/ Deadline \/ StopJobs \/ FinalReturn \/ Close
  <2>1. UNCHANGED vars
    BY <1>7, Zenon DEF Accept, Signal, Deadline, StopJobs, FinalReturn, Close
  <2> QED  BY <2>1
<1> QED  BY <1>1, <1>2, <1>3, <1>4, <1>5, <1>6, <1>7, Zenon DEF LNext

\* A step of the final flush leaves the others idle.
LEMMA FinalFlushOrderly ==
  ASSUME TypeOK, Orderly, FinalFlush
  PROVE  Orderly'
<1>1. UNCHANGED <<late, open, flawed>> /\ phase \in {"stopping", "flushing"} /\ phase' = "flushing"
  BY Zenon DEF FinalFlush
<1>2. open = {} /\ DOMAIN puts = {} /\ (\A f \in Background : fl[f].pc = "idle") /\ ~late
  BY <1>1 DEF Orderly
<1>3. CASE phase = "stopping"
  <2>1. FlushTake(Final)
    BY <1>3 DEF FinalFlush
  <2>2. dirty' = {} /\ DOMAIN puts' = DOMAIN puts
    BY <2>1 DEF FlushTake, Disturb
  <2>3. \A f \in Background : fl'[f] = fl[f]
    BY <2>1 DEF FlushTake, Background, TypeOK
  <2> QED  BY <1>1, <1>2, <2>2, <2>3 DEF Orderly
<1>4. CASE phase = "flushing"
  <2>1. FlushRead(Final) \/ FlushCommit(Final) \/ \E k \in Keys : FlushClear(Final, k)
    BY <1>4 DEF FinalFlush
  <2>2. dirty' = dirty /\ puts' = puts
    BY <2>1, Zenon DEF FlushRead, FlushCommit, FlushClear, requests
  <2>3. \A f \in Background : fl'[f] = fl[f]
    BY <2>1 DEF FlushRead, FlushCommit, FlushClear, Background, TypeOK
  <2>4. dirty = {}
    BY <1>4 DEF Orderly
  <2> QED  BY <1>1, <1>2, <2>2, <2>3, <2>4 DEF Orderly
<1> QED  BY <1>1, <1>3, <1>4

\* A step of the background flusher leaves the final flush alone.
LEMMA WorkOrderly ==
  ASSUME TypeOK, Orderly, NEW f \in Background, Work(f)
  PROVE  Orderly'
<1>1. phase \in {"serving", "draining"} /\ UNCHANGED <<phase, late, open, flawed>>
  BY Zenon DEF Work
<1>2. FlushTake(f) \/ FlushRead(f) \/ FlushCommit(f) \/ (\E k \in Keys : FlushClear(f, k))
      \/ FlushFail(f)
  BY Zenon DEF Work, Flush
<1>3. \E call : fl' = [fl EXCEPT ![f] = call]
  BY <1>2, Zenon DEF FlushTake, FlushRead, FlushCommit, FlushClear, FlushFail, FlushAbandon
<1>4. fl'[Final] = fl[Final]
  BY <1>3, FinalAssumption DEF Background, TypeOK
<1> QED  BY <1>1, <1>4 DEF Orderly

\* A request is handled before stopJobs.
LEMMA RequestOrderly ==
  ASSUME Orderly, NEW w \in Writers, Accept(w) \/ Begin(w) \/ Handle(w) \/ HandleFail(w)
  PROVE  Orderly'
<1>1. phase \in {"serving", "draining"}
  <2>1. Accept(w) => phase = "serving"
    BY Zenon DEF Accept
  <2>2. Begin(w) => open # {}
    BY Zenon DEF Begin
  <2>3. Handle(w) => DOMAIN puts # {}
    BY DEF Handle, Put, PutExec, PutCache, PutMark
  <2>4. HandleFail(w) => DOMAIN puts # {}
    BY DEF HandleFail, PutFail, PutFailLate
  <2> QED  BY <2>1, <2>2, <2>3, <2>4 DEF Orderly
<1>2. UNCHANGED <<phase, late, flawed, fl>>
  BY Zenon DEF Accept, Begin, Handle, HandleFail, Put, PutBegin, PutExec, PutCache, PutMark,
               PutFail, PutFailLate, vars
<1> QED  BY <1>1, <1>2 DEF Orderly

\* main goes on only when what it waited for is over.
LEMMA MainOrderly ==
  ASSUME Orderly, ~flawed',
         Signal \/ Deadline \/ StopJobs \/ FinalReturn \/ Close \/ LTick
  PROVE  Orderly'
<1>1. CASE Signal
  BY <1>1 DEF Signal, Orderly, vars
<1>2. CASE Deadline
  BY <1>2, Zenon DEF Deadline
<1>3. CASE StopJobs
  <2>1. phase' = "stopping" /\ UNCHANGED <<late, open, fl, puts, dirty>> /\ phase = "draining"
        /\ Drained
    BY <1>3, Zenon DEF StopJobs, vars
  <2>2. \A f \in Background : fl[f].pc = "idle"
    BY <1>3, Zenon DEF StopJobs
  <2>3. open = {} /\ DOMAIN puts = {}
    BY <2>1 DEF Drained, Orderly
  <2> QED  BY <2>1, <2>2, <2>3 DEF Orderly
<1>4. CASE FinalReturn
  <2>1. phase' = "closing" /\ UNCHANGED <<late, open, fl, puts, dirty>>
    BY <1>4, Zenon DEF FinalReturn, vars, requests
  <2>2. \/ phase = "stopping" /\ dirty = {}
        \/ phase = "flushing" /\ fl[Final].pc = "idle"
    BY <1>4, Zenon DEF FinalReturn
  <2> QED  BY <2>1, <2>2 DEF Orderly
<1>5. CASE Close
  BY <1>5 DEF Close, Orderly, vars
<1>6. CASE LTick
  <2>1. UNCHANGED <<phase, late, open, fl, puts, dirty>>
    BY <1>6, Zenon DEF LTick, Tick, requests
  <2> QED  BY <2>1 DEF Orderly
<1> QED  BY <1>1, <1>2, <1>3, <1>4, <1>5, <1>6

\* A flaw is not forgotten, and without one the shutdown stays orderly.
LEMMA OrderlyStep ==
  ASSUME OneBackground, flawed \in BOOLEAN, ~flawed => StoreKept /\ Orderly, [LNext]_lvars
  PROVE  flawed' \in BOOLEAN /\ (~flawed' => StoreKept' /\ Orderly')
<1>1. CASE UNCHANGED lvars
  <2>1. flawed' = flawed /\ UNCHANGED vars /\ UNCHANGED <<phase, late, open>>
    BY <1>1, Zenon DEF lvars
  <2>2. ~flawed => StoreKept'
    BY <2>1, OrderlyOneFlush, StoreKeptStep
  <2>3. ~flawed => Orderly'
    BY <2>1, Zenon DEF Orderly, vars
  <2> QED  BY <2>1, <2>2, <2>3
<1>2. CASE LNext
  <2>1. flawed' \in BOOLEAN /\ (flawed => flawed')
    <3>1. flawed' = flawed \/ flawed' = TRUE \/ StopJobs
      BY <1>2, Zenon DEF LNext, Accept, Begin, Handle, HandleFail, Work, Linger, Cancelled, Signal, Deadline,
                         FinalFlush, FinalFail, FinalReturn, Close, LTick
    <3> QED  BY <3>1, Zenon DEF StopJobs
  <2>2. SUFFICES ASSUME ~flawed'  PROVE StoreKept' /\ Orderly'
    BY <2>1
  <2>3. StoreKept /\ Orderly
    BY <2>1, <2>2
  <2>4. [Next]_vars
    BY <1>2, <2>2, <2>3, OrderlyNext
  <2>5. StoreKept'
    BY <2>3, <2>4, OrderlyOneFlush, StoreKeptStep
  <2>6. TypeOK
    BY <2>3 DEF StoreKept
  <2>7. ASSUME NEW f \in Background, Linger(f) \/ Cancelled(f)
        PROVE  Orderly'
    <3>1. ~Linger(f)
      BY <2>2, Zenon DEF Linger
    <3>2. Cancelled(f) => Stopped /\ fl[f].pc = "commit"
      BY Zenon DEF Cancelled, FlushAbandon
    <3> QED  BY <2>3, <2>7, <3>1, <3>2 DEF Stopped, Orderly
  <2>8. ~FinalFail
    BY <2>2, Zenon DEF FinalFail
  <2>9. Orderly'
    BY <1>2, <2>2, <2>3, <2>6, <2>7, <2>8, FinalFlushOrderly, WorkOrderly, RequestOrderly,
       MainOrderly, Zenon DEF LNext
  <2> QED  BY <2>5, <2>9
<1> QED  BY <1>1, <1>2

\* When all flushes are over and nothing is dirty, what is owed is stored.
LEMMA NothingLost ==
  ASSUME StoreKept, Orderly, phase = "exited"
  PROVE  Lost = {}
<1> SUFFICES ASSUME NEW k \in AloneIn("async"), Unexpired(promised[k])
             PROVE  Stored(k)
  BY DEF Lost
<1>1. dirty = {} /\ \A f \in Flushers : fl[f].pc = "idle"
  BY DEF Orderly, Background
<1>2. \A f \in Flushers : fl[f].keys = {} /\ DOMAIN fl[f].batch = {}
  BY <1>1 DEF StoreKept, FlushShape
<1>3. /\ k \in DOMAIN promised /\ promised[k].alone
      /\ promised[k].value.mode = "async"
  BY DEF AloneIn
<1>4. Owed(k, promised[k].value, promised[k].expiresAt)
  BY <1>3 DEF StoreKept, AsyncKept, Unexpired
<1>5. StoredIn(db, now, k, promised[k].value, promised[k].expiresAt)
  BY <1>1, <1>2, <1>4 DEF Owed
<1> QED  BY <1>5 DEF Stored, StoredIn, Unexpired, RowOf

\* A shutdown within its deadline, whose final flush succeeds and which finds no
\* background flush in progress at stopJobs, leaves every async value that was
\* acknowledged in the table (main.go, run): with one background flusher and
\* any number of requests, keys and failures before the signal.
THEOREM CleanExitKeeps ==
  ASSUME OneBackground
  PROVE  LSpec => []CleanExitStores
<1> DEFINE I == flawed \in BOOLEAN /\ (~flawed => StoreKept /\ Orderly)
<1>1. LInit => I
  <2> SUFFICES ASSUME LInit PROVE StoreKept /\ Orderly /\ flawed \in BOOLEAN
    OBVIOUS
  <2>1. StoreKept
    BY StoreKeptInit DEF LInit
  <2>2. fl[Final].pc = "idle"
    BY FinalAssumption DEF LInit, Init, IdleFlush, FlushAt
  <2> QED  BY <2>1, <2>2 DEF LInit, Orderly
<1>2. I /\ [LNext]_lvars => I'
  BY OrderlyStep
<1>3. I => CleanExitStores
  BY NothingLost DEF CleanExitStores
<1> QED  BY <1>1, <1>2, <1>3, PTL DEF LSpec

===========================================================================
