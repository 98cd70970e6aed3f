------------------------- MODULE SqliteOnlyProofs -------------------------
(***************************************************************************)
(* The store without its memory layer, for every value of the constants.   *)
(***************************************************************************)
EXTENDS SqliteOnly, TimestampsTheory, FiniteSetTheorems

---------------------------------------------------------------------------
(* Maps.                                                                   *)

\* The empty map is a map from anything to anything.
LEMMA EmptyMapType == ASSUME NEW K, NEW V PROVE IsMap(EmptyMap, K, V)
  BY DEF IsMap, EmptyMap

\* An upsert keeps the type of a map.
LEMMA UpsertType ==
  ASSUME NEW K, NEW V, NEW m, IsMap(m, K, V), NEW k \in K, NEW v \in V
  PROVE  IsMap(Upsert(m, k, v), K, V)
  BY DEF IsMap, Upsert

\* So does deleting keys.
LEMMA WithoutType ==
  ASSUME NEW K, NEW V, NEW m, IsMap(m, K, V), NEW S
  PROVE  IsMap(Without(m, S), K, V)
  BY DEF IsMap, Without, Restrict

\* A map of keys has finitely many.
LEMMA RowsFinite ==
  ASSUME NEW m, NEW V, IsMap(m, Keys, V)
  PROVE  IsFiniteSet(DOMAIN m) /\ Cardinality(DOMAIN m) \in Nat
  BY SqliteOnlyAssumption, FS_Subset, FS_CardinalityType DEF IsMap

---------------------------------------------------------------------------
(* Types.                                                                  *)

\* The file has a page for every row, so that the vacuum never takes more
\* pages than there are.
PagesHold == Cardinality(DOMAIN db) <= pages

\* The types and the pages, before any step.
LEMMA InitType == Init => TypeOK /\ PagesHold
<1>1. Cardinality(DOMAIN EmptyMap) = 0
  BY FS_EmptySet DEF EmptyMap
<1> QED  BY <1>1, EmptyMapType DEF Init, TypeOK, PagesHold, IdleEvict, IdleSweep

\* An upsert finds a page or makes one.
LEMMA PagesForType ==
  ASSUME TypeOK, NEW m, IsMap(m, Keys, Row), NEW p, p = PagesFor(m)
  PROVE  p \in Nat /\ Cardinality(DOMAIN m) <= p
  BY RowsFinite DEF PagesFor, TypeOK

\* Deleting rows frees pages and takes none.
LEMMA PagesAfterDelete ==
  ASSUME TypeOK, PagesHold, NEW S, db' = Without(db, S), pages' = pages
  PROVE  PagesHold'
<1>1. DOMAIN db' \subseteq DOMAIN db /\ IsFiniteSet(DOMAIN db)
  BY RowsFinite DEF Without, Restrict, TypeOK
<1>2. Cardinality(DOMAIN db') <= Cardinality(DOMAIN db) /\ Cardinality(DOMAIN db') \in Nat
      /\ Cardinality(DOMAIN db) \in Nat
  BY <1>1, FS_Subset, FS_CardinalityType
<1> QED  BY <1>2 DEF PagesHold, TypeOK

\* The writes keep the types.
LEMMA PutType ==
  ASSUME TypeOK, PagesHold, NEW w \in Writers,
         (\E k \in Keys : PutBegin(w, k)) \/ PutExec(w) \/ PutFail(w) \/ PutFailLate(w)
  PROVE  TypeOK' /\ PagesHold'
<1>1. ASSUME NEW k \in Keys, PutBegin(w, k)
      PROVE  TypeOK' /\ PagesHold'
  <2>1. [key |-> k, row |-> [id |-> writes + 1, expiresAt |-> now + TTL]] \in PutCall
    BY SqliteOnlyAssumption DEF TypeOK, PutCall, Row
  <2>2. IsMap(puts', Writers, PutCall)
    BY <1>1, <2>1, UpsertType DEF PutBegin, TypeOK
  <2> QED  BY <1>1, <2>2 DEF PutBegin, TypeOK, PagesHold
<1>2. CASE PutExec(w)
  <2>1. puts[w] \in PutCall /\ puts[w].key \in Keys /\ puts[w].row \in Row
    BY <1>2 DEF PutExec, TypeOK, IsMap, PutCall
  <2>2. IsMap(db', Keys, Row) /\ IsMap(promised', Keys, Row) /\ IsMap(puts', Writers, PutCall)
    BY <1>2, <2>1, UpsertType, WithoutType DEF PutExec, TypeOK
  <2>3. pages' \in Nat /\ PagesHold'
    BY <1>2, <2>2, PagesForType DEF PutExec, PagesHold
  <2> QED  BY <1>2, <2>2, <2>3 DEF PutExec, TypeOK
<1>3. CASE PutFail(w)
  BY <1>3, WithoutType DEF PutFail, TypeOK, PagesHold
<1>4. CASE PutFailLate(w)
  <2>1. puts[w] \in PutCall /\ puts[w].key \in Keys /\ puts[w].row \in Row
    BY <1>4 DEF PutFailLate, TypeOK, IsMap, PutCall
  <2>2. IsMap(db', Keys, Row) /\ IsMap(promised', Keys, Row) /\ IsMap(puts', Writers, PutCall)
    BY <1>4, <2>1, UpsertType, WithoutType DEF PutFailLate, TypeOK
  <2>3. pages' \in Nat /\ PagesHold'
    BY <1>4, <2>2, PagesForType DEF PutFailLate, PagesHold
  <2> QED  BY <1>4, <2>2, <2>3 DEF PutFailLate, TypeOK
<1> QED  BY <1>1, <1>2, <1>3, <1>4

\* So do the reads.
LEMMA GetType ==
  ASSUME TypeOK, PagesHold, NEW r \in Readers,
         (\E k \in Keys : GetRead(r, k)) \/ GetDecide(r) \/ LazyDelete(r) \/ LazyFail(r)
  PROVE  TypeOK' /\ PagesHold'
<1>1. ASSUME NEW k \in Keys, GetRead(r, k)
      PROVE  TypeOK' /\ PagesHold'
  <2>1. db[k].expiresAt \in Nat
    BY <1>1 DEF GetRead, TypeOK, IsMap, Row
  <2>2. [pc |-> "read", key |-> k, expiresAt |-> Parse(Format(db[k].expiresAt))] \in GetCall
    BY <2>1, ParseFormat DEF GetCall
  <2>3. IsMap(gets', Readers, GetCall)
    BY <1>1, <2>2, UpsertType DEF GetRead, TypeOK
  <2> QED  BY <1>1, <2>3 DEF GetRead, TypeOK, PagesHold
<1>2. CASE GetDecide(r)
  <2>1. gets[r] \in GetCall
    BY <1>2 DEF GetDecide, TypeOK, IsMap
  <2>2. IsMap([gets EXCEPT ![r].pc = "lazy"], Readers, GetCall)
    BY <1>2, <2>1 DEF GetDecide, TypeOK, IsMap, GetCall
  <2>3. IsMap(gets', Readers, GetCall)
    BY <1>2, <2>2, WithoutType DEF GetDecide, TypeOK
  <2> QED  BY <1>2, <2>3 DEF GetDecide, TypeOK, PagesHold
<1>3. CASE LazyDelete(r)
  <2>1. IsMap(db', Keys, Row) /\ IsMap(gets', Readers, GetCall)
    BY <1>3, WithoutType DEF LazyDelete, TypeOK
  <2>2. PagesHold'
    BY <1>3, PagesAfterDelete DEF LazyDelete
  <2> QED  BY <1>3, <2>1, <2>2 DEF LazyDelete, TypeOK
<1>4. CASE LazyFail(r)
  BY <1>4, WithoutType DEF LazyFail, TypeOK, PagesHold
<1> QED  BY <1>1, <1>2, <1>3, <1>4

\* And the sweep.
LEMMA SweepType ==
  ASSUME TypeOK, PagesHold, SweepStart \/ SweepProbe \/ SweepDelete \/ SweepFail
  PROVE  TypeOK' /\ PagesHold'
<1> USE DEF SweepUnchanged
<1>1. CASE SweepStart \/ SweepProbe \/ SweepFail
  BY <1>1 DEF SweepStart, SweepProbe, SweepFail, IdleSweep, TypeOK, PagesHold
<1>2. CASE SweepDelete
  <2>1. PICK S : db' = Without(db, S)
    BY <1>2 DEF SweepDelete
  <2>2. IsMap(db', Keys, Row) /\ PagesHold'
    BY <1>2, <2>1, WithoutType, PagesAfterDelete DEF SweepDelete, TypeOK
  <2> QED  BY <1>2, <2>2 DEF SweepDelete, IdleSweep, TypeOK
<1> QED  BY <1>1, <1>2

\* And the eviction, whose LIMIT is never negative and whose vacuum leaves a
\* page for every row.
LEMMA EvictType ==
  ASSUME TypeOK, PagesHold,
         EvictStart \/ EvictSize \/ EvictCount \/ EvictDelete \/ Vacuum \/ EvictFail
  PROVE  TypeOK' /\ PagesHold'
<1> USE DEF EvictUnchanged
<1>0. Cardinality(DOMAIN db) \in Nat /\ IsFiniteSet(DOMAIN db)
  BY RowsFinite DEF TypeOK
<1>1. CASE EvictStart \/ EvictSize \/ EvictFail
  BY <1>1 DEF EvictStart, EvictSize, EvictFail, Return, IdleEvict, TypeOK, PagesHold
<1>2. CASE EvictCount
  <2> DEFINE batch == BatchFor(Cardinality(DOMAIN db))
  <2>1. batch \in Int
    BY <1>0, SqliteOnlyAssumption DEF BatchFor
  <2>2. ev' = IF batch <= 0 THEN Return ELSE [ev EXCEPT !.pc = "delete", !.batch = batch]
    BY <1>2 DEF EvictCount
  <2> HIDE DEF batch
  <2>3. ev' \in [pc : {"idle", "size", "count", "delete", "vacuum"},
                 run : Nat, batch : Nat, deleted : Nat]
    <3>1. CASE batch <= 0
      BY <2>2, <3>1 DEF Return, IdleEvict, TypeOK
    <3>2. CASE ~(batch <= 0)
      <4>1. batch \in Nat
        BY <2>1, <3>2
      <4> QED  BY <2>2, <3>2, <4>1 DEF TypeOK
    <3> QED  BY <3>1, <3>2
  <2> QED  BY <1>2, <2>3 DEF EvictCount, TypeOK, PagesHold
<1>3. CASE EvictDelete
  <2>1. PICK S \in Victims :
          /\ db' = Without(db, S) /\ promised' = Without(promised, S)
          /\ ev' = IF S = {} THEN Return
                   ELSE [pc |-> "size", run |-> ev.run + 1, batch |-> 0,
                         deleted |-> ev.deleted + Cardinality(S)]
    BY <1>3 DEF EvictDelete
  <2>2. S \subseteq DOMAIN db
    BY DEF Victims, Oldest, Expiries
  <2>3. Cardinality(S) \in Nat
    BY <1>0, <2>2, FS_Subset, FS_CardinalityType
  <2>4. IsMap(db', Keys, Row) /\ IsMap(promised', Keys, Row) /\ PagesHold'
    BY <1>3, <2>1, WithoutType, PagesAfterDelete DEF EvictDelete, TypeOK
  <2>5. ev' \in [pc : {"idle", "size", "count", "delete", "vacuum"},
                 run : Nat, batch : Nat, deleted : Nat]
    BY <2>1, <2>3 DEF Return, IdleEvict, TypeOK
  <2> QED  BY <1>3, <2>4, <2>5 DEF EvictDelete, TypeOK
<1>4. CASE Vacuum
  <2>1. pages' \in Nat /\ Cardinality(DOMAIN db) <= pages'
    BY <1>0, <1>4, SqliteOnlyAssumption DEF Vacuum, Least, PagesHold, TypeOK
  <2> QED  BY <1>4, <2>1 DEF Vacuum, IdleEvict, TypeOK, PagesHold
<1> QED  BY <1>1, <1>2, <1>3, <1>4

\* Every step keeps the types and the pages.
LEMMA NextType == TypeOK /\ PagesHold /\ [Next]_vars => TypeOK' /\ PagesHold'
<1> SUFFICES ASSUME TypeOK, PagesHold, [Next]_vars  PROVE TypeOK' /\ PagesHold'
  OBVIOUS
<1>1. CASE Restart
  BY <1>1, EmptyMapType DEF Restart, IdleEvict, IdleSweep, TypeOK, PagesHold
<1>2. CASE Tick
  BY <1>2, SqliteOnlyAssumption DEF Tick, TypeOK, PagesHold
<1>3. CASE UNCHANGED vars
  BY <1>3 DEF vars, TypeOK, PagesHold
<1> QED  BY <1>1, <1>2, <1>3, PutType, GetType, SweepType, EvictType DEF Next

\* Every reachable state is well typed, and the file has a page for every row.
THEOREM TypeCorrect == Spec => [](TypeOK /\ PagesHold)
  BY InitType, NextType, PTL DEF Spec

---------------------------------------------------------------------------
(* The eviction takes the rows that expire first.                          *)

OldestFirstStep ==
  EvictStep =>
     \A x \in DOMAIN db \ DOMAIN db', y \in DOMAIN db' :
        Sec(db[x].expiresAt) <= Sec(db[y].expiresAt)

\* "Oldest-expiring rows are evicted first": an eviction never takes a row and
\* keeps one that expires in an earlier second, although it selects by text.
THEOREM EvictsOldestFirst == Spec => OldestFirst
<1>1. TypeOK /\ [Next]_vars => OldestFirstStep
  <2> SUFFICES ASSUME TypeOK, [Next]_vars, EvictStep,
                      NEW x \in DOMAIN db \ DOMAIN db', NEW y \in DOMAIN db'
               PROVE  Sec(db[x].expiresAt) <= Sec(db[y].expiresAt)
    BY DEF OldestFirstStep
  <2>1. EvictDelete
    <3>1. ev.pc = "delete" /\ ev' # ev /\ db' # db
      BY DEF EvictStep
    <3>2. ~ \E w \in Writers : (\E k \in Keys : PutBegin(w, k)) \/ PutExec(w) \/ PutFail(w) \/ PutFailLate(w)
      BY <3>1 DEF PutBegin, PutExec, PutFail, PutFailLate
    <3>3. ~ \E r \in Readers : (\E k \in Keys : GetRead(r, k)) \/ GetDecide(r) \/ LazyDelete(r) \/ LazyFail(r)
      BY <3>1 DEF GetRead, GetDecide, LazyDelete, LazyFail
    <3>4. ~(SweepStart \/ SweepProbe \/ SweepDelete \/ SweepFail)
      BY <3>1 DEF SweepStart, SweepProbe, SweepDelete, SweepFail, SweepUnchanged
    <3>5. ~(EvictStart \/ EvictSize \/ EvictCount \/ Vacuum \/ EvictFail)
      BY <3>1 DEF EvictStart, EvictSize, EvictCount, Vacuum, EvictFail
    <3>6. ~(Restart \/ Tick \/ UNCHANGED vars)
      BY <3>1 DEF Restart, Tick, vars
    <3> QED  BY <3>2, <3>3, <3>4, <3>5, <3>6 DEF Next
  <2>2. PICK S \in Victims : db' = Without(db, S)
    BY <2>1 DEF EvictDelete
  <2>3. x \in S /\ y \in DOMAIN db \ S
    BY <2>2 DEF Without, Restrict
  <2>4. ~TextLess(db[y].expiresAt, db[x].expiresAt)
    BY <2>3 DEF Victims, Oldest, Expiries
  <2>5. db[x].expiresAt \in Nat /\ db[y].expiresAt \in Nat
    BY <2>3 DEF TypeOK, IsMap, Row
  <2>6. Sec(db[x].expiresAt) \in Nat /\ Sec(db[y].expiresAt) \in Nat
    BY <2>5, TimeSplit
  <2> QED  BY <2>4, <2>5, <2>6, EarlierSecond
<1>2. TypeOK /\ [Next]_vars => [OldestFirstStep]_vars
  BY <1>1
<1> QED  BY <1>2, TypeCorrect, PTL DEF Spec, OldestFirst, OldestFirstStep

---------------------------------------------------------------------------
(* Acknowledged writes.                                                    *)

\* The sweep acts on a moment that has passed, and a lazy delete on an expiry
\* that has.
Clocks ==
  /\ sw.at <= now
  /\ \A r \in DOMAIN gets : gets[r].pc = "lazy" => After(now, gets[r].expiresAt)

\* A Get of a promised key has read the promised row, as long as it lasts.
ReadersAgree ==
  \A k \in DOMAIN promised, r \in DOMAIN gets :
     LiveAt(promised[k].expiresAt, now) /\ gets[r].key = k
       => gets[r].expiresAt = promised[k].expiresAt

Acknowledged == Clocks /\ AcknowledgedStored /\ ReadersAgree

\* Everything that a read or a delete needs to know of the types.
LEMMA Times ==
  ASSUME TypeOK
  PROVE  /\ now \in Nat /\ sw.at \in Nat
         /\ \A k \in DOMAIN db : db[k].expiresAt \in Nat
         /\ \A k \in DOMAIN promised : promised[k].expiresAt \in Nat
         /\ \A r \in DOMAIN gets : gets[r] \in GetCall /\ gets[r].expiresAt \in Nat
  BY DEF TypeOK, IsMap, Row, GetCall

\* A step that makes no promise and no read, and takes only rows that no promise
\* or no time protects, keeps the rest.
LEMMA StillAcknowledged ==
  ASSUME TypeOK, TypeOK', Acknowledged, now <= now', Clocks',
         \A k \in DOMAIN promised' : k \in DOMAIN promised /\ promised'[k] = promised[k],
         \A k \in DOMAIN promised' :
            k \in DOMAIN db /\ db[k] = promised[k] /\ LiveAt(promised[k].expiresAt, now)
              => k \in DOMAIN db' /\ db'[k] = db[k],
         \A r \in DOMAIN gets' :
            /\ r \in DOMAIN gets /\ gets'[r].key = gets[r].key
            /\ gets'[r].expiresAt = gets[r].expiresAt
  PROVE  Acknowledged'
<1>1. ASSUME NEW k \in DOMAIN promised', LiveAt(promised'[k].expiresAt, now')
      PROVE  k \in DOMAIN promised /\ promised'[k] = promised[k] /\ LiveAt(promised[k].expiresAt, now)
  <2>1. k \in DOMAIN promised /\ promised'[k] = promised[k]
    OBVIOUS
  <2>2. promised[k].expiresAt \in Nat /\ now \in Nat /\ now' \in Nat
    BY <2>1, Times DEF TypeOK
  <2> QED  BY <1>1, <2>1, <2>2, LiveEarlier
<1>2. AcknowledgedStored'
  <2> SUFFICES ASSUME NEW k \in DOMAIN promised', LiveAt(promised'[k].expiresAt, now')
               PROVE  k \in DOMAIN db' /\ db'[k] = promised'[k]
    BY DEF AcknowledgedStored, LiveAt
  <2>1. k \in DOMAIN promised /\ promised'[k] = promised[k] /\ LiveAt(promised[k].expiresAt, now)
    BY <1>1
  <2>2. k \in DOMAIN db /\ db[k] = promised[k]
    BY <2>1 DEF Acknowledged, AcknowledgedStored, LiveAt
  <2> QED  BY <2>1, <2>2
<1>3. ReadersAgree'
  <2> SUFFICES ASSUME NEW k \in DOMAIN promised', NEW r \in DOMAIN gets',
                      LiveAt(promised'[k].expiresAt, now'), gets'[r].key = k
               PROVE  gets'[r].expiresAt = promised'[k].expiresAt
    BY DEF ReadersAgree
  <2>1. k \in DOMAIN promised /\ promised'[k] = promised[k] /\ LiveAt(promised[k].expiresAt, now)
    BY <1>1
  <2> QED  BY <2>1 DEF Acknowledged, ReadersAgree
<1> QED  BY <1>2, <1>3 DEF Acknowledged

\* Deleting keys from the promises takes promises and makes none.
LEMMA PromisesWithout ==
  ASSUME NEW S, promised' = Without(promised, S)
  PROVE  \A k \in DOMAIN promised' :
            k \in DOMAIN promised /\ promised'[k] = promised[k] /\ k \notin S
  BY DEF Without, Restrict

\* The calls that remain after one has ended.
LEMMA GetsWithout ==
  ASSUME NEW r, gets' = Without(gets, {r})
  PROVE  \A x \in DOMAIN gets' : x \in DOMAIN gets /\ gets'[x] = gets[x]
  BY DEF Without, Restrict

\* The rows that remain after a delete.
LEMMA RowsWithout ==
  ASSUME NEW S, db' = Without(db, S), NEW k \in DOMAIN db, k \notin S
  PROVE  k \in DOMAIN db' /\ db'[k] = db[k]
  BY DEF Without, Restrict

\* The upsert of a write keeps every other promise.
LEMMA PutAcknowledged ==
  ASSUME TypeOK, TypeOK', Acknowledged, NEW w \in Writers,
         (\E k \in Keys : PutBegin(w, k)) \/ PutExec(w) \/ PutFail(w) \/ PutFailLate(w)
  PROVE  Acknowledged'
<1>0. now' = now /\ gets' = gets /\ sw' = sw /\ Clocks' /\ now <= now'
  <2>1. UNCHANGED <<now, gets, sw>>
    BY Zenon DEF PutBegin, PutExec, PutFail, PutFailLate
  <2> QED  BY <2>1, Times DEF Acknowledged, Clocks
<1>1. CASE (\E k \in Keys : PutBegin(w, k)) \/ PutFail(w)
  <2>1. UNCHANGED <<db, promised>>
    BY <1>1 DEF PutBegin, PutFail
  <2> QED  BY <1>0, <2>1, StillAcknowledged
<1>2. ASSUME db' = Upsert(db, puts[w].key, puts[w].row),
             promised' = Without(promised, {puts[w].key})
      PROVE  Acknowledged'
  <2>1. \A k \in DOMAIN promised' :
           k \in DOMAIN promised /\ promised'[k] = promised[k] /\ k # puts[w].key
    BY <1>2, PromisesWithout
  <2>2. \A k \in DOMAIN promised' : k \in DOMAIN db => k \in DOMAIN db' /\ db'[k] = db[k]
    BY <1>2, <2>1 DEF Upsert
  <2> QED  BY <1>0, <2>1, <2>2, StillAcknowledged
<1>3. CASE PutFailLate(w)
  BY <1>2, <1>3 DEF PutFailLate
<1>4. CASE PutExec(w)
  <2> DEFINE k == puts[w].key
  <2>1. CASE ReaderHas(k)
    BY <1>2, <1>4, <2>1 DEF PutExec
  <2>2. CASE ~ReaderHas(k)
    <3>1. db' = Upsert(db, k, puts[w].row) /\ promised' = Upsert(promised, k, puts[w].row)
      BY <1>4, <2>2 DEF PutExec
    <3>2. AcknowledgedStored'
      BY <1>0, <3>1 DEF Upsert, Acknowledged, AcknowledgedStored
    <3>3. ReadersAgree'
      <4> SUFFICES ASSUME NEW x \in DOMAIN promised', NEW r \in DOMAIN gets,
                          LiveAt(promised'[x].expiresAt, now), gets[r].key = x
                   PROVE  gets[r].expiresAt = promised'[x].expiresAt
        BY <1>0 DEF ReadersAgree
      <4>1. x # k
        BY <2>2 DEF ReaderHas
      <4>2. x \in DOMAIN promised /\ promised'[x] = promised[x]
        BY <3>1, <4>1 DEF Upsert
      <4> QED  BY <4>2 DEF Acknowledged, ReadersAgree
    <3> QED  BY <1>0, <3>2, <3>3 DEF Acknowledged
  <2> QED  BY <2>1, <2>2
<1> QED  BY <1>1, <1>3, <1>4

\* A Get deletes no row that a promise protects: it has read the expiry of that
\* row, and the clock has passed it.
LEMMA GetAcknowledged ==
  ASSUME TypeOK, TypeOK', Acknowledged, NEW r \in Readers,
         (\E k \in Keys : GetRead(r, k)) \/ GetDecide(r) \/ LazyDelete(r) \/ LazyFail(r)
  PROVE  Acknowledged'
<1>0. UNCHANGED <<now, promised, sw>> /\ now <= now' /\ sw'.at <= now'
  <2>1. UNCHANGED <<now, promised, sw>>
    BY Zenon DEF GetRead, GetDecide, LazyDelete, LazyFail
  <2> QED  BY <2>1, Times DEF Acknowledged, Clocks
<1>1. ASSUME NEW k \in Keys, GetRead(r, k)
      PROVE  Acknowledged'
  <2>1. /\ gets' = Upsert(gets, r, [pc |-> "read", key |-> k, expiresAt |-> Parse(Format(db[k].expiresAt))])
        /\ k \in DOMAIN db /\ UNCHANGED db
    BY <1>1 DEF GetRead
  <2>2. Parse(Format(db[k].expiresAt)) = db[k].expiresAt
    BY <2>1, Times, ParseFormat
  <2>3. \A x \in DOMAIN gets' :
           \/ x \in DOMAIN gets /\ gets'[x] = gets[x]
           \/ gets'[x].pc = "read" /\ gets'[x].key = k /\ gets'[x].expiresAt = db[k].expiresAt
    BY <2>1, <2>2 DEF Upsert
  <2>4. Clocks'
    BY <1>0, <2>3 DEF Acknowledged, Clocks
  <2>5. AcknowledgedStored'
    BY <1>0, <2>1 DEF Acknowledged, AcknowledgedStored
  <2>6. ReadersAgree'
    <3> SUFFICES ASSUME NEW x \in DOMAIN promised, NEW y \in DOMAIN gets',
                        LiveAt(promised[x].expiresAt, now), gets'[y].key = x
                 PROVE  gets'[y].expiresAt = promised[x].expiresAt
      BY <1>0 DEF ReadersAgree
    <3>1. x \in DOMAIN db /\ db[x] = promised[x]
      BY DEF Acknowledged, AcknowledgedStored, LiveAt
    <3> QED  BY <2>3, <3>1 DEF Acknowledged, ReadersAgree
  <2> QED  BY <2>4, <2>5, <2>6 DEF Acknowledged
<1>2. CASE GetDecide(r)
  <2>1. CASE PastExpiry(gets[r].expiresAt)
    <3>1. gets' = [gets EXCEPT ![r].pc = "lazy"] /\ UNCHANGED db /\ r \in DOMAIN gets
      BY <1>2, <2>1 DEF GetDecide
    <3>2. \A x \in DOMAIN gets' :
             /\ x \in DOMAIN gets /\ gets'[x].key = gets[x].key
             /\ gets'[x].expiresAt = gets[x].expiresAt /\ (x # r => gets'[x] = gets[x])
      BY <3>1, Times DEF GetCall
    <3>3. Clocks'
      BY <1>0, <2>1, <3>2 DEF Acknowledged, Clocks, PastExpiry
    <3> QED  BY <1>0, <3>1, <3>2, <3>3, StillAcknowledged
  <2>2. CASE ~PastExpiry(gets[r].expiresAt)
    <3>1. gets' = Without(gets, {r}) /\ UNCHANGED db
      BY <1>2, <2>2 DEF GetDecide
    <3>2. Clocks'
      BY <1>0, <3>1, GetsWithout DEF Acknowledged, Clocks
    <3> QED  BY <1>0, <3>1, <3>2, GetsWithout, StillAcknowledged
  <2> QED  BY <2>1, <2>2
<1>3. CASE LazyDelete(r)
  <2>1. /\ gets' = Without(gets, {r}) /\ db' = Without(db, {gets[r].key})
        /\ r \in DOMAIN gets /\ gets[r].pc = "lazy"
    BY <1>3 DEF LazyDelete
  <2>2. Clocks'
    BY <1>0, <2>1, GetsWithout DEF Acknowledged, Clocks
  <2>3. ASSUME NEW k \in DOMAIN promised, LiveAt(promised[k].expiresAt, now)
        PROVE  k # gets[r].key
    BY <2>1, <2>3 DEF Acknowledged, ReadersAgree, Clocks, LiveAt
  <2>4. ASSUME NEW k \in DOMAIN promised', k \in DOMAIN db, LiveAt(promised[k].expiresAt, now)
        PROVE  k \in DOMAIN db' /\ db'[k] = db[k]
    BY <1>0, <2>1, <2>3, <2>4, RowsWithout
  <2> QED  BY <1>0, <2>1, <2>2, <2>4, GetsWithout, StillAcknowledged
<1>4. CASE LazyFail(r)
  <2>1. gets' = Without(gets, {r}) /\ UNCHANGED db
    BY <1>4 DEF LazyFail
  <2>2. Clocks'
    BY <1>0, <2>1, GetsWithout DEF Acknowledged, Clocks
  <2> QED  BY <1>0, <2>1, <2>2, GetsWithout, StillAcknowledged
<1> QED  BY <1>1, <1>2, <1>3, <1>4

\* The sweep deletes rows whose text is past.
LEMMA SweepAcknowledged ==
  ASSUME TypeOK, TypeOK', Acknowledged, SweepStart \/ SweepProbe \/ SweepDelete \/ SweepFail
  PROVE  Acknowledged'
<1>1. UNCHANGED <<now, promised, gets>> /\ now \in Nat /\ now <= now'
  BY Times DEF SweepStart, SweepProbe, SweepDelete, SweepFail, SweepUnchanged
<1>2. sw'.at <= now'
  <2>1. sw'.at \in {0, now, sw.at}
    BY DEF SweepStart, SweepProbe, SweepDelete, SweepFail, IdleSweep, TypeOK
  <2> QED  BY <1>1, <2>1, Times DEF Acknowledged, Clocks
<1>3. Clocks'
  BY <1>1, <1>2 DEF Acknowledged, Clocks
<1>4. CASE UNCHANGED db
  BY <1>1, <1>3, <1>4, StillAcknowledged
<1>5. CASE SweepDelete
  <2>1. PICK S : db' = Without(db, S) /\ S \subseteq PastRows
    BY <1>5 DEF SweepDelete, Oldest, Expiries, Restrict
  <2>2. ASSUME NEW k \in DOMAIN db, LiveAt(db[k].expiresAt, now)
        PROVE  k \notin S
    <3>1. ~TextLess(db[k].expiresAt, sw.at)
      BY <1>1, <2>2, Times, SweepIsSweepable DEF LiveAt, Acknowledged, Clocks
    <3> QED  BY <2>1, <3>1 DEF PastRows
  <2>3. ASSUME NEW k \in DOMAIN promised', k \in DOMAIN db, db[k] = promised[k],
               LiveAt(promised[k].expiresAt, now)
        PROVE  k \in DOMAIN db' /\ db'[k] = db[k]
    BY <2>1, <2>2, <2>3, RowsWithout
  <2> QED  BY <1>1, <1>3, <2>3, StillAcknowledged
<1> QED  BY <1>4, <1>5 DEF SweepStart, SweepProbe, SweepFail

\* The eviction withdraws the promises of the rows it takes.
LEMMA EvictAcknowledged ==
  ASSUME TypeOK, TypeOK', Acknowledged,
         EvictStart \/ EvictSize \/ EvictCount \/ EvictDelete \/ Vacuum \/ EvictFail
  PROVE  Acknowledged'
<1>1. UNCHANGED <<now, gets, sw>> /\ now <= now' /\ Clocks'
  BY Times DEF EvictStart, EvictSize, EvictCount, EvictDelete, Vacuum, EvictFail, EvictUnchanged,
               Acknowledged, Clocks
<1>2. CASE UNCHANGED <<db, promised>>
  BY <1>1, <1>2, StillAcknowledged
<1>3. CASE EvictDelete
  <2>1. PICK S : db' = Without(db, S) /\ promised' = Without(promised, S)
    BY <1>3 DEF EvictDelete
  <2> QED  BY <1>1, <2>1, PromisesWithout, RowsWithout, StillAcknowledged
<1> QED  BY <1>2, <1>3 DEF EvictStart, EvictSize, EvictCount, Vacuum, EvictFail

\* Every step keeps the acknowledged writes.
LEMMA AcknowledgedStep ==
  ASSUME TypeOK, PagesHold, Acknowledged, [Next]_vars
  PROVE  Acknowledged'
<1>0. TypeOK'
  BY NextType
<1>1. CASE Restart
  <2>1. UNCHANGED <<now, db, promised>> /\ DOMAIN gets' = {} /\ sw'.at = 0
    BY <1>1 DEF Restart, EmptyMap, IdleSweep
  <2>2. Clocks' /\ now <= now'
    BY <2>1, Times DEF Clocks
  <2> QED  BY <1>0, <2>1, <2>2, StillAcknowledged
<1>2. CASE Tick
  <2>1. UNCHANGED <<db, promised, gets, sw>> /\ now' \in Nat /\ now <= now'
    BY <1>2, SqliteOnlyAssumption DEF Tick, TypeOK
  <2>2. Clocks'
    BY <2>1, Times DEF Acknowledged, Clocks, After
  <2> QED  BY <1>0, <2>1, <2>2, StillAcknowledged
<1>3. CASE UNCHANGED vars
  BY <1>3 DEF vars, Acknowledged, Clocks, AcknowledgedStored, ReadersAgree
<1> QED  BY <1>0, <1>1, <1>2, <1>3, PutAcknowledged, GetAcknowledged, SweepAcknowledged,
            EvictAcknowledged DEF Next

\* They are kept at all times.
LEMMA AcknowledgedInvariant == Spec => [](TypeOK /\ Acknowledged)
<1>1. Init => Acknowledged
  BY DEF Init, EmptyMap, IdleSweep, Acknowledged, Clocks, AcknowledgedStored, ReadersAgree
<1>2. TypeOK /\ PagesHold /\ Acknowledged /\ [Next]_vars => Acknowledged'
  BY AcknowledgedStep
<1> QED  BY <1>1, <1>2, TypeCorrect, PTL DEF Spec

\* An acknowledged write that no Get of the key overlapped keeps its row until
\* its text sorts before some moment's or an eviction takes it, whatever fails,
\* restarts or races meanwhile.
THEOREM AcknowledgedKept == Spec => []AcknowledgedStored
  BY AcknowledgedInvariant, PTL DEF Acknowledged

---------------------------------------------------------------------------
(* The contract of the commit modes.                                       *)

\* Every write has a number of its own, which no promise of an earlier one has.
IdsFresh ==
  /\ \A k \in DOMAIN promised : promised[k].id <= writes
  /\ \A w \in DOMAIN puts :
        /\ puts[w].row.id \in 1..writes
        /\ \A k \in DOMAIN promised : promised[k].id # puts[w].row.id
        /\ \A o \in DOMAIN puts : o # w => puts[o].row.id # puts[w].row.id

\* The numbers stay apart when calls end, promises end, or nothing happens.
LEMMA IdsFewer ==
  ASSUME IdsFresh, writes' = writes,
         \A k \in DOMAIN promised' : k \in DOMAIN promised /\ promised'[k] = promised[k],
         \A w \in DOMAIN puts' : w \in DOMAIN puts /\ puts'[w] = puts[w]
  PROVE  IdsFresh'
  BY DEF IdsFresh

\* Every step keeps the numbers apart.
LEMMA IdsStep ==
  ASSUME TypeOK, IdsFresh, [Next]_vars
  PROVE  IdsFresh'
<1>0. /\ writes \in Nat
      /\ \A k \in DOMAIN promised : promised[k].id \in Nat
      /\ \A w \in DOMAIN puts : puts[w].row.id \in Nat
  BY DEF TypeOK, IsMap, PutCall, Row
<1>1. ASSUME NEW w \in Writers, NEW k \in Keys, PutBegin(w, k)
      PROVE  IdsFresh'
  <2>1. /\ \A o \in DOMAIN puts' :
              \/ o = w /\ puts'[o].row.id = writes + 1
              \/ o # w /\ o \in DOMAIN puts /\ puts'[o] = puts[o]
        /\ writes' = writes + 1 /\ promised' = promised
    BY <1>1 DEF PutBegin, Upsert
  <2>2. \A x \in DOMAIN promised' : promised'[x].id <= writes'
    BY <1>0, <2>1 DEF IdsFresh
  <2>3. ASSUME NEW o \in DOMAIN puts'
        PROVE  /\ puts'[o].row.id \in 1..writes'
               /\ \A x \in DOMAIN promised' : promised'[x].id # puts'[o].row.id
               /\ \A p \in DOMAIN puts' : p # o => puts'[p].row.id # puts'[o].row.id
    BY <1>0, <2>1 DEF IdsFresh
  <2> QED  BY <2>2, <2>3 DEF IdsFresh
<1>2. ASSUME NEW w, puts' = Without(puts, {w})
      PROVE  \A o \in DOMAIN puts' : o # w /\ o \in DOMAIN puts /\ puts'[o] = puts[o]
  BY <1>2 DEF Without, Restrict
<1>3. ASSUME NEW w \in Writers, PutExec(w)
      PROVE  IdsFresh'
  <2>1. /\ w \in DOMAIN puts /\ puts' = Without(puts, {w}) /\ writes' = writes
        /\ \/ promised' = Without(promised, {puts[w].key})
           \/ promised' = Upsert(promised, puts[w].key, puts[w].row)
    BY <1>3 DEF PutExec
  <2>2. \A k \in DOMAIN promised' :
           (k \in DOMAIN promised /\ promised'[k] = promised[k]) \/ promised'[k] = puts[w].row
    BY <2>1, PromisesWithout DEF Upsert
  <2>3. \A o \in DOMAIN puts' : o # w /\ o \in DOMAIN puts /\ puts'[o] = puts[o]
    BY <1>2, <2>1
  <2>4. puts[w].row.id \in 1..writes
    BY <2>1 DEF IdsFresh
  <2>5. \A x \in DOMAIN promised' : promised'[x].id <= writes
    BY <1>0, <2>2, <2>4 DEF IdsFresh
  <2>6. ASSUME NEW o \in DOMAIN puts'
        PROVE  /\ puts'[o].row.id \in 1..writes
               /\ \A x \in DOMAIN promised' : promised'[x].id # puts'[o].row.id
               /\ \A p \in DOMAIN puts' : p # o => puts'[p].row.id # puts'[o].row.id
    <3>1. o # w /\ o \in DOMAIN puts /\ puts'[o] = puts[o]
      BY <2>3
    <3>2. puts[o].row.id \in 1..writes /\ puts[w].row.id # puts[o].row.id
      BY <2>1, <3>1 DEF IdsFresh
    <3>3. \A x \in DOMAIN promised' : promised'[x].id # puts[o].row.id
      BY <2>2, <3>1, <3>2 DEF IdsFresh
    <3>4. \A p \in DOMAIN puts' : p # o => puts'[p].row.id # puts[o].row.id
      BY <2>3, <3>1 DEF IdsFresh
    <3> QED  BY <3>1, <3>2, <3>3, <3>4
  <2> QED  BY <2>1, <2>5, <2>6 DEF IdsFresh
<1>4. ASSUME NEW w \in Writers, PutFail(w) \/ PutFailLate(w)
      PROVE  IdsFresh'
  <2>1. puts' = Without(puts, {w}) /\ writes' = writes
    BY <1>4 DEF PutFail, PutFailLate
  <2>2. promised' = promised \/ promised' = Without(promised, {puts[w].key})
    BY <1>4 DEF PutFail, PutFailLate
  <2> QED  BY <1>2, <2>1, <2>2, PromisesWithout, IdsFewer
<1>5. CASE \E r \in Readers : (\E k \in Keys : GetRead(r, k)) \/ GetDecide(r) \/ LazyDelete(r) \/ LazyFail(r)
  <2>1. UNCHANGED <<writes, puts, promised>>
    BY <1>5, Zenon DEF GetRead, GetDecide, LazyDelete, LazyFail
  <2> QED  BY <2>1, IdsFewer
<1>6. CASE SweepStart \/ SweepProbe \/ SweepDelete \/ SweepFail
  <2>1. UNCHANGED <<writes, puts, promised>>
    BY <1>6, Zenon DEF SweepStart, SweepProbe, SweepDelete, SweepFail, SweepUnchanged
  <2> QED  BY <2>1, IdsFewer
<1>7. CASE EvictStart \/ EvictSize \/ EvictCount \/ EvictDelete \/ Vacuum \/ EvictFail
  <2>1. UNCHANGED <<writes, puts>>
    BY <1>7, Zenon DEF EvictStart, EvictSize, EvictCount, EvictDelete, Vacuum, EvictFail, EvictUnchanged
  <2>2. promised' = promised \/ \E S : promised' = Without(promised, S)
    BY <1>7, Zenon DEF EvictStart, EvictSize, EvictCount, EvictDelete, Vacuum, EvictFail
  <2> QED  BY <2>1, <2>2, PromisesWithout, IdsFewer
<1>8. CASE Restart
  BY <1>8, IdsFewer DEF Restart, EmptyMap
<1>9. CASE Tick \/ UNCHANGED vars
  BY <1>9, IdsFewer DEF Tick, vars
<1> QED  BY <1>1, <1>3, <1>4, <1>5, <1>6, <1>7, <1>8, <1>9 DEF Next

\* The promises, as the contract sees them.
Mapped ==
  [k \in Keys |->
     IF Binding(k)
     THEN [id |-> promised[k].id, mode |-> "sync", lapse |-> Lapse(promised[k].expiresAt),
           stands |-> IF Stored(k) THEN "durable" ELSE "lost"]
     ELSE NoPromise]

\* An acknowledged row, as the contract sees it.
Durable(row) ==
  [id |-> row.id, mode |-> "sync", lapse |-> Lapse(row.expiresAt), stands |-> "durable"]

\* A promise that binds is durable.
AllDurable ==
  \A k \in Keys : Mapped[k] = IF Binding(k) THEN Durable(promised[k]) ELSE NoPromise

\* That is what the stored rows mean.
LEMMA MappedDurable == TypeOK /\ Acknowledged => AllDurable
<1> SUFFICES ASSUME TypeOK, Acknowledged, NEW k \in Keys
             PROVE  Mapped[k] = IF Binding(k) THEN Durable(promised[k]) ELSE NoPromise
  BY DEF AllDurable
<1>1. ASSUME Binding(k)
      PROVE  Stored(k)
  <2>1. LiveAt(promised[k].expiresAt, now)
    BY <1>1, Times, LapseExact DEF Binding
  <2> QED  BY <1>1, <2>1 DEF Binding, LiveAt, Stored, Acknowledged, AcknowledgedStored
<1> QED  BY <1>1 DEF Mapped, Durable

\* A promise that is the same in both states looks the same.
LEMMA MappedSame ==
  ASSUME AllDurable, AllDurable', now' = now, NEW k \in Keys,
         k \in DOMAIN promised' <=> k \in DOMAIN promised,
         k \in DOMAIN promised => promised'[k] = promised[k]
  PROVE  Mapped'[k] = Mapped[k]
<1>1. Binding(k)' <=> Binding(k)
  BY DEF Binding
<1>2. Binding(k) => promised'[k] = promised[k]
  BY DEF Binding
<1> QED  BY <1>1, <1>2, Zenon DEF AllDurable

\* One that is gone, or has lapsed, looks like none.
LEMMA MappedNone ==
  ASSUME AllDurable, NEW k \in Keys, ~Binding(k)
  PROVE  Mapped[k] = NoPromise
  BY DEF AllDurable

\* Promises that end are withdrawn.
LEMMA Withdraws ==
  ASSUME UNCHANGED <<now, restarts>>,
         \A k \in Keys : Mapped'[k] = Mapped[k] \/ Mapped'[k] = NoPromise
  PROVE  Contract!CNext
<1> DEFINE S == {k \in Keys : Mapped'[k] = NoPromise}
<1>1. Mapped' = [k \in Keys |-> IF k \in S THEN NoPromise ELSE Mapped[k]]
  <2>1. \A k \in Keys : Mapped'[k] = IF k \in S THEN NoPromise ELSE Mapped[k]
    OBVIOUS
  <2> QED  BY <2>1 DEF Mapped
<1>2. S \in SUBSET Keys
  OBVIOUS
<1> HIDE DEF S
<1>3. Contract!Withdraw
  BY <1>1, <1>2 DEF Contract!Withdraw, Contract!NoPromise, NoPromise, Mapped
<1> QED  BY <1>3 DEF Contract!CNext

\* So are those that a step deletes from the history.
LEMMA WithdrawsSome ==
  ASSUME AllDurable, AllDurable', UNCHANGED <<now, restarts>>,
         \A k \in DOMAIN promised' : k \in DOMAIN promised /\ promised'[k] = promised[k]
  PROVE  Contract!CNext
<1>1. ASSUME NEW k \in Keys
      PROVE  Mapped'[k] = Mapped[k] \/ Mapped'[k] = NoPromise
  <2>1. CASE k \in DOMAIN promised'
    BY <2>1, MappedSame
  <2>2. CASE k \notin DOMAIN promised'
    BY <2>2 DEF AllDurable, Binding
  <2> QED  BY <2>1, <2>2
<1> QED  BY <1>1, Withdraws

\* The upsert of a write acknowledges it, or withdraws what it replaces.
LEMMA ExecAcknowledges ==
  ASSUME TypeOK, IdsFresh, AllDurable, AllDurable', NEW w \in Writers, PutExec(w),
         NEW k, k = puts[w].key, NEW row, row = puts[w].row
  PROVE  Contract!CNext
<1>0. /\ k \in Keys /\ row \in Row /\ w \in DOMAIN puts
      /\ row.id # 0 /\ UNCHANGED <<now, restarts>>
  BY DEF PutExec, TypeOK, IsMap, PutCall, IdsFresh
<1>1. CASE promised' = Without(promised, {k})
  BY <1>0, <1>1, PromisesWithout, WithdrawsSome
<1>2. CASE promised' = Upsert(promised, k, row)
  <2>1. ASSUME NEW x \in Keys, x # k
        PROVE  Mapped'[x] = Mapped[x]
    BY <1>0, <1>2, <2>1, MappedSame DEF Upsert
  <2>2. promised'[k] = row /\ k \in DOMAIN promised'
    BY <1>2 DEF Upsert
  <2>3. CASE now < Lapse(row.expiresAt)
    <3>1. Mapped'[k] = Durable(row)
      BY <1>0, <2>2, <2>3 DEF AllDurable, Binding
    <3>2. Mapped[k].id # row.id
      <4>1. CASE Binding(k)
        <5>1. promised[k].id # row.id
          BY <1>0, <4>1 DEF Binding, IdsFresh
        <5>2. Mapped[k] = Durable(promised[k])
          BY <1>0, <4>1 DEF AllDurable
        <5> QED  BY <5>1, <5>2 DEF Durable
      <4>2. CASE ~Binding(k)
        BY <1>0, <4>2, MappedNone DEF NoPromise
      <4> QED  BY <4>1, <4>2
    <3>3. Mapped' = [Mapped EXCEPT ![k] = Mapped'[k]]
      BY <1>0, <2>1 DEF Mapped
    <3>4. /\ Mapped'[k].mode = "sync" /\ Mapped'[k].stands = "durable"
          /\ Mapped'[k].id # Mapped[k].id /\ Mapped'[k].lapse > now
      BY <2>3, <3>1, <3>2 DEF Durable
    <3>5. Contract!Granted("sync") = {"durable"}
      BY DEF Contract!Granted
    <3>6. Contract!Acknowledge(k)
      BY <1>0, <3>3, <3>4, <3>5 DEF Contract!Acknowledge, Mapped
    <3> QED  BY <1>0, <3>6 DEF Contract!CNext
  <2>4. CASE ~(now < Lapse(row.expiresAt))
    <3>1. Mapped'[k] = NoPromise
      BY <1>0, <2>2, <2>4 DEF AllDurable, Binding
    <3> QED  BY <1>0, <2>1, <3>1, Withdraws
  <2> QED  BY <2>3, <2>4
<1> QED  BY <1>1, <1>2 DEF PutExec

\* The time ends exactly the promises that lapse.
LEMMA TickAdvances ==
  ASSUME TypeOK, AllDurable, AllDurable', Tick
  PROVE  Contract!CNext
<1>1. now \in Nat /\ now' \in Nat /\ now' > now /\ UNCHANGED <<promised, restarts>>
  BY SqliteOnlyAssumption DEF Tick, TypeOK
<1>2. ASSUME NEW k \in Keys
      PROVE  Mapped'[k] = IF now' >= Mapped[k].lapse THEN NoPromise ELSE Mapped[k]
  <2>1. CASE Binding(k)
    <3>1. Lapse(promised[k].expiresAt) \in Nat
      BY <1>1, <2>1, Times, LapseExact DEF Binding
    <3>2. Mapped[k] = Durable(promised[k]) /\ Mapped[k].lapse = Lapse(promised[k].expiresAt)
      BY <2>1 DEF AllDurable, Durable
    <3>3. Binding(k)' <=> ~(now' >= Lapse(promised[k].expiresAt))
      BY <1>1, <2>1, <3>1 DEF Binding
    <3>4. Mapped'[k] = IF Binding(k)' THEN Durable(promised[k]) ELSE NoPromise
      BY <1>1 DEF AllDurable
    <3> QED  BY <3>2, <3>3, <3>4, Zenon
  <2>2. CASE ~Binding(k)
    <3>1. ~Binding(k)'
      BY <1>1, <2>2, Times, LapseExact DEF Binding
    <3>2. Mapped[k] = NoPromise /\ Mapped'[k] = NoPromise
      BY <2>2, <3>1 DEF AllDurable
    <3> QED  BY <3>2
  <2> QED  BY <2>1, <2>2
<1>3. Contract!Advance
  BY <1>1, <1>2 DEF Contract!Advance, Contract!NoPromise, NoPromise, Mapped
<1> QED  BY <1>3 DEF Contract!CNext

\* A crash ends none.
LEMMA RestartCrashes ==
  ASSUME TypeOK, AllDurable, AllDurable', Restart
  PROVE  Contract!CNext
<1>1. UNCHANGED <<now, promised>> /\ restarts' = restarts + 1
  BY DEF Restart
<1>2. ASSUME NEW k \in Keys
      PROVE  Mapped'[k] = IF Mapped[k].stands = "durable" THEN Mapped[k] ELSE NoPromise
  <2>1. Mapped'[k] = Mapped[k]
    BY <1>1, MappedSame
  <2>2. Mapped[k].stands = "durable" \/ Mapped[k] = NoPromise
    <3>1. CASE Binding(k)
      <4>1. Mapped[k] = Durable(promised[k])
        BY <3>1 DEF AllDurable
      <4> QED  BY <4>1 DEF Durable
    <3> QED  BY <3>1, MappedNone
  <2> QED  BY <2>1, <2>2
<1>3. Contract!Crash
  BY <1>1, <1>2 DEF Contract!Crash, Contract!NoPromise, NoPromise, Mapped
<1> QED  BY <1>3 DEF Contract!CNext

\* Every step of the store is a step of the contract.
LEMMA ContractStep ==
  ASSUME TypeOK, IdsFresh, AllDurable, AllDurable', [Next]_vars
  PROVE  Contract!CNext \/ UNCHANGED Contract!cvars
<1>1. ASSUME UNCHANGED <<now, restarts, promised>>
      PROVE  Contract!CNext
  BY <1>1, WithdrawsSome
<1>2. ASSUME NEW S, UNCHANGED <<now, restarts>>, promised' = Without(promised, S)
      PROVE  Contract!CNext
  BY <1>2, PromisesWithout, WithdrawsSome
<1>3. CASE \E w \in Writers : (\E k \in Keys : PutBegin(w, k)) \/ PutFail(w)
  BY <1>1, <1>3, Zenon DEF PutBegin, PutFail
<1>4. CASE \E w \in Writers : PutFailLate(w)
  BY <1>2, <1>4, Zenon DEF PutFailLate
<1>5. CASE \E r \in Readers : (\E k \in Keys : GetRead(r, k)) \/ GetDecide(r) \/ LazyDelete(r) \/ LazyFail(r)
  BY <1>1, <1>5, Zenon DEF GetRead, GetDecide, LazyDelete, LazyFail
<1>6. CASE SweepStart \/ SweepProbe \/ SweepDelete \/ SweepFail
  BY <1>1, <1>6, Zenon DEF SweepStart, SweepProbe, SweepDelete, SweepFail, SweepUnchanged
<1>7. CASE EvictStart \/ EvictSize \/ EvictCount \/ Vacuum \/ EvictFail
  BY <1>1, <1>7, Zenon DEF EvictStart, EvictSize, EvictCount, Vacuum, EvictFail, EvictUnchanged
<1>8. CASE EvictDelete
  BY <1>2, <1>8, Zenon DEF EvictDelete, EvictUnchanged
<1>9. CASE UNCHANGED vars
  BY <1>1, <1>9, Zenon DEF vars
<1> QED  BY <1>3, <1>4, <1>5, <1>6, <1>7, <1>8, <1>9, ExecAcknowledges, TickAdvances,
            RestartCrashes DEF Next

\* Without the memory layer the store implements the contract of the commit
\* modes, with every write a sync write.
THEOREM Implements == Spec => ImplementsContract
<1>1. Init => IdsFresh /\ Contract!CInit
  <2> SUFFICES ASSUME Init  PROVE IdsFresh /\ Contract!CInit
    OBVIOUS
  <2>1. IdsFresh
    BY DEF Init, IdsFresh, EmptyMap
  <2>2. \A k \in Keys : ~Binding(k)
    BY DEF Init, EmptyMap, Binding
  <2>3. Mapped = [k \in Keys |-> NoPromise]
    BY <2>2, Zenon DEF Mapped
  <2>4. Contract!CInit
    BY <2>3 DEF Init, Contract!CInit, Contract!NoPromise, NoPromise, Mapped
  <2> QED  BY <2>1, <2>4
<1>2. TypeOK /\ IdsFresh /\ [Next]_vars => IdsFresh'
  BY IdsStep
<1>3. TypeOK /\ IdsFresh /\ AllDurable /\ AllDurable' /\ [Next]_vars
      => [Contract!CNext]_(Contract!cvars)
  BY ContractStep
<1> QED  BY <1>1, <1>2, <1>3, AcknowledgedInvariant, MappedDurable, PTL
            DEF Spec, ImplementsContract, Contract!CSpec
===========================================================================
