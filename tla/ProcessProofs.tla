--------------------------- MODULE ProcessProofs ---------------------------
(***************************************************************************)
(* Theorems about Process: the readiness probes, what run releases, and    *)
(* the directory of backups, for any number of probes, any cacheTTL and    *)
(* any retention, and any interleaving of probes, backups, outages, kills  *)
(* and the shutdown.                                                       *)
(***************************************************************************)
EXTENDS Process, TLAPS

\* A probe that pings for the cache is the one that holds h.mu.
PingHoldsLock == \A p \in Probes : probes[p] = "ping" => lock = {p}

\* While nobody holds h.mu, a cached success is no older than h.last: h.last is
\* set before the ping, which may take long, and never after it.
CacheBacked == lock = {} /\ lastOK => seen <= age

HealthInv == H!HTypeOK /\ PingHoldsLock /\ CacheBacked

\* A tick keeps the order of two ages, which stop at cacheTTL.
LEMMA AgesGrow ==
    ASSUME NEW a \in 0..CacheTTL, NEW b \in 0..CacheTTL, b <= a
    PROVE  H!Older(a) \in 0..CacheTTL /\ H!Older(b) \in 0..CacheTTL /\ H!Older(b) <= H!Older(a)
BY ProcessAssumption DEF H!Older

\* A tick keeps an age in its range.
LEMMA AgeStays ==
    ASSUME NEW a \in 0..CacheTTL
    PROVE  H!Older(a) \in 0..CacheTTL
BY ProcessAssumption DEF H!Older

\* The state of a Health that nobody has asked yet.
LEMMA HealthFresh ==
    ASSUME draining = FALSE, lock = {}, lastOK = FALSE, age = CacheTTL, seen = CacheTTL,
           probes = [p \in Probes |-> "idle"]
    PROVE  HealthInv
<1>1. CacheTTL \in 0..CacheTTL
    BY ProcessAssumption
<1>2. H!HTypeOK
    BY <1>1, Zenon DEF H!HTypeOK, H!Ended
<1>3. PingHoldsLock
    BY DEF PingHoldsLock
<1>4. CacheBacked
    BY DEF CacheBacked
<1> QED BY <1>2, <1>3, <1>4 DEF HealthInv

\* The invariant holds when main starts.
LEMMA HealthInit == PInit => HealthInv
BY HealthFresh DEF PInit, H!HInit

\* Steps that do not touch Health.
LEMMA HealthUntouched == HealthInv /\ UNCHANGED health => HealthInv'
BY DEF HealthInv, H!HTypeOK, PingHoldsLock, CacheBacked, health

\* A new probe takes neither h.mu nor the cache.
LEMMA HealthNewProbe ==
    ASSUME HealthInv, NEW p \in Probes, NewProbe(p)
    PROVE  HealthInv'
<1>1. PICK full \in BOOLEAN : H!Ask(p, full)
    BY DEF NewProbe
<1>2. H!HTypeOK'
    BY <1>1 DEF HealthInv, H!HTypeOK, H!Ask, H!Ended, H!Waiting
<1>3. PingHoldsLock' /\ CacheBacked'
    BY <1>1 DEF HealthInv, H!HTypeOK, H!Ask, PingHoldsLock, CacheBacked
<1> QED BY <1>2, <1>3 DEF HealthInv

\* A probe that takes h.mu to ping is the only one that pings for the cache.
LEMMA HealthLook ==
    ASSUME HealthInv, NEW p \in Probes, LookAtCache(p)
    PROVE  HealthInv'
<1> USE DEF LookAtCache, H!Look, H!Tell
<1>1. H!HTypeOK'
    BY ProcessAssumption DEF HealthInv, H!HTypeOK, H!Ended, H!Waiting
<1>2. PingHoldsLock'
    BY DEF HealthInv, H!HTypeOK, PingHoldsLock
<1>3. CacheBacked'
    BY DEF HealthInv, CacheBacked
<1> QED BY <1>1, <1>2, <1>3 DEF HealthInv

\* The ping that fills the cache ends after h.last was set, and frees h.mu.
LEMMA HealthPing ==
    ASSUME HealthInv, NEW p \in Probes, PingDatabase(p)
    PROVE  HealthInv'
<1> USE DEF PingDatabase, H!Ping, H!Tell, H!Remember
<1>1. H!HTypeOK'
    <2>1. lastOK' \in BOOLEAN /\ draining' \in BOOLEAN
        BY Zenon DEF HealthInv, H!HTypeOK
    <2>2. lock' \in SUBSET Probes
        BY DEF HealthInv, H!HTypeOK
    <2>3. age' \in 0..CacheTTL /\ seen' \in 0..CacheTTL
        BY ProcessAssumption DEF HealthInv, H!HTypeOK
    <2>4. probes' \in [Probes -> H!Ended \cup H!Waiting]
        BY DEF HealthInv, H!HTypeOK, H!Ended
    <2> QED BY <2>1, <2>2, <2>3, <2>4 DEF H!HTypeOK
<1>2. PingHoldsLock'
    BY DEF HealthInv, H!HTypeOK, PingHoldsLock
<1>3. CacheBacked'
    <2>1. CASE dbUp /\ "store" \in held
        BY <2>1 DEF HealthInv, H!HTypeOK, CacheBacked
    <2>2. CASE ~(dbUp /\ "store" \in held) /\ probes[p] = "fullPing"
        BY <2>2, Zenon DEF HealthInv, CacheBacked
    <2>3. CASE ~(dbUp /\ "store" \in held) /\ probes[p] # "fullPing"
        BY <2>3, Zenon DEF CacheBacked
    <2> QED BY <2>1, <2>2, <2>3
<1> QED BY <1>1, <1>2, <1>3 DEF HealthInv

\* Both ages grow alike.
LEMMA HealthTick ==
    ASSUME HealthInv, PTick
    PROVE  HealthInv'
<1> USE DEF PTick, H!HTick
<1>1. H!HTypeOK'
    BY AgeStays DEF HealthInv, H!HTypeOK
<1>2. PingHoldsLock'
    BY DEF HealthInv, PingHoldsLock
<1>3. CacheBacked'
    BY AgesGrow DEF HealthInv, H!HTypeOK, CacheBacked
<1> QED BY <1>1, <1>2, <1>3 DEF HealthInv

\* Draining changes nothing of the cache.
LEMMA HealthLeave ==
    ASSUME HealthInv, Leave
    PROVE  HealthInv'
BY DEF Leave, H!SetDraining, HealthInv, H!HTypeOK, PingHoldsLock, CacheBacked

\* A process that is gone leaves the next one a Health that nobody has asked.
LEMMA HealthGone ==
    ASSUME HealthInv, Gone
    PROVE  HealthInv'
<1>1. CacheTTL \in 0..CacheTTL
    BY ProcessAssumption
<1>2. H!HTypeOK'
    BY <1>1, Zenon DEF Gone, H!HTypeOK, H!Ended
<1>3. PingHoldsLock'
    BY DEF Gone, PingHoldsLock
<1>4. CacheBacked'
    BY DEF Gone, CacheBacked
<1> QED BY <1>2, <1>3, <1>4 DEF HealthInv

\* The invariant is inductive.
LEMMA HealthStep == HealthInv /\ [PNext]_allvars => HealthInv'
<1> SUFFICES ASSUME HealthInv, [PNext]_allvars PROVE HealthInv'
    OBVIOUS
<1>1. CASE StartStep
    BY <1>1, HealthUntouched
       DEF StartStep, LoadConfig, NewTelemetry, NewMeterProvider, NewTraceProvider, NewMetrics,
           OpenStore, OpenFails, Reach
<1>2. CASE StopStep
    <2>1. CASE DrainPublic \/ DrainAdmin
        BY <2>1, HealthUntouched DEF DrainPublic, DrainAdmin, Reach
    <2>2. CASE Finish
        BY <2>2, HealthGone DEF Finish
    <2> QED BY <1>2, <2>1, <2>2 DEF StopStep
<1>3. CASE StopOnError \/ StopOnSignal
    BY <1>3, HealthLeave DEF StopOnError, StopOnSignal
<1>4. CASE ServerFails \/ Database
    BY <1>4, HealthUntouched DEF ServerFails, Database
<1>5. CASE Kill
    BY <1>5, HealthGone DEF Kill
<1>6. CASE PTick
    BY <1>6, HealthTick
<1>7. CASE \E p \in Probes : NewProbe(p) \/ LookAtCache(p) \/ PingDatabase(p)
    BY <1>7, HealthNewProbe, HealthLook, HealthPing
<1>8. CASE StartBackup \/ EndVacuum \/ PruneBackups \/ BackupFails
    BY <1>8, HealthUntouched DEF StartBackup, EndVacuum, PruneBackups, BackupFails
<1>9. CASE UNCHANGED allvars
    BY <1>9, HealthUntouched DEF allvars
<1> QED BY <1>1, <1>2, <1>3, <1>4, <1>5, <1>6, <1>7, <1>8, <1>9 DEF PNext

\* The invariant of the readiness cache.
LEMMA HealthInvariant == PSpec => []HealthInv
BY HealthInit, HealthStep, PTL DEF PSpec

---------------------------------------------------------------------------
\* The answers of a step.
FreshAnswers == \A p \in Probes : SaysReady(p) => seen' < CacheTTL

\* No answer is given where no handler moves, and none by a new process.
LEMMA SilentSteps ==
    ASSUME HealthInv, UNCHANGED probes \/ Gone
    PROVE  FreshAnswers
<1>1. CASE UNCHANGED probes
    BY <1>1 DEF FreshAnswers, SaysReady
<1>2. CASE Gone
    BY <1>2 DEF Gone, FreshAnswers, SaysReady
<1> QED BY <1>1, <1>2

\* A new probe is told nothing but that the service drains.
LEMMA NewProbeAnswers ==
    ASSUME HealthInv, NEW p \in Probes, NewProbe(p)
    PROVE  FreshAnswers
<1>1. PICK full \in BOOLEAN : H!Ask(p, full)
    BY DEF NewProbe
<1> QED BY <1>1 DEF HealthInv, H!HTypeOK, H!Ask, FreshAnswers, SaysReady

\* The answer comes from the cache: nobody holds h.mu, and the cache is fresh.
LEMMA LookAnswers ==
    ASSUME HealthInv, NEW p \in Probes, LookAtCache(p)
    PROVE  FreshAnswers
<1> SUFFICES ASSUME NEW q \in Probes, SaysReady(q)
             PROVE  seen' < CacheTTL
    BY DEF FreshAnswers
<1>1. lock = {} /\ H!Fresh /\ lastOK /\ seen' = seen
    BY DEF LookAtCache, H!Look, H!Tell, SaysReady, HealthInv, H!HTypeOK
<1>2. seen <= age /\ age < CacheTTL
    BY <1>1 DEF HealthInv, CacheBacked, H!Fresh
<1> QED BY <1>1, <1>2, ProcessAssumption DEF HealthInv, H!HTypeOK

\* The answer comes from a ping that has just succeeded.
LEMMA PingAnswers ==
    ASSUME HealthInv, NEW p \in Probes, PingDatabase(p)
    PROVE  FreshAnswers
<1> SUFFICES ASSUME NEW q \in Probes, SaysReady(q)
             PROVE  seen' < CacheTTL
    BY DEF FreshAnswers
<1>1. seen' = 0
    BY DEF PingDatabase, H!Ping, H!Tell, SaysReady, HealthInv, H!HTypeOK
<1> QED BY <1>1, ProcessAssumption

\* Every answer of every step is fresh.
LEMMA AnswersStep == HealthInv /\ [PNext]_allvars => FreshAnswers
<1> SUFFICES ASSUME HealthInv, [PNext]_allvars PROVE FreshAnswers
    OBVIOUS
<1>1. CASE StartStep
    BY <1>1, SilentSteps
       DEF StartStep, LoadConfig, NewTelemetry, NewMeterProvider, NewTraceProvider, NewMetrics,
           OpenStore, OpenFails, Reach, health
<1>2. CASE StopStep
    BY <1>2, SilentSteps DEF StopStep, DrainPublic, DrainAdmin, Finish, Reach, health
<1>3. CASE StopOnError \/ StopOnSignal
    BY <1>3, SilentSteps DEF StopOnError, StopOnSignal, Leave, H!SetDraining
<1>4. CASE ServerFails \/ Database
    BY <1>4, SilentSteps DEF ServerFails, Database, health
<1>5. CASE Kill
    BY <1>5, SilentSteps DEF Kill
<1>6. CASE PTick
    BY <1>6, SilentSteps DEF PTick, H!HTick
<1>7. CASE \E p \in Probes : NewProbe(p) \/ LookAtCache(p) \/ PingDatabase(p)
    BY <1>7, NewProbeAnswers, LookAnswers, PingAnswers
<1>8. CASE StartBackup \/ EndVacuum \/ PruneBackups \/ BackupFails
    BY <1>8, SilentSteps DEF StartBackup, EndVacuum, PruneBackups, BackupFails, health
<1>9. CASE UNCHANGED allvars
    BY <1>9, SilentSteps DEF allvars, health
<1> QED BY <1>1, <1>2, <1>3, <1>4, <1>5, <1>6, <1>7, <1>8, <1>9 DEF PNext

\* Whoever is told by /readyz that the service is ready can rely on a ping that
\* succeeded less than cacheTTL ago, however long the probe waited for h.mu,
\* for the connection or for a slow ping of another probe.
THEOREM ReadyFresh == PSpec => ReadyIsFresh
<1>1. HealthInv /\ [PNext]_allvars => [FreshAnswers]_allvars
    BY AnswersStep
<1> QED BY <1>1, HealthInvariant, PTL DEF PSpec, ReadyIsFresh, FreshAnswers

---------------------------------------------------------------------------
(* What run holds.                                                         *)

\* What run may hold at each statement it has reached.
HeldByPhase ==
    /\ phase \in {"config", "meter"} => held = {}
    /\ phase \in {"trace", "metrics", "store"} => held \subseteq {"meter", "trace"}
    /\ held \subseteq {"meter", "trace", "store", "public", "admin", "jobs"}
    /\ phase = "drainAdmin" => held \subseteq {"meter", "trace", "store", "jobs"}
    /\ phase = "finish" => held \subseteq {"meter", "trace", "store"}
    /\ AllButTracesReleased

\* Nothing is held before main runs.
LEMMA HeldInit == PInit => HeldByPhase
BY DEF PInit, HeldByPhase, AllButTracesReleased

\* Steps of the handlers and the jobs leave run where it is.
LEMMA HeldUntouched == HeldByPhase /\ UNCHANGED <<phase, held>> => HeldByPhase'
BY DEF HeldByPhase, AllButTracesReleased

\* Each statement of the start adds what it opened or, on an error, gives back
\* what the statements before it opened.
LEMMA HeldStart ==
    ASSUME HeldByPhase, StartStep
    PROVE  HeldByPhase'
<1> USE DEF Reach, HeldByPhase, AllButTracesReleased
<1>1. CASE LoadConfig
    BY <1>1 DEF LoadConfig
<1>2. CASE NewMeterProvider
    BY <1>2 DEF NewMeterProvider
<1>3. CASE NewTraceProvider
    BY <1>3 DEF NewTraceProvider, Shutdown
<1>4. CASE NewMetrics
    BY <1>4 DEF NewMetrics, Shutdown
<1>5. CASE OpenStore
    BY <1>5 DEF OpenStore, OpenFails, Shutdown
<1> QED BY <1>1, <1>2, <1>3, <1>4, <1>5 DEF StartStep, NewTelemetry

\* Each statement of the shutdown releases its share.
LEMMA HeldStop ==
    ASSUME HeldByPhase, StopStep
    PROVE  HeldByPhase'
<1> USE DEF Reach, HeldByPhase, AllButTracesReleased
<1>1. CASE DrainPublic
    BY <1>1 DEF DrainPublic
<1>2. CASE DrainAdmin
    BY <1>2 DEF DrainAdmin
<1>3. CASE Finish
    BY <1>3 DEF Finish, Shutdown
<1> QED BY <1>1, <1>2, <1>3 DEF StopStep

\* The invariant is inductive.
LEMMA HeldStep == HeldByPhase /\ [PNext]_allvars => HeldByPhase'
<1> SUFFICES ASSUME HeldByPhase, [PNext]_allvars PROVE HeldByPhase'
    OBVIOUS
<1>1. CASE StartStep
    BY <1>1, HeldStart
<1>2. CASE StopStep
    BY <1>2, HeldStop
<1>3. CASE StopOnError \/ StopOnSignal
    BY <1>3 DEF StopOnError, StopOnSignal, Leave, HeldByPhase, AllButTracesReleased
<1>4. CASE ServerFails \/ Database
    BY <1>4, HeldUntouched DEF ServerFails, Database
<1>5. CASE Kill
    BY <1>5 DEF Kill, HeldByPhase, AllButTracesReleased
<1>6. CASE PTick
    BY <1>6, HeldUntouched DEF PTick, pvars
<1>7. CASE \E p \in Probes : NewProbe(p) \/ LookAtCache(p) \/ PingDatabase(p)
    BY <1>7, HeldUntouched DEF NewProbe, LookAtCache, PingDatabase, pvars
<1>8. CASE StartBackup \/ EndVacuum \/ PruneBackups \/ BackupFails
    BY <1>8, HeldUntouched DEF StartBackup, EndVacuum, PruneBackups, BackupFails, pvars
<1>9. CASE UNCHANGED allvars
    BY <1>9, HeldUntouched DEF allvars, pvars
<1> QED BY <1>1, <1>2, <1>3, <1>4, <1>5, <1>6, <1>7, <1>8, <1>9 DEF PNext

\* However run ends, by an error of any statement of the start, by the error of
\* a server or by a signal, the meter provider, the store, both servers and the
\* jobs are released, and nothing but the trace provider can be left open.
THEOREM ExitReleases == PSpec => []AllButTracesReleased
<1>1. HeldByPhase => AllButTracesReleased
    BY DEF HeldByPhase
<1> QED BY <1>1, HeldInit, HeldStep, PTL DEF PSpec

---------------------------------------------------------------------------
(* The directory of backups.                                               *)

\* The backup that RetainBackups runs after is the newest file.
NewestIsLatest ==
    bk.pc \in {"retain", "remove"} => Len(files) > 0 /\ files[Len(files)] = "latest"

\* The files that are still to be removed are beyond the limit.
RemovesExcess ==
    bk.pc = "remove" => bk.todo > 0 /\ bk.todo <= Len(files) - Retention

BackupInv == BTypeOK /\ LatestBackupKept /\ NewestIsLatest /\ RemovesExcess

\* The latest backup is a file of the directory.
HasLatest(s) == \E i \in 1..Len(s) : s[i] = "latest"

\* Its membership as an index.
LEMMA LatestIndex ==
    ASSUME NEW s \in Seq({"latest", "older", "partial"})
    PROVE  "latest" \in ToSet(s) <=> HasLatest(s)
BY DEF ToSet, HasLatest

\* A new file hides no older one.
LEMMA AppendKeepsLatest ==
    ASSUME NEW s \in Seq({"latest", "older", "partial"}),
           NEW x \in {"latest", "older", "partial"}
    PROVE  /\ Append(s, x) \in Seq({"latest", "older", "partial"})
           /\ Len(Append(s, x)) = Len(s) + 1
           /\ Append(s, x)[Len(s) + 1] = x
           /\ HasLatest(s) => HasLatest(Append(s, x))
BY DEF HasLatest

\* Calling the latest backup an older one changes no name of the directory.
LEMMA DemoteType ==
    ASSUME NEW s \in Seq({"latest", "older", "partial"})
    PROVE  /\ ReplaceAll(s, "latest", "older") \in Seq({"latest", "older", "partial"})
           /\ Len(ReplaceAll(s, "latest", "older")) = Len(s)
BY DEF ReplaceAll

\* Removing the first of several files spares the last one.
LEMMA TailKeepsLast ==
    ASSUME NEW s \in Seq({"latest", "older", "partial"}), Len(s) > 1
    PROVE  /\ Tail(s) \in Seq({"latest", "older", "partial"})
           /\ Len(Tail(s)) = Len(s) - 1
           /\ Tail(s)[Len(s) - 1] = s[Len(s)]
OBVIOUS

\* The directory is empty at first.
LEMMA BackupInitially == PInit => BackupInv
BY BackupAssumption
   DEF PInit, BInit, IdleBackup, BackupInv, BTypeOK, LatestBackupKept, NewestIsLatest, RemovesExcess

\* Steps that neither write nor remove a file.
LEMMA BackupUntouched == BackupInv /\ UNCHANGED bvars => BackupInv'
BY DEF BackupInv, BTypeOK, LatestBackupKept, NewestIsLatest, RemovesExcess, bvars

\* RunOnce ends, whether it is done, has failed or dies with the process, and
\* leaves the directory as it is or with an incomplete file.
LEMMA BackupEnds ==
    ASSUME BackupInv, bk' = IdleBackup, files' \in {files, Append(files, "partial")},
           done' = done, faults' \in 0..MaxFaults
    PROVE  BackupInv'
<1>1. BTypeOK' /\ Len(files') >= Len(files)
    BY AppendKeepsLatest DEF BackupInv, BTypeOK, IdleBackup
<1>2. HasLatest(files) => HasLatest(files')
    BY AppendKeepsLatest DEF BackupInv, BTypeOK
<1>3. LatestBackupKept'
    BY <1>1, <1>2, LatestIndex DEF BackupInv, BTypeOK, LatestBackupKept
<1> QED BY <1>1, <1>3 DEF BackupInv, NewestIsLatest, RemovesExcess, IdleBackup

\* VACUUM INTO adds the newest file.
LEMMA BackupVacuum ==
    ASSUME BackupInv, Vacuum
    PROVE  BackupInv'
<1> DEFINE older == ReplaceAll(files, "latest", "older")
<1>1. /\ older \in Seq({"latest", "older", "partial"}) /\ Len(older) = Len(files)
      /\ files' = Append(older, "latest")
    BY DemoteType DEF BackupInv, BTypeOK, Vacuum
<1> HIDE DEF older
<1>2. /\ files' \in Seq({"latest", "older", "partial"})
      /\ Len(files') = Len(files) + 1 /\ files'[Len(files')] = "latest"
    BY <1>1, AppendKeepsLatest DEF BackupInv, BTypeOK
<1>3. /\ bk' \in [pc : {"idle", "vacuum", "retain", "remove"}, todo : Nat] /\ bk'.pc = "retain"
      /\ faults' \in 0..MaxFaults
      /\ done' \in 0..Retention /\ done' <= done + 1 /\ Len(files) >= done
      /\ Len(files) \in Nat /\ done \in Nat
    BY BackupAssumption DEF BackupInv, BTypeOK, LatestBackupKept, Vacuum
<1>4. BTypeOK'
    BY <1>2, <1>3 DEF BTypeOK
<1>5. HasLatest(files')
    BY <1>2, <1>3 DEF HasLatest
<1>6. "latest" \in ToSet(files')
    BY <1>2, <1>5, LatestIndex
<1>7. Len(files') >= done'
    BY <1>2, <1>3, BackupAssumption
<1>8. NewestIsLatest' /\ RemovesExcess'
    BY <1>2, <1>3 DEF NewestIsLatest, RemovesExcess
<1> QED BY <1>4, <1>6, <1>7, <1>8 DEF BackupInv, LatestBackupKept

\* Only files beyond the limit are chosen.
LEMMA BackupRetain ==
    ASSUME BackupInv, Retain
    PROVE  BackupInv'
BY BackupAssumption
   DEF BackupInv, BTypeOK, LatestBackupKept, NewestIsLatest, RemovesExcess, Retain, Excess, IdleBackup

\* The file that goes is the oldest of more than Retention.
LEMMA BackupRemove ==
    ASSUME BackupInv, RemoveFile
    PROVE  BackupInv'
<1>1. /\ Len(files) > Retention /\ Len(files) > 1 /\ files[Len(files)] = "latest"
      /\ files' = Tail(files)
    BY BackupAssumption
       DEF BackupInv, BTypeOK, NewestIsLatest, RemovesExcess, RemoveFile, WithoutOldest
<1>2. /\ files' \in Seq({"latest", "older", "partial"})
      /\ Len(files') = Len(files) - 1 /\ files'[Len(files')] = "latest"
    BY <1>1, TailKeepsLast DEF BackupInv, BTypeOK
<1>3. HasLatest(files')
    <2>1. Len(files) \in Nat
        BY DEF BackupInv, BTypeOK
    <2>2. Len(files') \in 1..Len(files')
        BY <1>1, <1>2, <2>1
    <2> QED BY <1>2, <2>2 DEF HasLatest
<1>4. /\ bk' \in [pc : {"idle", "vacuum", "retain", "remove"}, todo : Nat]
      /\ bk'.pc = "remove" => bk'.todo = bk.todo - 1 /\ bk.todo > 1
      /\ bk'.pc \in {"idle", "remove"}
      /\ bk.todo <= Len(files) - Retention
      /\ faults' \in 0..MaxFaults /\ done' = done /\ done \in 0..Retention
      /\ bk.todo \in Nat /\ Len(files) \in Nat
    <2>1. /\ bk \in [pc : {"idle", "vacuum", "retain", "remove"}, todo : Nat]
          /\ bk.pc = "remove" /\ bk.todo > 0 /\ bk.todo <= Len(files) - Retention
          /\ bk' = IF bk.todo = 1 THEN IdleBackup ELSE [bk EXCEPT !.todo = @ - 1]
        BY DEF BackupInv, BTypeOK, RemoveFile, RemovesExcess
    <2>2. faults' \in 0..MaxFaults /\ done' = done /\ done \in 0..Retention /\ Len(files) \in Nat
        BY DEF BackupInv, BTypeOK, RemoveFile
    <2>3. CASE bk.todo = 1
        BY <2>1, <2>2, <2>3 DEF IdleBackup
    <2>4. CASE bk.todo # 1
        BY <2>1, <2>2, <2>4
    <2> QED BY <2>3, <2>4
<1>5. BTypeOK'
    BY <1>2, <1>4 DEF BTypeOK
<1>6. "latest" \in ToSet(files')
    BY <1>2, <1>3, LatestIndex
<1>7. Len(files') >= done'
    BY <1>1, <1>2, <1>4, BackupAssumption
<1>8. NewestIsLatest'
    BY <1>1, <1>2, <1>4 DEF NewestIsLatest
<1>9. RemovesExcess'
    BY <1>2, <1>4, BackupAssumption DEF RemovesExcess
<1> QED BY <1>5, <1>6, <1>7, <1>8, <1>9 DEF BackupInv, LatestBackupKept

\* A backup starts.
LEMMA BackupBegins ==
    ASSUME BackupInv, BackupStart
    PROVE  BackupInv'
BY DEF BackupInv, BTypeOK, LatestBackupKept, NewestIsLatest, RemovesExcess, BackupStart

\* The invariant is inductive.
LEMMA BackupStep == BackupInv /\ [PNext]_allvars => BackupInv'
<1> SUFFICES ASSUME BackupInv, [PNext]_allvars PROVE BackupInv'
    OBVIOUS
<1>0. faults \in 0..MaxFaults /\ (faults < MaxFaults => faults + 1 \in 0..MaxFaults)
    BY BackupAssumption DEF BackupInv, BTypeOK
<1>1. CASE StartStep
    BY <1>1, BackupUntouched
       DEF StartStep, LoadConfig, NewTelemetry, NewMeterProvider, NewTraceProvider, NewMetrics,
           OpenStore, OpenFails, Reach
<1>2. CASE StopStep
    <2>1. CASE DrainPublic \/ DrainAdmin
        BY <2>1, BackupUntouched DEF DrainPublic, DrainAdmin, Reach
    <2>2. CASE Finish
        BY <2>2, <1>0, BackupEnds DEF Finish, Gone, BackupCrash
    <2> QED BY <1>2, <2>1, <2>2 DEF StopStep
<1>3. CASE StopOnError \/ StopOnSignal
    BY <1>3, BackupUntouched DEF StopOnError, StopOnSignal, Leave
<1>4. CASE ServerFails \/ Database
    BY <1>4, BackupUntouched DEF ServerFails, Database
<1>5. CASE Kill
    BY <1>5, <1>0, BackupEnds DEF Kill, Gone, BackupCrash
<1>6. CASE PTick
    BY <1>6, BackupUntouched DEF PTick
<1>7. CASE \E p \in Probes : NewProbe(p) \/ LookAtCache(p) \/ PingDatabase(p)
    BY <1>7, BackupUntouched DEF NewProbe, LookAtCache, PingDatabase
<1>8. CASE StartBackup
    BY <1>8, BackupBegins DEF StartBackup
<1>9. CASE EndVacuum
    <2>1. CASE Vacuum
        BY <2>1, BackupVacuum
    <2>2. CASE VacuumRefused \/ (VacuumAborted /\ UNCHANGED faults)
        BY <2>2, <1>0, BackupEnds DEF VacuumRefused, VacuumAborted
    <2> QED BY <1>9, <2>1, <2>2 DEF EndVacuum
<1>10. CASE PruneBackups
    BY <1>10, BackupRetain, BackupRemove DEF PruneBackups
<1>11. CASE BackupFails
    BY <1>11, <1>0, BackupEnds DEF BackupFails, VacuumFail, VacuumAborted, RetainFail
<1>12. CASE UNCHANGED allvars
    BY <1>12, BackupUntouched DEF allvars
<1> QED BY <1>1, <1>2, <1>3, <1>4, <1>5, <1>6, <1>7, <1>8, <1>9, <1>10, <1>11, <1>12 DEF PNext

\* Once a backup has succeeded, the directory never lacks the latest one, and
\* it never has fewer files than backups have succeeded, up to the limit:
\* whatever fails, is cancelled or is killed while files are being removed.
THEOREM BackupsKept == PSpec => []LatestBackupKept
<1>1. BackupInv => LatestBackupKept
    BY DEF BackupInv
<1> QED BY <1>1, BackupInitially, BackupStep, PTL DEF PSpec
=============================================================================
