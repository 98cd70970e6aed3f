------------------------------ MODULE Process ------------------------------
(***************************************************************************)
(* run of cmd/kvp/main.go from start to exit, around two of the components *)
(* it wires together: the readiness probes of Health and the Backup job.   *)
(* They meet at the only connection of the store, which VACUUM INTO holds, *)
(* and in the shutdown, where adminSrv.Shutdown waits for the probes, the  *)
(* probes wait for the backup, and the backup is cancelled by stopJobs,    *)
(* which comes after Shutdown.                                             *)
(*                                                                         *)
(* The requests of the public server and the final flush are those of      *)
(* Lifecycle.  The process may be killed at any moment and is started      *)
(* again; the directory of backups stays.                                  *)
(***************************************************************************)
EXTENDS Backup, FiniteSets

CONSTANTS Probes, CacheTTL

ASSUME ProcessAssumption ==
    IsFiniteSet(Probes) /\ CacheTTL \in Nat \ {0}

VARIABLES
    phase,      \* the statement run has reached
    held,       \* what it has opened and not released
    failed,     \* errCh has the error of a server
    dbUp,       \* the file answers
    draining, lock, age, lastOK, probes, seen   \* of Health

H == INSTANCE Health WITH
         up   <- dbUp /\ "store" \in held,
         busy <- bk.pc = "vacuum"

health == <<draining, lock, age, lastOK, probes, seen>>
pvars == <<phase, held, failed, dbUp>>
allvars == <<pvars, bvars, health>>

Starting == {"config", "meter", "trace", "metrics", "store"}
Stopping == {"drainPublic", "drainAdmin", "finish"}

PTypeOK ==
    /\ BTypeOK /\ H!HTypeOK
    /\ phase \in Starting \cup Stopping \cup {"serving", "exited"}
    /\ held \subseteq {"meter", "trace", "store", "public", "admin", "jobs"}
    /\ failed \in BOOLEAN /\ dbUp \in BOOLEAN

PInit ==
    /\ phase = "config" /\ held = {} /\ failed = FALSE /\ dbUp \in BOOLEAN
    /\ BInit /\ H!HInit

---------------------------------------------------------------------------
(* Start: config.Load, telemetry.New, store.Open, the servers and jobs.    *)

Reach(next, now_held) ==
    /\ phase' = next /\ held' = now_held
    /\ UNCHANGED <<failed, dbUp, bvars, health>>

LoadConfig == phase = "config" /\ (Reach("meter", held) \/ Reach("exited", held))

\* What is held after Telemetry.Shutdown: metricShutdown and traceShutdown are
\* never set, so that only the meter provider is shut down.
Shutdown == held \ {"meter"}

\* New: newMeterProvider, newTraceProvider, newMetrics; an error of the last
\* two shuts down what there is.
NewMeterProvider ==
    phase = "meter" /\ (Reach("trace", held \cup {"meter"}) \/ Reach("exited", held))
NewTraceProvider ==
    phase = "trace" /\ (Reach("metrics", held \cup {"trace"}) \/ Reach("exited", Shutdown))
NewMetrics ==
    phase = "metrics" /\ (Reach("store", held) \/ Reach("exited", Shutdown))
NewTelemetry == NewMeterProvider \/ NewTraceProvider \/ NewMetrics

\* Mutant of OpenFails: run returns the error and nothing else.
OpenFailsLeaks == Reach("exited", held)

\* tel.Shutdown before the error of store.Open is returned.
OpenFails == Reach("exited", Shutdown)

\* store.Open; after it the start-up eviction, whose error is only logged, the
\* jobs and both servers.
OpenStore ==
    /\ phase = "store"
    /\ \/ dbUp /\ Reach("serving", held \cup {"store", "public", "admin", "jobs"})
       \/ OpenFails

---------------------------------------------------------------------------
(* Serving.                                                                *)

\* ListenAndServe of either server returns an error.
ServerFails ==
    /\ phase = "serving" /\ ~failed
    /\ failed' = TRUE
    /\ UNCHANGED <<phase, held, dbUp, bvars, health>>

Database ==
    /\ dbUp' = ~dbUp
    /\ UNCHANGED <<phase, held, failed, bvars, health>>

NewProbe(p) ==
    /\ "admin" \in held /\ \E full \in BOOLEAN : H!Ask(p, full)
    /\ UNCHANGED <<pvars, bvars>>

LookAtCache(p) == phase # "exited" /\ H!Look(p) /\ UNCHANGED <<pvars, bvars>>
PingDatabase(p) == phase # "exited" /\ H!Ping(p) /\ UNCHANGED <<pvars, bvars>>

\* Backuper.Run: a tick starts a backup while the jobs run.  A tick that the
\* select prefers to ctx.Done() fails before it writes.
StartBackup ==
    /\ "jobs" \in held /\ BackupStart
    /\ UNCHANGED <<pvars, health>>

\* The statement succeeds, or finds no database, or is interrupted by stopJobs.
\* What else may go wrong with it, the database up, is BackupFails.
EndVacuum ==
    /\ phase # "exited"
    /\ \/ dbUp /\ Vacuum
       \/ ~dbUp /\ VacuumRefused
       \/ "jobs" \notin held /\ VacuumAborted /\ UNCHANGED faults
    /\ UNCHANGED <<pvars, health>>

PruneBackups ==
    /\ phase # "exited" /\ (Retain \/ RemoveFile)
    /\ UNCHANGED <<pvars, health>>

BackupFails ==
    /\ phase # "exited" /\ (VacuumFail \/ RetainFail)
    /\ UNCHANGED <<pvars, health>>

---------------------------------------------------------------------------
(* Shutdown.                                                               *)

\* The select returns with an error out of errCh, or with the signal.
Leave ==
    /\ phase = "serving"
    /\ phase' = "drainPublic" /\ failed' = FALSE /\ H!SetDraining
    /\ UNCHANGED <<held, dbUp, bvars>>
StopOnError  == failed /\ Leave
StopOnSignal == Leave

\* publicSrv.Shutdown, for as long as its requests or the deadline take;
\* adminSrv.Shutdown closes the listener.
DrainPublic == phase = "drainPublic" /\ Reach("drainAdmin", held \ {"public", "admin"})

\* Mutant of DrainAdmin: Shutdown has no deadline.
DrainAdminPatient ==
    /\ phase = "drainAdmin" /\ \A p \in Probes : probes[p] \in H!Ended
    /\ Reach("finish", held \ {"jobs"})

\* It returns when the probes have ended or the deadline passes, which may be
\* at any time; then stopJobs.
DrainAdmin == phase = "drainAdmin" /\ Reach("finish", held \ {"jobs"})

\* The process is gone, and with it its handlers and jobs.
Gone ==
    /\ BackupCrash
    /\ failed' = FALSE /\ draining' = FALSE /\ lock' = {} /\ lastOK' = FALSE
    /\ age' = CacheTTL /\ seen' = CacheTTL
    /\ probes' = [p \in Probes |-> "idle"]
    /\ UNCHANGED dbUp

\* The final flush has ended or met the deadline, tel.Shutdown, st.Close, and
\* run returns.
Finish ==
    /\ phase = "finish" /\ phase' = "exited" /\ held' = Shutdown \ {"store"}
    /\ Gone /\ UNCHANGED faults

\* SIGKILL, a panic or a power cut, and the restart policy.
Kill ==
    /\ phase # "exited" /\ faults < MaxFaults
    /\ faults' = faults + 1
    /\ phase' = "config" /\ held' = {} /\ Gone

PTick == phase # "exited" /\ H!HTick /\ UNCHANGED <<pvars, bvars>>

StartStep == LoadConfig \/ NewTelemetry \/ OpenStore
StopStep == DrainPublic \/ DrainAdmin \/ Finish

PNext ==
    \/ StartStep \/ StopStep \/ StopOnError \/ StopOnSignal \/ ServerFails \/ Database \/ Kill \/ PTick
    \/ \E p \in Probes : NewProbe(p) \/ LookAtCache(p) \/ PingDatabase(p)
    \/ StartBackup \/ EndVacuum \/ PruneBackups \/ BackupFails

PSpec == PInit /\ [][PNext]_allvars

\* main, the timers (with them the deadline of the shutdown) and the handlers
\* run on, and the tickers of the jobs fire.
\* A connection or a mutex that is released again and again gets to everyone
\* who waits for it: sync.Mutex hands itself over to whoever has waited for a
\* millisecond, and database/sql picks one of those who wait at random, which
\* passes nobody over for ever, but only with probability 1.
\* Nothing forces a probe, a signal, an error, or a VACUUM to come to an end.
PFairness ==
    /\ WF_allvars(StartStep) /\ WF_allvars(StopStep)
    /\ WF_allvars(StopOnError) /\ WF_allvars(PTick)
    /\ WF_allvars(StartBackup) /\ WF_allvars(PruneBackups)
    /\ \A p \in Probes : SF_allvars(LookAtCache(p)) /\ SF_allvars(PingDatabase(p))

PLiveSpec == PSpec /\ PFairness

---------------------------------------------------------------------------
(* Properties.                                                             *)

\* A client is told in this step that the service is ready.
SaysReady(p) == probes[p] # "ready" /\ probes'[p] = "ready"

\* "Ready" is never older than cacheTTL: the database has answered a ping
\* within it, although the probe waited for h.mu and for the connection, and
\* although the ping that filled the cache may have been slow.
ReadyIsFresh == [][\A p \in Probes : SaysReady(p) => seen' < CacheTTL]_allvars

\* When the database is gone for good, or the process drains, the probes stop
\* saying ready, those that began before included.
OutageNoticed ==
    <>[](~dbUp \/ draining) => <>[][\A p \in Probes : ~SaysReady(p)]_allvars

\* As long as backups come to an end, every probe does, also one whose
\* client has given up: nobody keeps h.mu or waits for ever behind a backup.
EveryProbeEnds ==
    []<>(bk.pc # "vacuum") =>
        \A p \in Probes : (probes[p] \in H!Waiting) ~> (probes[p] \in H!Ended)

\* Failed removals, crashes and what cancelled backups leave behind do not
\* pile up: while the service runs and backups end, the directory is within
\* its limit again and again.
RetentionRecovers ==
    <>[](phase = "serving" /\ dbUp) /\ []<>(bk.pc # "vacuum")
        => []<>(Len(files) <= Retention)

\* A server that fails takes the process with it, so that it can be started
\* again, and a shutdown ends, although a probe may wait for a backup that
\* never ends and that only a later step cancels.
ProcessEnds ==
    /\ (phase = "serving" /\ failed) ~> (phase # "serving")
    /\ (phase \in Stopping) ~> (phase \in {"config", "exited"})

\* On every way out of run, each failed start included, the meter provider, the
\* store, the servers and the jobs are released.  Not the trace provider: that
\* is TracesReleased, which does not hold.
AllButTracesReleased == phase = "exited" => held \subseteq {"trace"}

---------------------------------------------------------------------------
\* telemetry.go 200: "Shutdown flushes and closes the OTLP exporters and meter
\* provider."
TracesReleased == phase = "exited" => "trace" \notin held
=============================================================================
