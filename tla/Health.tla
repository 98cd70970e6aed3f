------------------------------- MODULE Health -------------------------------
(***************************************************************************)
(* Health of internal/telemetry/telemetry.go behind /readyz, and its       *)
(* client deploy/hc: probes that share one cached ping of the database.    *)
(*                                                                         *)
(* A ping waits for the only connection of the pool, which a long          *)
(* statement may hold (busy); a probe that pings for the cache holds h.mu  *)
(* while it waits, and the other probes wait for h.mu.  hc gives up after  *)
(* three seconds; the handler, whose ping has context.Background(), does   *)
(* not notice, so that nothing here depends on it.  Times are ages,        *)
(* counted up to cacheTTL.                                                 *)
(***************************************************************************)
EXTENDS Naturals

CONSTANTS Probes,     \* the handlers that may run at the same time
          CacheTTL    \* h.cacheTTL in ticks

VARIABLES
    up,         \* the database would answer a ping
    busy,       \* a statement holds the connection
    draining,   \* h.draining
    lock,       \* who holds h.mu: a set of at most one probe
    age,        \* time.Since(h.last)
    lastOK,     \* h.lastOK
    probes,     \* the handlers: "ready" and "idle" have ended, with or without a 200
    seen        \* history: the age of the last ping that succeeded

Ended == {"idle", "ready"}
Waiting == {"lock", "ping", "fullPing"}

HTypeOK ==
    /\ draining \in BOOLEAN /\ lastOK \in BOOLEAN
    /\ lock \in SUBSET Probes
    /\ age \in 0..CacheTTL /\ seen \in 0..CacheTTL
    /\ probes \in [Probes -> Ended \cup Waiting]

\* NewHealth: the zero time is long ago.
HInit ==
    /\ draining = FALSE /\ lock = {} /\ lastOK = FALSE
    /\ age = CacheTTL /\ seen = CacheTTL
    /\ probes = [p \in Probes |-> "idle"]

Older(a) == IF a = CacheTTL THEN a ELSE a + 1

---------------------------------------------------------------------------
\* The handler ends with 200 or 503.
Tell(p, ok) == probes' = [probes EXCEPT ![p] = IF ok THEN "ready" ELSE "idle"]

\* A GET of /readyz arrives and the handler looks at h.draining.
Ask(p, full) ==
    /\ probes[p] \in Ended
    /\ probes' = [probes EXCEPT ![p] = IF draining THEN "idle"
                                      ELSE IF full THEN "fullPing" ELSE "lock"]
    /\ UNCHANGED <<draining, lock, age, lastOK, seen>>

\* Mutant of Fresh: a ping that succeeded counts for ever.
FreshWhenOK == lastOK \/ age < CacheTTL

\* time.Since(h.last) < h.cacheTTL
Fresh == age < CacheTTL

\* h.mu is free: answer from the cache, or keep the lock and ping.
Look(p) ==
    /\ probes[p] = "lock" /\ lock = {}
    /\ IF Fresh
       THEN Tell(p, lastOK) /\ UNCHANGED <<lock, age>>
       ELSE /\ lock' = {p} /\ age' = 0
            /\ probes' = [probes EXCEPT ![p] = "ping"]
    /\ UNCHANGED <<draining, lastOK, seen>>

\* Mutants of Remember: a failure does not reach the cache; h.mu is unlocked
\* on success only.
RememberSuccess(p) == lastOK' = (lastOK \/ up) /\ lock' = lock \ {p}
RememberLocked(p)  == lastOK' = up /\ lock' = IF up THEN lock \ {p} ELSE lock

\* h.lastOK = ..., and the deferred Unlock.
Remember(p) == lastOK' = up /\ lock' = lock \ {p}

\* The ping gets the connection and its answer.
Ping(p) ==
    /\ probes[p] \in {"ping", "fullPing"} /\ ~busy
    /\ IF probes[p] = "fullPing" THEN UNCHANGED <<lastOK, lock>> ELSE Remember(p)
    /\ Tell(p, up)
    /\ seen' = IF up THEN 0 ELSE seen
    /\ UNCHANGED <<draining, age>>

SetDraining ==
    /\ draining' = TRUE
    /\ UNCHANGED <<lock, age, lastOK, probes, seen>>

HTick ==
    /\ age' = Older(age) /\ seen' = Older(seen)
    /\ UNCHANGED <<draining, lock, lastOK, probes>>
=============================================================================
