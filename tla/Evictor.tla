------------------------------ MODULE Evictor ------------------------------
(***************************************************************************)
(* The Evictor of internal/cleanup/cleanup.go: MaybeEvict is called by the *)
(* background RunLoop and, through AfterWrite, by a goroutine of every     *)
(* POST; a throttle and a running flag let at most one call through to     *)
(* RunOnce.  EvictOldest is reduced to what bounds it: batches that take   *)
(* something from the usage, one at a time, while writers keep adding.     *)
(* KVStore has the batches in full.                                        *)
(*                                                                         *)
(* Times are ages: since lastRun and since the ticker last fired, both cut *)
(* off at Throttle, so that the clock and the writers never stop.          *)
(***************************************************************************)
EXTENDS Integers, FiniteSets

CONSTANTS
    Posts,       \* goroutines that call AfterWrite
    Throttle,    \* KVP_SIZE_CLEANUP_THROTTLE, in ticks
    Limit,       \* the budget
    MaxRuns,     \* KVP_CLEANUP_MAX_RUNS
    MaxUsage,    \* bound of the model: the usage saturates here
    MaxErrors    \* bound of the model: failed evictions

ASSUME PostsAssumption == IsFiniteSet(Posts) /\ "loop" \notin Posts
ASSUME EvictorAssumption ==
    /\ Throttle \in Nat \ {0} /\ Limit \in Nat \ {0} /\ MaxRuns \in Nat \ {0}
    /\ MaxUsage \in Nat /\ MaxErrors \in Nat

Callers == Posts \cup {"loop"}

VARIABLES
    running,    \* e.running
    age,        \* now - e.lastRun, at most Throttle
    phase,      \* time since the ticker of RunLoop fired
    tick,       \* a tick waits in ticker.C
    call,       \* where each MaybeEvict call is
    usage,      \* st.Usage
    run,        \* batches of the EvictOldest call
    errors

vars == <<running, age, phase, tick, call, usage, run, errors>>

TypeOK ==
    /\ running \in BOOLEAN /\ tick \in BOOLEAN
    /\ age \in 0..Throttle /\ phase \in 0..(Throttle - 1)
    /\ call \in [Callers -> {"idle", "check", "evict", "done"}]
    /\ usage \in Nat /\ run \in Nat /\ errors \in Nat

Active == {c \in Callers : call[c] # "idle"}

Init ==
    /\ running = FALSE /\ age = Throttle /\ phase = 0 /\ tick = FALSE
    /\ call = [c \in Callers |-> "idle"]
    /\ usage = 0 /\ run = 0 /\ errors = 0

\* Mutant of MayRun: the throttle alone keeps two runs apart.
MayRunThrottled == age >= Throttle

\* !e.running, and now - lastRun is not below the throttle.
MayRun == ~running /\ age >= Throttle

\* The first critical section of MaybeEvict: turned away, or let through.
\* RunLoop calls it when it takes a tick.
MaybeEvict(c) ==
    /\ call[c] = "idle"
    /\ c = "loop" => tick
    /\ IF MayRun
       THEN running' = TRUE /\ age' = 0 /\ call' = [call EXCEPT ![c] = "check"]
       ELSE UNCHANGED <<running, age, call>>
    /\ tick' = IF c = "loop" THEN FALSE ELSE tick
    /\ UNCHANGED <<phase, usage, run, errors>>

\* RunOnce compares the usage with the budget.
Check(c) ==
    /\ call[c] = "check"
    /\ call' = [call EXCEPT ![c] = IF usage < Limit THEN "done" ELSE "evict"]
    /\ run' = 0
    /\ UNCHANGED <<running, age, phase, tick, usage, errors>>

\* Mutant of MoreRuns: only the budget stops the loop.
MoreRunsForever == usage >= Limit

\* The head of the loop of evictOldest.
MoreRuns == run < MaxRuns /\ usage >= Limit

\* One batch takes something; or it takes nothing, or the loop is over, and
\* EvictOldest returns.
Batch(c) ==
    /\ call[c] = "evict"
    /\ \/ /\ MoreRuns
          /\ \E u \in 0..(usage - 1) : usage' = u
          /\ run' = IF run < MaxRuns THEN run + 1 ELSE run
          /\ UNCHANGED call
       \/ /\ call' = [call EXCEPT ![c] = "done"]
          /\ UNCHANGED <<usage, run>>
    /\ UNCHANGED <<running, age, phase, tick, errors>>

\* The size query or a batch fails: RunOnce returns the error.
Fail(c) ==
    /\ call[c] \in {"check", "evict"} /\ errors < MaxErrors
    /\ call' = [call EXCEPT ![c] = "done"]
    /\ errors' = errors + 1
    /\ UNCHANGED <<running, age, phase, tick, usage, run>>

\* Mutant of Release: the flag is only lowered when the run evicted something.
ReleaseIfEvicted == IF run = 0 THEN running ELSE FALSE

\* e.running = false
Release == FALSE

\* The second critical section of MaybeEvict.
Done(c) ==
    /\ call[c] = "done"
    /\ running' = Release
    /\ call' = [call EXCEPT ![c] = "idle"]
    /\ UNCHANGED <<age, phase, tick, usage, run, errors>>

\* A POST stores something.
Write ==
    /\ usage < MaxUsage
    /\ usage' = usage + 1
    /\ UNCHANGED <<running, age, phase, tick, call, run, errors>>

\* Time passes; the ticker fires every Throttle and drops a tick that nobody
\* has taken yet.
Tick ==
    /\ age' = IF age < Throttle THEN age + 1 ELSE age
    /\ phase' = (phase + 1) % Throttle
    /\ tick' = (tick \/ phase = Throttle - 1)
    /\ UNCHANGED <<running, call, usage, run, errors>>

RunOnce(c) == Check(c) \/ Batch(c) \/ Done(c)

Next ==
    \/ \E c \in Callers : MaybeEvict(c) \/ RunOnce(c) \/ Fail(c)
    \/ Write
    \/ Tick

Spec == Init /\ [][Next]_vars

\* The clock advances, RunLoop takes its ticks and a call that was let
\* through runs on.  Nobody has to POST.
Fairness ==
    /\ WF_vars(Tick)
    /\ WF_vars(MaybeEvict("loop"))
    /\ \A c \in Callers : WF_vars(RunOnce(c))

LiveSpec == Spec /\ Fairness

---------------------------------------------------------------------------
\* The running flag is raised exactly while a call is past the guard, and at
\* most one is: two EvictOldest never interleave, even when one takes longer
\* than the throttle, and the flag is never left raised, which would end
\* eviction for good.
SingleFlight ==
    /\ running <=> Active # {}
    /\ \A c, d \in Active : c = d

\* EvictOldest returns although the writers never pause: this is what
\* KVP_CLEANUP_MAX_RUNS is for.
EvictionReturns == \A c \in Callers : (call[c] = "evict") ~> (call[c] # "evict")

\* A store over its budget gets an eviction pass, even when nobody posts and
\* when ticks of the loop fall inside the throttle window of the last run.
OverBudgetIsEvicted ==
    (usage >= Limit) ~> (usage < Limit \/ \E c \in Callers : call[c] = "evict")
===========================================================================
