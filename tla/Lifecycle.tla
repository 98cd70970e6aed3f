----------------------------- MODULE Lifecycle -----------------------------
(***************************************************************************)
(* The shutdown of cmd/kvp/main.go around the store of KVStore: the signal,*)
(* the drain of the public server, stopJobs, the final flush, Close.       *)
(*                                                                         *)
(* stopJobs cancels the context of the background flusher and does not     *)
(* wait for it.  From then on the transactions of that flusher fail, but   *)
(* its critical sections go on, and the select of Flusher.Run may still    *)
(* choose a tick over ctx.Done().  A COMMIT that slips past the            *)
(* cancellation counts as made before it.                                  *)
(*                                                                         *)
(* The eviction and the sweep are left out: what they take they may take   *)
(* at any time.  A request is open while its body is read, for as long as  *)
(* its client likes.                                                       *)
(***************************************************************************)
EXTENDS KVStore

CONSTANT Final   \* the Flush call that main makes itself

ASSUME FinalAssumption == Final \in Flushers

VARIABLES
    phase,    \* where main is
    late,     \* shutdownCtx is past its deadline
    open,     \* requests that are accepted and still read their body
    flawed    \* history: the deadline passed, a background flush outlived
              \* stopJobs, or the final flush failed

lvars == <<phase, late, open, flawed, vars>>

Background == Flushers \ {Final}
Stopped == phase \in {"stopping", "flushing", "closing"}

LInit ==
    /\ Init
    /\ phase = "serving" /\ late = FALSE /\ open = {} /\ flawed = FALSE

---------------------------------------------------------------------------
(* Requests.                                                               *)

\* The listener takes connections until Shutdown closes it.
Accept(w) ==
    /\ phase = "serving" /\ w \notin open \cup DOMAIN puts
    /\ open' = open \cup {w}
    /\ UNCHANGED <<phase, late, flawed, vars>>

\* servePost has read the body and calls PutWithMode.
Begin(w) ==
    /\ phase # "exited" /\ w \in open
    /\ \E k \in Keys, mode \in Modes, len \in Lens : PutBegin(w, k, mode, len)
    /\ open' = open \ {w}
    /\ UNCHANGED <<phase, late, flawed>>

Handle(w) ==
    /\ phase # "exited" /\ Put(w)
    /\ UNCHANGED <<phase, late, open, flawed>>

\* The upsert of a sync write fails, applied or not, and servePost answers 500.
HandleFail(w) ==
    /\ phase # "exited"
    /\ PutFail(w) \/ PutFailLate(w)
    /\ UNCHANGED <<phase, late, open, flawed>>

---------------------------------------------------------------------------
(* Flusher.Run.                                                            *)

Work(f) ==
    /\ phase \in {"serving", "draining"}
    /\ Flush(f) \/ FlushFail(f)
    /\ UNCHANGED <<phase, late, open, flawed>>

\* The context is cancelled: takeDirty, the read of the entries and
\* clearVolatile do not look at it, and BeginTx fails.
Linger(f) ==
    /\ Stopped
    /\ FlushTake(f) \/ FlushRead(f) \/ \E k \in Keys : FlushClear(f, k)
    /\ flawed' = TRUE
    /\ UNCHANGED <<phase, late, open>>

Cancelled(f) ==
    /\ Stopped
    /\ FlushAbandon(f) /\ UNCHANGED errors
    /\ UNCHANGED <<phase, late, open, flawed>>

---------------------------------------------------------------------------
(* main, from the signal on.                                               *)

\* SetDraining, and Shutdown closes the listener.
Signal ==
    /\ phase = "serving"
    /\ phase' = "draining"
    /\ UNCHANGED <<late, open, flawed, vars>>

Deadline ==
    /\ phase \notin {"serving", "exited"} /\ ~late
    /\ late' = TRUE /\ flawed' = TRUE
    /\ UNCHANGED <<phase, open, vars>>

\* Mutants of Drained: Shutdown does not wait; it waits without a deadline.
DrainedAtOnce == TRUE
DrainedNoDeadline == open = {} /\ DOMAIN puts = {}

\* publicSrv.Shutdown returns: no request is left, or the deadline passed.
Drained == (open = {} /\ DOMAIN puts = {}) \/ late

\* stopJobs
StopJobs ==
    /\ phase = "draining" /\ Drained
    /\ phase' = "stopping"
    /\ flawed' = (flawed \/ \E f \in Background : fl[f].pc # "idle")
    /\ UNCHANGED <<late, open, vars>>

\* st.Flush(shutdownCtx): its transactions fail after the deadline.
FinalFlush ==
    /\ \/ phase = "stopping" /\ FlushTake(Final) /\ phase' = "flushing"
       \/ /\ phase = "flushing"
          /\ \/ FlushRead(Final)
             \/ ~late /\ FlushCommit(Final)
             \/ \E k \in Keys : FlushClear(Final, k)
          /\ UNCHANGED phase
    /\ UNCHANGED <<late, open, flawed>>

FinalFail ==
    /\ phase = "flushing"
    /\ FlushFail(Final) \/ (late /\ FlushAbandon(Final) /\ UNCHANGED errors)
    /\ flawed' = TRUE
    /\ UNCHANGED <<phase, late, open>>

\* Flush had nothing to take, or is done.
FinalReturn ==
    /\ \/ phase = "stopping" /\ dirty = {}
       \/ phase = "flushing" /\ fl[Final].pc = "idle"
    /\ phase' = "closing"
    /\ UNCHANGED <<late, open, flawed, vars>>

\* tel.Shutdown has returned; st.Close, and the process ends.
Close ==
    /\ phase = "closing"
    /\ phase' = "exited"
    /\ UNCHANGED <<late, open, flawed, vars>>

Main == StopJobs \/ FinalFlush \/ (late /\ FinalFail) \/ FinalReturn \/ Close

LTick ==
    /\ phase # "exited" /\ Tick
    /\ UNCHANGED <<phase, late, open, flawed>>

LNext ==
    \/ \E w \in Writers : Accept(w) \/ Begin(w) \/ Handle(w) \/ HandleFail(w)
    \/ \E f \in Background : Work(f) \/ Linger(f) \/ Cancelled(f)
    \/ Signal \/ Deadline
    \/ StopJobs \/ FinalFlush \/ FinalFail \/ FinalReturn \/ Close
    \/ LTick

LSpec == LInit /\ [][LNext]_lvars

\* The deadline comes, main and the handlers run on.  A client need not send
\* its body and nobody has to send the signal.
LFairness ==
    /\ WF_lvars(Deadline) /\ WF_lvars(Main)
    /\ \A w \in Writers : WF_lvars(Handle(w))

LLiveSpec == LSpec /\ LFairness

---------------------------------------------------------------------------
(* Properties.                                                             *)

Lost == {k \in AloneIn("async") : Unexpired(promised[k]) /\ ~Stored(k)}

\* A shutdown within its deadline, with no background flush in progress when
\* the jobs are stopped, leaves every async value that was acknowledged in
\* the table, requests that were open when the signal came included.
CleanExitStores == phase = "exited" /\ ~flawed => Lost = {}

\* The process ends, although a client never sends its body and although the
\* dirty set may be taken and given back by the background flusher.
ShutdownEnds == (phase = "draining") ~> (phase = "exited")

\* spec.md, section 8.5: "unpersisted async values survive a clean restart;
\* only a crash loses them".
CleanShutdownKeepsAsync == phase = "exited" /\ ~late /\ errors = 0 => Lost = {}
===========================================================================
