--------------------------- MODULE EvictorProofs ---------------------------
(***************************************************************************)
(* The guard of MaybeEvict lets one eviction run at a time, for any number *)
(* of callers and any throttle.                                            *)
(***************************************************************************)
EXTENDS Evictor, TLAPS

\* Where each call is, without the types of the counters.
Calls == call \in [Callers -> {"idle", "check", "evict", "done"}]

\* A step that moves one active call and leaves it active, or moves none,
\* leaves the set of active calls alone.
LEMMA ActiveKept ==
  ASSUME Calls, NEW c \in Callers, NEW to \in {"check", "evict", "done"},
         call[c] # "idle", call' = [call EXCEPT ![c] = to]
  PROVE  Calls' /\ Active' = Active
<1>1. Calls'
  BY DEF Calls
<1>2. \A d \in Callers : call'[d] # "idle" <=> call[d] # "idle"
  BY DEF Calls
<1> QED  BY <1>1, <1>2 DEF Active

\* The guard and the release of the flag keep SingleFlight.
LEMMA SingleFlightStep ==
  ASSUME Calls, SingleFlight, [Next]_vars
  PROVE  Calls' /\ SingleFlight'
<1>1. ASSUME NEW c \in Callers, MaybeEvict(c) PROVE Calls' /\ SingleFlight'
  <2>1. CASE MayRun
    <3>1. ~running /\ running' = TRUE /\ call' = [call EXCEPT ![c] = "check"]
      BY <1>1, <2>1 DEF MaybeEvict, MayRun
    <3>2. Active = {}
      BY <3>1 DEF SingleFlight
    <3>3. Calls'
      BY <3>1 DEF Calls
    <3>4. Active' = {c}
      BY <3>1, <3>2 DEF Active, Calls
    <3> QED  BY <3>1, <3>3, <3>4 DEF SingleFlight
  <2>2. CASE ~MayRun
    BY <1>1, <2>2 DEF MaybeEvict, SingleFlight, Active, Calls
  <2> QED  BY <2>1, <2>2
<1>2. ASSUME NEW c \in Callers, Check(c) \/ Batch(c) \/ Fail(c)
      PROVE  Calls' /\ SingleFlight'
  <2>1. running' = running
    BY <1>2 DEF Check, Batch, Fail
  <2>2. CASE UNCHANGED call
    BY <2>1, <2>2 DEF SingleFlight, Active, Calls
  <2>3. CASE \E to \in {"check", "evict", "done"} :
                 call[c] # "idle" /\ call' = [call EXCEPT ![c] = to]
    BY <2>1, <2>3, ActiveKept DEF SingleFlight
  <2> QED  BY <1>2, <2>2, <2>3 DEF Check, Batch, Fail
<1>3. ASSUME NEW c \in Callers, Done(c) PROVE Calls' /\ SingleFlight'
  <2>1. c \in Active /\ running' = FALSE /\ call' = [call EXCEPT ![c] = "idle"]
    BY <1>3 DEF Done, Release, Active
  <2>2. \A d \in Active : d = c
    BY <2>1 DEF SingleFlight
  <2>3. Calls'
    BY <2>1 DEF Calls
  <2>4. Active' = {}
    BY <2>1, <2>2 DEF Active, Calls
  <2> QED  BY <2>1, <2>3, <2>4 DEF SingleFlight
<1>4. CASE Write \/ Tick \/ UNCHANGED vars
  BY <1>4 DEF Write, Tick, vars, SingleFlight, Active, Calls
<1> QED  BY <1>1, <1>2, <1>3, <1>4 DEF Next, RunOnce

\* However many POSTs and ticks call MaybeEvict, at most one EvictOldest is in
\* progress and the running flag says so exactly.
THEOREM EvictionSingleFlight == Spec => []SingleFlight
<1>1. Init => Calls /\ SingleFlight
  BY DEF Init, Calls, SingleFlight, Active
<1> QED  BY <1>1, SingleFlightStep, PTL DEF Spec
============================================================================
