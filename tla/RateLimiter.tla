---------------------------- MODULE RateLimiter ----------------------------
(***************************************************************************)
(* The per-client token bucket of internal/server/ratelimit.go and the     *)
(* middleware that calls it.  A request reads the clock, waits for rl.mu   *)
(* and then updates its bucket, so the times that reach one bucket may be  *)
(* out of order.  When KVP_TRUSTED_PROXIES is set every request first      *)
(* prunes the map, without rl.mu: it looks at a bucket and deletes it in   *)
(* two steps, between which another request may use the bucket, and where  *)
(* it collides with another use of the map the runtime may also stop the   *)
(* process.                                                                *)
(*                                                                         *)
(* Tokens are counted in parts, Cost of them to a token, so that the       *)
(* refill of a tick, Rate, is a whole number; the code uses float64.       *)
(* admitted, since, races and pruned are history: an observer may start    *)
(* counting at any moment, and counts what is let through from then on,    *)
(* and what prune deletes.                                                 *)
(***************************************************************************)
EXTENDS Integers, FiniteSets

CONSTANTS
    Clients, Requests,
    Cost,            \* parts of a token
    Burst,           \* KVP_RATE_LIMIT_BURST, in parts
    Rate,            \* KVP_RATE_LIMIT_RPS, in parts per tick
    PruneAge,        \* the hour of prune, in ticks
    Prunes,          \* whether KVP_TRUSTED_PROXIES is set
    MaxLag,          \* the longest a request waits between the clock and the lock
    MaxTime          \* bound of the model

ASSUME ClientsAssumption == Prunes \in BOOLEAN
ASSUME RateAssumption ==
    /\ Cost \in Nat \ {0} /\ Burst \in Nat \ {0} /\ Rate \in Nat \ {0}
    /\ PruneAge \in Nat /\ MaxLag \in Nat /\ MaxTime \in Nat

VARIABLES
    now,
    buckets,     \* rl.buckets: client -> [tokens, last], or None
    req,         \* the requests inside the middleware
    admitted,    \* history: parts let through for each client
    races,       \* history: buckets that prune took from under a request
    pruned,      \* history: buckets that were idle when prune deleted them
    since        \* history: since when they are counted

observed == <<admitted, races, pruned, since>>
vars == <<now, buckets, req, observed>>

None == [tokens |-> 0, last |-> -1]

\* A request in the middleware: its client, its reading of the clock, and for
\* prune the buckets still to visit and the one it is about to delete.
ReqAt(pc, client, at, todo, target, found) ==
    [pc |-> pc, client |-> client, at |-> at, todo |-> todo, target |-> target,
     found |-> found]
\* Where no client is meant.
Nobody == CHOOSE c \in Clients : TRUE
Idle == ReqAt("idle", Nobody, 0, {}, Nobody, None)

Least(x, y) == IF x < y THEN x ELSE y

Empty == [c \in Clients |-> None]
Zero == [c \in Clients |-> 0]

Init ==
    /\ now = 0
    /\ buckets = Empty
    /\ req = [r \in Requests |-> Idle]
    /\ admitted = Zero /\ races = Zero /\ pruned = Zero
    /\ since = 0

\* A request of client c enters the middleware; prune takes its own time.
Arrive(r, c) ==
    /\ req[r].pc = "idle"
    /\ LET todo == {x \in Clients : Prunes /\ buckets[x] # None}
       IN  req' = [req EXCEPT ![r] =
                      ReqAt(IF todo = {} THEN "clock" ELSE "prune", c, now, todo, Nobody, None)]
    /\ UNCHANGED <<now, buckets, observed>>

\* b.last.Before(now.Add(-time.Hour))
Stale(c, t) == buckets[c] # None /\ buckets[c].last < t - PruneAge

\* Where the loop of prune goes from here.
Onward(todo) == IF todo = {} THEN "clock" ELSE "prune"

\* prune looks at the next bucket, in the order of the map.
PruneLook(r, c) ==
    /\ req[r].pc = "prune" /\ c \in req[r].todo
    /\ LET todo == req[r].todo \ {c}
       IN  req' = [req EXCEPT ![r] =
              IF Stale(c, @.at) THEN ReqAt("delete", @.client, @.at, todo, c, buckets[c])
              ELSE ReqAt(Onward(todo), @.client, @.at, todo, Nobody, None)]
    /\ UNCHANGED <<now, buckets, observed>>

\* delete(rl.buckets, k), whatever the bucket is by now.
PruneDelete(r) ==
    /\ req[r].pc = "delete"
    /\ LET c == req[r].target
       IN  /\ buckets' = [buckets EXCEPT ![c] = None]
           /\ races' = [races EXCEPT ![c] =
                            @ + IF buckets[c] \in {None, req[r].found} THEN 0 ELSE 1]
           /\ pruned' = [pruned EXCEPT ![c] =
                            @ + IF buckets[c] = req[r].found THEN 1 ELSE 0]
    /\ req' = [req EXCEPT ![r] =
                  ReqAt(Onward(@.todo), @.client, @.at, @.todo, Nobody, None)]
    /\ UNCHANGED <<now, admitted, since>>

\* time.Now(), before the lock is taken.
Clock(r) ==
    /\ req[r].pc = "clock"
    /\ req' = [req EXCEPT ![r] = ReqAt("lock", @.client, now, {}, Nobody, None)]
    /\ UNCHANGED <<now, buckets, observed>>

\* rl.mu.Lock()
Lock(r) ==
    /\ req[r].pc = "lock" /\ \A s \in Requests : req[s].pc # "allow"
    /\ req' = [req EXCEPT ![r].pc = "allow"]
    /\ UNCHANGED <<now, buckets, observed>>

\* The bucket of a client at time t: a new one is full.
Current(c, t) == IF buckets[c] = None THEN [tokens |-> Burst, last |-> t] ELSE buckets[c]

\* Mutant of Refill: no cap at the burst.
RefillUncapped(b, t) == b.tokens + (t - b.last) * Rate

\* tokens + elapsed * rps, capped; elapsed is negative when the times are out
\* of order.
Refill(b, t) == Least(Burst, b.tokens + (t - b.last) * Rate)

\* allow: refill, then take a token if there is one.
Allow(r) ==
    /\ req[r].pc = "allow"
    /\ LET c      == req[r].client
           t      == req[r].at
           tokens == Refill(Current(c, t), t)
           paid   == IF tokens >= Cost THEN Cost ELSE 0
       IN  /\ buckets' = [buckets EXCEPT ![c] = [tokens |-> tokens - paid, last |-> t]]
           /\ admitted' = [admitted EXCEPT ![c] = @ + IF t >= since THEN paid ELSE 0]
    /\ req' = [req EXCEPT ![r] = Idle]
    /\ UNCHANGED <<now, races, pruned, since>>

\* Two requests are in the map at once, and one of them writes to it.
Collide(r, s) ==
    \/ req[r].pc = "delete" /\ req[s].pc \in {"prune", "delete", "allow"}
    \/ req[r].pc = "allow" /\ buckets[req[r].client] = None /\ req[s].pc = "prune"

\* The runtime notices ("concurrent map writes", "concurrent map iteration and
\* map write") and the process dies; its successor has no buckets, and the
\* observer starts again with it.
Throw ==
    /\ \E r, s \in Requests : r # s /\ Collide(r, s)
    /\ buckets' = Empty /\ req' = [r \in Requests |-> Idle]
    /\ admitted' = Zero /\ races' = Zero /\ pruned' = Zero /\ since' = now
    /\ UNCHANGED now

\* The observer starts to count.
Observe ==
    /\ since < now
    /\ since' = now
    /\ admitted' = Zero /\ races' = Zero /\ pruned' = Zero
    /\ UNCHANGED <<now, buckets, req>>

Tick ==
    /\ now < MaxTime
    /\ \A r \in Requests : req[r].pc \in {"lock", "allow"} => now < req[r].at + MaxLag
    /\ now' = now + 1
    /\ UNCHANGED <<buckets, req, observed>>

Next ==
    \/ \E r \in Requests :
          \/ \E c \in Clients : Arrive(r, c) \/ PruneLook(r, c)
          \/ PruneDelete(r) \/ Clock(r) \/ Lock(r) \/ Allow(r)
    \/ Throw
    \/ Observe
    \/ Tick

Spec == Init /\ [][Next]_vars

---------------------------------------------------------------------------
\* What a bucket may still lack when prune takes it for idle: the hour, less the
\* late times that the bucket may have seen, need not refill the whole burst.
Shortfall ==
    LET lacking == Burst - Rate * (PruneAge - 2 * MaxLag)
    IN  IF lacking > 0 THEN lacking ELSE 0

\* In no period does a client get more than the burst plus the refill of the
\* period, whatever the order in which its requests reach the lock, but for what
\* prune gives it: each idle bucket that it deletes is worth what the hour did
\* not refill, nothing if the hour refills the burst; and each bucket that it
\* deletes although a request used it after prune had looked is worth at most
\* one burst, with the refill of the time that a request may have waited for
\* the lock before it makes the new bucket.
AdmissionBound ==
    \A c \in Clients :
        admitted[c] <= Burst * (1 + races[c]) + Rate * (now - since + MaxLag * races[c])
                       + Shortfall * pruned[c]

---------------------------------------------------------------------------
(* What the comments say and the code does not keep.                       *)

\* ratelimit.go 9-10: "Each bucket refills at rps tokens/second up to a burst
\* cap", so that no period lets through more than the cap and its refill.
BurstCap == \A c \in Clients : admitted[c] <= Burst + Rate * (now - since)

\* spec.md 230: "All shared state (rate-limiter buckets, last-run
\* timestamps) is mutex-protected".
BucketsProtected == \A r, s \in Requests : r # s => ~Collide(r, s)
===========================================================================
