------------------------- MODULE RateLimiterProofs -------------------------
(***************************************************************************)
(* The bound on what a client gets past the rate limiter, for any number   *)
(* of clients and requests, any rate, burst and waiting time.              *)
(*                                                                         *)
(* tokens - Rate * last is the credit of a bucket.  A refill does not      *)
(* change it, unless the cap lowers it, in whatever order the times come;  *)
(* and every admission lowers it.  So the credit that is left bounds what  *)
(* was admitted, and what a deleted bucket forgets is what a new one gets. *)
(***************************************************************************)
EXTENDS RateLimiter, TLAPS

Credit(b) == b.tokens - Rate * b.last

\* What a client may have got from the buckets it has had, n of them taken from
\* under a request and p of them idle.
Allowance(n, p) == Burst + (Burst + Rate * MaxLag) * n + Shortfall * p

Bucket == [tokens : Int, last : Int]

TypeOK ==
  /\ now \in Nat /\ since \in Nat /\ since <= now
  /\ buckets \in [Clients -> Bucket]
  /\ admitted \in [Clients -> Nat] /\ races \in [Clients -> Nat]
  /\ pruned \in [Clients -> Nat]
  /\ req = [r \in Requests |-> req[r]]

\* A request has read the clock, and waits no longer than MaxLag; and prune is
\* about to delete a bucket that was idle when it looked.
IsReq(q, t) ==
  /\ q = ReqAt(q.pc, q.client, q.at, q.todo, q.target, q.found)
  /\ q.pc \in {"idle", "prune", "delete", "clock", "lock", "allow"}
  /\ q.at \in Nat /\ q.at <= t
  /\ q.todo \subseteq Clients
  /\ q.pc # "idle" => q.client \in Clients
  /\ q.pc \in {"lock", "allow"} => t <= q.at + MaxLag
  /\ q.pc = "delete" =>
       q.target \in Clients /\ q.found # None /\ q.found.last < q.at - PruneAge

Requested == \A r \in Requests : IsReq(req[r], now)

\* A bucket holds no more than it may owe to the requests still waiting.
Kept(b) ==
  /\ b.last \in 0..now
  /\ b.tokens >= -(Rate * MaxLag)
  /\ Credit(b) + Rate * now >= 0

\* The client, which may have got v, has a bucket: its credit is what is left.
Counted(b, a, v) ==
  \/ a + Credit(b) <= v - Rate * since
  \/ a + Burst <= v

\* It has none: the next one is full.
Forgotten(a, v) ==
  \/ a + Burst <= v
  \/ a + Burst <= v + Rate * (now - MaxLag - since)

Accounts(c) ==
  LET v == Allowance(races[c], pruned[c])
  IN  IF buckets[c] = None THEN Forgotten(admitted[c], v)
      ELSE Kept(buckets[c]) /\ Counted(buckets[c], admitted[c], v)

Accounted == \A c \in Clients : Accounts(c)

---------------------------------------------------------------------------
(* Arithmetic.                                                             *)

\* Rate times a longer time is more.
LEMMA RateMonotonic ==
  ASSUME NEW x \in Int, NEW y \in Int, x <= y
  PROVE  Rate * x \in Int /\ Rate * y \in Int /\ Rate * x <= Rate * y
BY RateAssumption

\* Rate distributes over a difference of times.
LEMMA RateDifference ==
  ASSUME NEW x \in Int, NEW y \in Int
  PROVE  Rate * (x - y) = Rate * x - Rate * y /\ Rate * x \in Int /\ Rate * y \in Int
BY RateAssumption

\* The refill since s, less the waiting time, grows with the time.
LEMMA LaterMore ==
  ASSUME NEW s \in Nat
  PROVE  \A x, y \in Nat : x <= y =>
           /\ Rate * (x - MaxLag - s) \in Int /\ Rate * (y - MaxLag - s) \in Int
           /\ Rate * (x - MaxLag - s) <= Rate * (y - MaxLag - s)
BY RateAssumption

\* What the hour does not refill.
LEMMA ShortfallType ==
  /\ Shortfall \in Nat /\ Rate * MaxLag \in Nat /\ Rate * PruneAge \in Nat
  /\ Rate * PruneAge - Rate * MaxLag - Rate * MaxLag + Shortfall >= Burst
<1>1. /\ Rate * MaxLag \in Nat /\ Rate * PruneAge \in Nat
      /\ Rate * (PruneAge - 2 * MaxLag) = Rate * PruneAge - Rate * MaxLag - Rate * MaxLag
  BY RateAssumption
<1> QED  BY <1>1, RateAssumption DEF Shortfall

\* One more race is worth one burst and the refill of the longest wait, and one
\* more idle bucket what the hour does not refill.
LEMMA AllowanceType ==
  ASSUME NEW n \in Nat, NEW p \in Nat
  PROVE  /\ Allowance(n, p) \in Int /\ Allowance(n, p) >= Burst
         /\ Allowance(n + 1, p) = Allowance(n, p) + Burst + Rate * MaxLag
         /\ Allowance(n, p + 1) = Allowance(n, p) + Shortfall
<1> DEFINE g == Burst + Rate * MaxLag
           h == Shortfall
<1>1. g \in Nat /\ h \in Nat
  BY ShortfallType, RateAssumption
<1>2. \A x, y : Allowance(x, y) = Burst + g * x + h * y
  BY DEF Allowance
<1> HIDE DEF g, h
<1>3. g * n \in Nat /\ g * (n + 1) = g * n + g /\ h * p \in Nat /\ h * (p + 1) = h * p + h
  BY <1>1
<1>4. g = Burst + Rate * MaxLag /\ h = Shortfall
  BY DEF g, h
<1> QED  BY <1>1, <1>2, <1>3, <1>4, ShortfallType, RateAssumption

\* The bound, from the accounts.
LEMMA BoundHolds ==
  ASSUME TypeOK, NEW c \in Clients, Accounts(c)
  PROVE  admitted[c] <= Burst * (1 + races[c]) + Rate * (now - since + MaxLag * races[c])
                        + Shortfall * pruned[c]
<1> DEFINE a == admitted[c]
           n == races[c]
           p == pruned[c]
           v == Allowance(n, p)
<1>1. a \in Nat /\ n \in Nat /\ p \in Nat /\ now \in Nat /\ since \in Nat /\ since <= now
  BY DEF TypeOK
<1>2. Burst * (1 + n) + Rate * (now - since + MaxLag * n) + Shortfall * p
      = v + Rate * (now - since)
  <2>1. Burst * (1 + n) = Burst + Burst * n
    BY <1>1, RateAssumption
  <2>2. /\ Rate * (now - since + MaxLag * n) = Rate * (now - since) + (Rate * MaxLag) * n
        /\ (Burst + Rate * MaxLag) * n = Burst * n + (Rate * MaxLag) * n
    BY <1>1, RateAssumption
  <2>3. Burst * n \in Int /\ (Rate * MaxLag) * n \in Int /\ Rate * (now - since) \in Int
        /\ Shortfall * p \in Int
    BY <1>1, ShortfallType, RateAssumption
  <2> QED  BY <2>1, <2>2, <2>3, RateAssumption DEF Allowance
<1>3. v \in Int /\ Rate * MaxLag \in Nat
  BY <1>1, AllowanceType, ShortfallType
<1>4. Rate * (now - since) \in Nat /\ Rate * (now - since) = Rate * now - Rate * since
      /\ Rate * now \in Int /\ Rate * since \in Int
  BY <1>1, RateAssumption
<1> HIDE DEF v
<1>5. CASE a + Burst <= v
  BY <1>1, <1>2, <1>3, <1>4, <1>5, RateAssumption
<1>6. CASE buckets[c] = None
  <2>1. Rate * (now - MaxLag - since) = Rate * (now - since) - Rate * MaxLag
    BY <1>1, RateAssumption
  <2> QED  BY <1>1, <1>2, <1>3, <1>4, <1>5, <1>6, <2>1, RateAssumption
            DEF Accounts, Forgotten, v
<1>7. CASE buckets[c] # None /\ a + Credit(buckets[c]) <= v - Rate * since
  <2>1. Credit(buckets[c]) \in Int
    BY <1>1, RateAssumption DEF TypeOK, Bucket, Credit
  <2>2. Credit(buckets[c]) + Rate * now >= 0
    BY <1>7 DEF Accounts, Kept
  <2> QED  BY <1>1, <1>2, <1>3, <1>4, <1>7, <2>1, <2>2
<1> QED  BY <1>5, <1>6, <1>7 DEF Accounts, Counted, v

---------------------------------------------------------------------------
(* What a use of the bucket does to the accounts.                          *)

\* The refill of an existing bucket keeps its credit, or caps it.
LEMMA RefillCredit ==
  ASSUME NEW b \in Bucket, NEW t \in Int
  PROVE  /\ Refill(b, t) \in Int /\ Credit(b) \in Int /\ Rate * t \in Int
         /\ Refill(b, t) <= Burst
         /\ Refill(b, t) = Burst \/ Refill(b, t) = Credit(b) + Rate * t
         /\ Refill(b, t) <= Credit(b) + Rate * t
<1>1. b.tokens \in Int /\ b.last \in Int
  BY DEF Bucket
<1>2. (t - b.last) * Rate = Rate * t - Rate * b.last /\ Rate * t \in Int /\ Rate * b.last \in Int
  BY <1>1, RateAssumption
<1>3. Refill(b, t) = Least(Burst, b.tokens + (Rate * t - Rate * b.last))
  BY <1>2 DEF Refill
<1> QED  BY <1>1, <1>2, <1>3, RateAssumption DEF Least, Credit

\* A bucket refilled at t, from which at most what it holds is paid.
LEMMA PaidCredit ==
  ASSUME NEW x \in Int, NEW paid \in Nat, NEW t \in Int
  PROVE  /\ [tokens |-> x - paid, last |-> t] \in Bucket
         /\ Credit([tokens |-> x - paid, last |-> t]) = x - paid - Rate * t
         /\ Rate * t \in Int
BY RateAssumption DEF Bucket, Credit

\* A refill that pays only what is there leaves the bucket kept.
LEMMA UseKept ==
  ASSUME TypeOK, NEW b \in Bucket, NEW t \in Nat, t <= now, now <= t + MaxLag,
         Credit(b) + Rate * now >= 0,
         NEW paid \in Nat, paid = (IF Refill(b, t) >= Cost THEN Cost ELSE 0)
  PROVE  Kept([tokens |-> Refill(b, t) - paid, last |-> t])
<1> DEFINE x == Refill(b, t)
           p == Credit(b)
<1>1. now \in Nat
  BY DEF TypeOK
<1>2. x \in Int /\ p \in Int /\ Rate * t \in Int /\ (x = Burst \/ x = p + Rate * t)
  BY RefillCredit
<1>3. paid = (IF x >= Cost THEN Cost ELSE 0) /\ p + Rate * now >= 0
  OBVIOUS
<1>4. Rate * t <= Rate * now /\ Rate * now \in Int
  BY <1>1, RateMonotonic
<1>5. Rate * now <= Rate * t + Rate * MaxLag /\ Rate * MaxLag \in Nat
  <2>1. Rate * now <= Rate * (t + MaxLag)
    BY <1>1, RateMonotonic, RateAssumption
  <2> QED  BY <2>1, RateAssumption
<1>6. Credit([tokens |-> x - paid, last |-> t]) = x - paid - Rate * t
  BY <1>2, PaidCredit
<1> DEFINE n == [tokens |-> x - paid, last |-> t]
<1>7. n.tokens = x - paid /\ n.last = t
  OBVIOUS
<1>8. Credit(n) = x - paid - Rate * t
  BY <1>6
<1> HIDE DEF x, p, n
<1>9. x - paid >= 0 \/ (paid = 0 /\ x = p + Rate * t)
  BY <1>2, <1>3, RateAssumption
<1>10. x - paid >= -(Rate * MaxLag)
  BY <1>2, <1>3, <1>4, <1>5, <1>9
<1>11. x - paid - Rate * t + Rate * now >= 0
  BY <1>2, <1>3, <1>4, <1>9
<1>12. Kept(n)
  BY <1>1, <1>7, <1>8, <1>10, <1>11 DEF Kept
<1> QED  BY <1>12 DEF n, x

\* What was admitted and what is left stay within the allowance: the client had
\* a bucket.
LEMMA UseCounted ==
  ASSUME TypeOK, NEW b \in Bucket, NEW t \in Nat, NEW a \in Nat, NEW v \in Int,
         Counted(b, a, v), NEW paid \in Nat
  PROVE  Counted([tokens |-> Refill(b, t) - paid, last |-> t],
                 a + IF t >= since THEN paid ELSE 0, v)
<1> DEFINE x == Refill(b, t)
           p == Credit(b)
           m == [tokens |-> x - paid, last |-> t]
<1>1. since \in Nat /\ Rate * since \in Int
  BY RateAssumption DEF TypeOK
<1>2. x \in Int /\ p \in Int /\ Rate * t \in Int /\ x <= Burst /\ x <= p + Rate * t
  BY RefillCredit
<1>3. Credit(m) = x - paid - Rate * t
  BY <1>2, PaidCredit
<1>4. a + p <= v - Rate * since \/ a + Burst <= v
  BY DEF Counted
<1> HIDE DEF x, p, m
<1>5. CASE a + p <= v - Rate * since
  <2>1. a + (IF t >= since THEN paid ELSE 0) + (x - paid - Rate * t) <= v - Rate * since
    BY <1>1, <1>2, <1>5
  <2> QED  BY <1>3, <2>1 DEF Counted, m, x
<1>6. CASE a + Burst <= v /\ t >= since
  <2>1. Rate * since <= Rate * t
    BY <1>1, <1>6, RateMonotonic
  <2>2. a + paid + (x - paid - Rate * t) <= v - Rate * since
    BY <1>1, <1>2, <1>6, <2>1, RateAssumption
  <2> QED  BY <1>3, <1>6, <2>2 DEF Counted, m, x
<1>7. CASE a + Burst <= v /\ ~(t >= since)
  BY <1>7 DEF Counted
<1> QED  BY <1>4, <1>5, <1>6, <1>7

\* The same for a client that had none.
LEMMA FreshCounted ==
  ASSUME TypeOK, NEW t \in Nat, now <= t + MaxLag, NEW a \in Nat, NEW v \in Int,
         Forgotten(a, v)
  PROVE  Counted([tokens |-> Burst, last |-> t], a, v)
<1>1. since \in Nat /\ now \in Nat /\ Rate * since \in Int
  BY RateAssumption DEF TypeOK
<1>2. Credit([tokens |-> Burst, last |-> t]) = Burst - Rate * t /\ Rate * t \in Int
  BY RateAssumption DEF Credit
<1>3. Rate * (now - MaxLag) <= Rate * t /\ Rate * (now - MaxLag) \in Int
  BY <1>1, RateMonotonic, RateAssumption
<1>4. Rate * (now - MaxLag - since) = Rate * (now - MaxLag) - Rate * since
  BY <1>1, RateDifference, RateAssumption
<1>5. CASE a + Burst <= v
  BY <1>5 DEF Counted
<1>6. CASE a + Burst <= v + Rate * (now - MaxLag - since)
  <2>1. a + (Burst - Rate * t) <= v - Rate * since
    BY <1>1, <1>2, <1>3, <1>4, <1>6, RateAssumption
  <2> QED  BY <1>2, <2>1 DEF Counted
<1> QED  BY <1>5, <1>6 DEF Forgotten

\* A new bucket may owe nothing.
LEMMA FreshCredit ==
  ASSUME TypeOK, NEW t \in Nat, t <= now
  PROVE  /\ [tokens |-> Burst, last |-> t] \in Bucket
         /\ Credit([tokens |-> Burst, last |-> t]) + Rate * now >= 0
<1>1. now \in Nat
  BY DEF TypeOK
<1>2. Rate * t <= Rate * now /\ Rate * t \in Int /\ Rate * now \in Int
  BY <1>1, RateMonotonic
<1> QED  BY <1>2, RateAssumption DEF Bucket, Credit

---------------------------------------------------------------------------
(* What prune does to them.                                                *)

\* A bucket idle for the hour is as full as a new one, but for the shortfall.
LEMMA IdleForgotten ==
  ASSUME TypeOK, NEW b \in Bucket, Kept(b), NEW a \in Nat, NEW v \in Int, Counted(b, a, v),
         b.last < now - PruneAge
  PROVE  Forgotten(a, v + Shortfall)
<1>1. now \in Nat /\ since \in Nat /\ b.tokens \in Int /\ b.last \in Int
  BY DEF TypeOK, Bucket
<1>2. Rate * b.last <= Rate * (now - PruneAge) /\ Rate * b.last \in Int
  BY <1>1, RateMonotonic, RateAssumption
<1>3. /\ Rate * (now - PruneAge) = Rate * now - Rate * PruneAge
      /\ Rate * now \in Int /\ Rate * PruneAge \in Int /\ Rate * since \in Int
      /\ Rate * MaxLag \in Nat
  BY <1>1, RateAssumption
<1>4. /\ Rate * PruneAge - Rate * MaxLag - Rate * MaxLag + Shortfall >= Burst
      /\ Shortfall \in Nat
  BY ShortfallType
<1>5. Rate * (now - MaxLag - since) = Rate * now - Rate * MaxLag - Rate * since
  BY <1>1, RateAssumption
<1>6. CASE a + Credit(b) <= v - Rate * since
  <2>1. b.tokens >= -(Rate * MaxLag)
    BY DEF Kept
  <2>2. a + (b.tokens - Rate * b.last) <= v - Rate * since
    BY <1>6 DEF Credit
  <2>3. a + Burst <= v + Shortfall + (Rate * now - Rate * MaxLag - Rate * since)
    BY <1>1, <1>2, <1>3, <1>4, <2>1, <2>2, RateAssumption
  <2> QED  BY <1>5, <2>3 DEF Forgotten
<1>7. CASE a + Burst <= v
  <2>1. a + Burst <= v + Shortfall
    BY <1>4, <1>7, RateAssumption
  <2> QED  BY <2>1 DEF Forgotten
<1> QED  BY <1>6, <1>7 DEF Counted

\* A bucket in use that is deleted costs one more burst.
LEMMA RacedForgotten ==
  ASSUME TypeOK, NEW b \in Bucket, Kept(b), NEW a \in Nat, NEW v \in Int, Counted(b, a, v)
  PROVE  Forgotten(a, v + Burst + Rate * MaxLag)
<1>1. now \in Nat /\ since \in Nat /\ b.tokens \in Int /\ b.last \in Int
  BY DEF TypeOK, Bucket
<1>2. Rate * now \in Int /\ Rate * since \in Int /\ Rate * b.last \in Int
  BY <1>1, RateAssumption
<1>3. Credit(b) \in Int /\ Credit(b) + Rate * now >= 0
  BY <1>1, <1>2 DEF Kept, Credit
<1>4. Rate * MaxLag \in Nat
  BY ShortfallType
<1>5. Rate * (now - MaxLag - since) = Rate * now - Rate * MaxLag - Rate * since
  BY <1>1, RateAssumption
<1>6. CASE a + Credit(b) <= v - Rate * since
  <2>1. a + Burst <= v + Burst + Rate * MaxLag + (Rate * now - Rate * MaxLag - Rate * since)
    BY <1>1, <1>2, <1>3, <1>4, <1>6, RateAssumption
  <2> QED  BY <1>5, <2>1 DEF Forgotten
<1>7. CASE a + Burst <= v
  <2>1. a + Burst <= v + Burst + Rate * MaxLag
    BY <1>4, <1>7, RateAssumption
  <2> QED  BY <2>1 DEF Forgotten
<1> QED  BY <1>6, <1>7 DEF Counted

---------------------------------------------------------------------------
(* The steps.                                                              *)

\* What a client may still get only grows with the time.
LEMMA AccountsStay ==
  ASSUME TypeOK, NEW c \in Clients, Accounts(c),
         buckets'[c] = buckets[c], admitted'[c] = admitted[c], races'[c] = races[c],
         pruned'[c] = pruned[c], since' = since, now' \in Nat, now <= now'
  PROVE  Accounts(c)'
<1> DEFINE b == buckets[c]
           v == Allowance(races[c], pruned[c])
<1>1. now \in Nat /\ since \in Nat /\ b.tokens \in Int /\ b.last \in Int
      /\ admitted[c] \in Nat /\ races[c] \in Nat /\ pruned[c] \in Nat
  BY DEF TypeOK, Bucket
<1>2. Rate * now <= Rate * now' /\ Rate * now \in Int /\ Rate * now' \in Int
      /\ Rate * b.last \in Int
  BY <1>1, RateMonotonic
<1>3. v \in Int /\ v' = v
  BY <1>1, AllowanceType DEF Allowance
<1>4. Accounts(c) = IF b = None THEN Forgotten(admitted[c], v)
                    ELSE Kept(b) /\ Counted(b, admitted[c], v)
  BY DEF Accounts
<1>5. Accounts(c)' = IF b' = None THEN Forgotten(admitted[c], v)'
                     ELSE Kept(b)' /\ Counted(b, admitted[c], v)'
  BY DEF Accounts
<1> HIDE DEF v
<1>6. CASE b = None
  <2>1. /\ Rate * (now - MaxLag - since) <= Rate * (now' - MaxLag - since)
        /\ Rate * (now - MaxLag - since) \in Int /\ Rate * (now' - MaxLag - since) \in Int
    BY <1>1, LaterMore
  <2>2. \/ admitted[c] + Burst <= v
        \/ admitted[c] + Burst <= v + Rate * (now - MaxLag - since)
    BY <1>6, <1>4 DEF Forgotten
  <2>3. \/ admitted[c] + Burst <= v
        \/ admitted[c] + Burst <= v + Rate * (now' - MaxLag - since)
    BY <1>1, <1>3, <2>1, <2>2, RateAssumption
  <2>4. Forgotten(admitted[c], v)'
    BY <1>3, <2>3 DEF Forgotten
  <2> QED  BY <1>6, <1>5, <2>4
<1>7. CASE b # None
  <2>1. Kept(b) /\ Counted(b, admitted[c], v)
    BY <1>7, <1>4
  <2>2. Credit(b) \in Int
    BY <1>1, <1>2 DEF Credit
  <2>3. Kept(b)'
    <3>1. b' = b /\ Credit(b)' = Credit(b)
      BY DEF Credit
    <3>2. b.last \in 0..now' /\ b.tokens >= -(Rate * MaxLag) /\ Credit(b) + Rate * now' >= 0
      BY <1>1, <1>2, <2>1, <2>2 DEF Kept
    <3> QED  BY <3>1, <3>2 DEF Kept
  <2>4. Counted(b, admitted[c], v)'
    BY <1>3, <2>1 DEF Counted, Credit
  <2> QED  BY <1>7, <1>5, <2>3, <2>4
<1> QED  BY <1>6, <1>7

\* The types of a bucket.
LEMMA NoneBucket == None \in Bucket
BY DEF None, Bucket

\* The request in the middleware is still one.
LEMMA RequestedStays ==
  ASSUME TypeOK, Requested, NEW r \in Requests, NEW q,
         req' = [req EXCEPT ![r] = q], IsReq(q, now), now' = now
  PROVE  Requested' /\ req' = [s \in Requests |-> req'[s]]
<1>1. req = [s \in Requests |-> req[s]]
  BY DEF TypeOK
<1>2. \A s \in Requests : req'[s] = IF s = r THEN q ELSE req[s]
  BY <1>1
<1>3. req' = [s \in Requests |-> req'[s]]
  BY <1>1
<1>4. SUFFICES ASSUME NEW s \in Requests  PROVE IsReq(req'[s], now')
  BY <1>3 DEF Requested
<1>5. CASE s = r
  BY <1>2, <1>5
<1>6. CASE s # r
  <2>1. req'[s] = req[s] /\ IsReq(req[s], now)
    BY <1>2, <1>6 DEF Requested
  <2> QED  BY <2>1 DEF IsReq
<1> QED  BY <1>5, <1>6

\* Nobody is waiting, or a client is.
LEMMA IdleIsReq ==
  ASSUME TypeOK
  PROVE  IsReq(Idle, now)
<1>1. now \in Nat
  BY DEF TypeOK
<1> QED  BY <1>1 DEF IsReq, Idle, ReqAt

Safe == TypeOK /\ Requested /\ Accounted

\* The steps that leave the buckets and the counts alone.
LEMMA LookingSafe ==
  ASSUME Safe, NEW r \in Requests, NEW q, req' = [req EXCEPT ![r] = q], IsReq(q, now),
         UNCHANGED <<now, buckets, observed>>
  PROVE  Safe'
<1>1. TypeOK /\ Requested /\ Accounted
  BY DEF Safe
<1>2. now' = now /\ buckets' = buckets /\ admitted' = admitted /\ races' = races
      /\ pruned' = pruned /\ since' = since
  BY DEF observed
<1>3. Requested' /\ req' = [s \in Requests |-> req'[s]]
  BY <1>1, <1>2, RequestedStays
<1>4. TypeOK'
  BY <1>1, <1>2, <1>3 DEF TypeOK
<1>5. now \in Nat
  BY <1>1 DEF TypeOK
<1>6. ASSUME NEW c \in Clients  PROVE Accounts(c)'
  BY <1>1, <1>2, <1>5, AccountsStay DEF Accounted
<1>7. Accounted'
  BY <1>6 DEF Accounted
<1> QED  BY <1>3, <1>4, <1>7 DEF Safe

\* A request enters with the time of the clock.
LEMMA ArriveSafe ==
  ASSUME Safe, NEW r \in Requests, NEW c \in Clients, Arrive(r, c)
  PROVE  Safe'
<1> DEFINE todo == {x \in Clients : Prunes /\ buckets[x] # None}
           q == ReqAt(IF todo = {} THEN "clock" ELSE "prune", c, now, todo, Nobody, None)
<1>1. now \in Nat
  BY DEF Safe, TypeOK
<1>2. UNCHANGED <<now, buckets, observed>> /\ req' = [req EXCEPT ![r] = q]
  BY DEF Arrive
<1>3. q.pc \in {"clock", "prune"} /\ q.client = c /\ q.at = now /\ q.todo = todo
      /\ q = ReqAt(q.pc, q.client, q.at, q.todo, q.target, q.found)
      /\ todo \subseteq Clients
  BY DEF ReqAt
<1> HIDE DEF q, todo
<1>4. IsReq(q, now)
  BY <1>1, <1>3 DEF IsReq
<1> QED  BY <1>2, <1>4, LookingSafe

\* prune goes on to a bucket that is idle, or past one that is not.
LEMMA PruneLookSafe ==
  ASSUME Safe, NEW r \in Requests, NEW c \in Clients, PruneLook(r, c)
  PROVE  Safe'
<1> DEFINE o == req[r]
           todo == o.todo \ {c}
           d == ReqAt("delete", o.client, o.at, todo, c, buckets[c])
           p == ReqAt(Onward(todo), o.client, o.at, todo, Nobody, None)
           q == IF Stale(c, o.at) THEN d ELSE p
<1>1. o.pc = "prune" /\ IsReq(o, now)
  BY DEF Safe, Requested, PruneLook
<1>2. UNCHANGED <<now, buckets, observed>> /\ req' = [req EXCEPT ![r] = q]
  BY DEF PruneLook, Safe, TypeOK
<1>3. o.at \in Nat /\ o.at <= now /\ todo \subseteq Clients /\ o.client \in Clients
  BY <1>1 DEF IsReq
<1>4. CASE Stale(c, o.at)
  <2>1. buckets[c] # None /\ buckets[c].last < o.at - PruneAge
    BY <1>4 DEF Stale
  <2>2. IsReq(d, now)
    BY <1>3, <2>1 DEF IsReq, ReqAt
  <2> QED  BY <1>2, <1>4, <2>2, LookingSafe
<1>5. CASE ~Stale(c, o.at)
  <2>1. Onward(todo) \in {"clock", "prune"}
    BY DEF Onward
  <2>2. IsReq(p, now)
    BY <1>3, <2>1 DEF IsReq, ReqAt
  <2> QED  BY <1>2, <1>5, <2>2, LookingSafe
<1> QED  BY <1>4, <1>5

\* A request that has just read the clock has not waited yet.
LEMMA ClockSafe ==
  ASSUME Safe, NEW r \in Requests, Clock(r)
  PROVE  Safe'
<1> DEFINE q == ReqAt("lock", req[r].client, now, {}, Nobody, None)
<1>1. req[r].pc = "clock" /\ IsReq(req[r], now) /\ now \in Nat
  BY DEF Safe, Requested, Clock, TypeOK
<1>2. UNCHANGED <<now, buckets, observed>> /\ req' = [req EXCEPT ![r] = q]
  BY DEF Clock, Safe, TypeOK
<1>3. req[r].client \in Clients
  BY <1>1 DEF IsReq
<1>4. IsReq(q, now)
  BY <1>1, <1>3, RateAssumption DEF IsReq, ReqAt
<1> QED  BY <1>2, <1>4, LookingSafe

\* Taking the lock changes nothing else.
LEMMA LockSafe ==
  ASSUME Safe, NEW r \in Requests, Lock(r)
  PROVE  Safe'
<1> DEFINE o == req[r]
           q == [o EXCEPT !.pc = "allow"]
<1>1. o.pc = "lock" /\ IsReq(o, now)
  BY DEF Safe, Requested, Lock
<1>2. UNCHANGED <<now, buckets, observed>> /\ req' = [req EXCEPT ![r] = q]
  BY DEF Lock, Safe, TypeOK
<1>3. q = ReqAt("allow", o.client, o.at, o.todo, o.target, o.found)
  BY <1>1 DEF IsReq, ReqAt
<1>4. IsReq(q, now)
  BY <1>1, <1>3 DEF IsReq, ReqAt
<1> QED  BY <1>2, <1>4, LookingSafe

\* prune forgets a full bucket, or takes one from under a request.
LEMMA PruneDeleteSafe ==
  ASSUME Safe, NEW r \in Requests, PruneDelete(r)
  PROVE  Safe'
<1> DEFINE o == req[r]
           c == o.target
           b == buckets[c]
           more == IF b \in {None, o.found} THEN 0 ELSE 1
           idle == IF b = o.found THEN 1 ELSE 0
           v == Allowance(races[c], pruned[c])
           w == Allowance(races[c] + more, pruned[c] + idle)
           q == ReqAt(Onward(o.todo), o.client, o.at, o.todo, Nobody, None)
<1>1. TypeOK /\ Requested /\ Accounted
  BY DEF Safe
<1>2. o.pc = "delete" /\ IsReq(o, now)
  BY <1>1 DEF Requested, PruneDelete
<1>3. o.at \in Nat /\ o.at <= now /\ o.todo \subseteq Clients /\ o.client \in Clients
      /\ c \in Clients /\ o.found # None /\ o.found.last < o.at - PruneAge
  BY <1>2 DEF IsReq
<1>4. buckets' = [buckets EXCEPT ![c] = None] /\ races' = [races EXCEPT ![c] = @ + more]
      /\ pruned' = [pruned EXCEPT ![c] = @ + idle]
      /\ req' = [req EXCEPT ![r] = q] /\ now' = now /\ admitted' = admitted /\ since' = since
  BY DEF PruneDelete, TypeOK
<1>5. IsReq(q, now)
  <2>1. Onward(o.todo) \in {"clock", "prune"}
    BY DEF Onward
  <2> QED  BY <1>3, <2>1 DEF IsReq, ReqAt
<1>6. Requested' /\ req' = [s \in Requests |-> req'[s]]
  BY <1>1, <1>4, <1>5, RequestedStays
<1>7. more \in Nat /\ idle \in Nat /\ b \in Bucket /\ admitted[c] \in Nat
      /\ races[c] \in Nat /\ pruned[c] \in Nat /\ now \in Nat
  BY <1>1, <1>3 DEF TypeOK
<1> HIDE DEF q, more, idle
<1>8. buckets'[c] = None /\ races'[c] = races[c] + more /\ pruned'[c] = pruned[c] + idle
  BY <1>1, <1>3, <1>4 DEF TypeOK
<1>9. ASSUME NEW x \in Clients, x # c
      PROVE  /\ buckets'[x] = buckets[x] /\ races'[x] = races[x]
             /\ pruned'[x] = pruned[x] /\ admitted'[x] = admitted[x]
  BY <1>1, <1>4, <1>9 DEF TypeOK
<1>10. TypeOK'
  <2>1. buckets' \in [Clients -> Bucket]
    BY <1>1, <1>3, <1>4, NoneBucket DEF TypeOK
  <2>2. races' \in [Clients -> Nat]
    BY <1>1, <1>3, <1>4, <1>7 DEF TypeOK
  <2>3. pruned' \in [Clients -> Nat]
    BY <1>1, <1>3, <1>4, <1>7 DEF TypeOK
  <2> QED  BY <1>1, <1>4, <1>6, <2>1, <2>2, <2>3 DEF TypeOK
<1>11. Forgotten(admitted[c], w)
  <2>1. /\ IF b = None THEN Forgotten(admitted[c], v)
           ELSE Kept(b) /\ Counted(b, admitted[c], v)
        /\ v \in Int
    BY <1>1, <1>3, <1>7, AllowanceType DEF Accounted, Accounts
  <2>2. CASE b = None
    <3>1. more = 0 /\ idle = 0 /\ Forgotten(admitted[c], v)
      BY <1>3, <2>1, <2>2 DEF more, idle
    <3>2. w = v
      BY <1>7, <3>1
    <3> QED  BY <3>1, <3>2
  <2>3. CASE b # None /\ b = o.found
    <3>1. more = 0 /\ idle = 1 /\ Kept(b) /\ Counted(b, admitted[c], v)
      BY <2>1, <2>3 DEF more, idle
    <3>2. b.last < now - PruneAge
      BY <1>3, <1>7, <2>3, RateAssumption DEF Bucket
    <3>3. Forgotten(admitted[c], v + Shortfall)
      BY <1>1, <1>7, <2>1, <3>1, <3>2, IdleForgotten
    <3>4. w = v + Shortfall
      BY <1>7, <3>1, AllowanceType
    <3> QED  BY <3>3, <3>4
  <2>4. CASE b # None /\ b # o.found
    <3>1. more = 1 /\ idle = 0 /\ Kept(b) /\ Counted(b, admitted[c], v)
      BY <2>1, <2>4 DEF more, idle
    <3>2. Forgotten(admitted[c], v + Burst + Rate * MaxLag)
      BY <1>1, <1>7, <2>1, <3>1, RacedForgotten
    <3>3. w = v + Burst + Rate * MaxLag
      BY <1>7, <3>1, AllowanceType
    <3> QED  BY <3>2, <3>3
  <2> QED  BY <2>2, <2>3, <2>4
<1>12. Accounted'
  <2>1. SUFFICES ASSUME NEW x \in Clients  PROVE Accounts(x)'
    BY DEF Accounted
  <2>2. CASE x = c
    <3>1. Allowance(races[x], pruned[x])' = w
      BY <1>8, <2>2 DEF Allowance
    <3>2. Forgotten(admitted[x], Allowance(races[x], pruned[x]))'
      BY <1>4, <1>11, <2>2, <3>1 DEF Forgotten
    <3> QED  BY <1>8, <2>2, <3>2 DEF Accounts
  <2>3. CASE x # c
    BY <1>1, <1>4, <1>7, <1>9, <2>3, AccountsStay DEF Accounted
  <2> QED  BY <2>2, <2>3
<1> QED  BY <1>6, <1>10, <1>12 DEF Safe

\* A bucket made at a time of the clock is one.
LEMMA NotNone ==
  ASSUME NEW x, NEW t \in Nat
  PROVE  [tokens |-> x, last |-> t] # None
<1>1. [tokens |-> x, last |-> t].last = t /\ None.last = -1
  BY DEF None
<1>2. t # -1
  OBVIOUS
<1> QED  BY <1>1, <1>2

\* allow charges the bucket of the client.
LEMMA AllowSafe ==
  ASSUME Safe, NEW r \in Requests, Allow(r)
  PROVE  Safe'
<1> DEFINE o == req[r]
           c == o.client
           t == o.at
           b == Current(c, t)
           x == Refill(b, t)
           paid == IF x >= Cost THEN Cost ELSE 0
           more == IF t >= since THEN paid ELSE 0
           v == Allowance(races[c], pruned[c])
           new == [tokens |-> x - paid, last |-> t]
<1>1. TypeOK /\ Requested /\ Accounted
  BY DEF Safe
<1>2. o.pc = "allow" /\ IsReq(o, now)
  BY <1>1 DEF Requested, Allow
<1>3. t \in Nat /\ t <= now /\ now <= t + MaxLag /\ c \in Clients
  BY <1>2 DEF IsReq
<1>4. buckets' = [buckets EXCEPT ![c] = new] /\ admitted' = [admitted EXCEPT ![c] = @ + more]
      /\ req' = [req EXCEPT ![r] = Idle] /\ now' = now /\ races' = races
      /\ pruned' = pruned /\ since' = since
  BY DEF Allow
<1>5. now \in Nat /\ since \in Nat /\ buckets[c] \in Bucket /\ admitted[c] \in Nat
      /\ races[c] \in Nat /\ pruned[c] \in Nat
  BY <1>1, <1>3 DEF TypeOK
<1>6. /\ IF buckets[c] = None THEN Forgotten(admitted[c], v)
         ELSE Kept(buckets[c]) /\ Counted(buckets[c], admitted[c], v)
      /\ v \in Int
  BY <1>1, <1>3, <1>5, AllowanceType DEF Accounted, Accounts
<1> HIDE DEF v
<1>7. /\ b \in Bucket /\ Credit(b) + Rate * now >= 0
      /\ Counted(b, admitted[c], v)
  <2>1. CASE buckets[c] = None
    <3>1. b = [tokens |-> Burst, last |-> t]
      BY <2>1 DEF Current
    <3>2. Forgotten(admitted[c], v)
      BY <1>6, <2>1
    <3>3. Counted([tokens |-> Burst, last |-> t], admitted[c], v)
      BY <1>1, <1>3, <1>5, <1>6, <3>2, FreshCounted
    <3> QED  BY <1>1, <1>3, <3>1, <3>3, FreshCredit
  <2>2. CASE buckets[c] # None
    <3>1. b = buckets[c]
      BY <2>2 DEF Current
    <3>2. Kept(buckets[c]) /\ Counted(buckets[c], admitted[c], v)
      BY <1>6, <2>2
    <3>3. Credit(buckets[c]) + Rate * now >= 0
      BY <3>2 DEF Kept
    <3> QED  BY <1>5, <3>1, <3>2, <3>3
  <2> QED  BY <2>1, <2>2
<1>8. paid \in Nat /\ more \in Nat
  BY RateAssumption
<1> HIDE DEF b
<1>9. x \in Int
  BY <1>3, <1>7, RefillCredit
<1>10. new \in Bucket /\ new # None
  BY <1>3, <1>8, <1>9, PaidCredit, NotNone
<1>11. Kept(new)
  BY <1>1, <1>3, <1>7, <1>8, UseKept
<1>12. Counted(new, admitted[c] + more, v)
  BY <1>1, <1>3, <1>5, <1>6, <1>7, <1>8, UseCounted
<1> HIDE DEF new, more, paid, x
<1>13. Requested' /\ req' = [s \in Requests |-> req'[s]]
  BY <1>1, <1>4, IdleIsReq, RequestedStays
<1>14. buckets'[c] = new /\ admitted'[c] = admitted[c] + more /\ races'[c] = races[c]
  BY <1>1, <1>3, <1>4 DEF TypeOK
<1>15. ASSUME NEW y \in Clients, y # c
       PROVE  /\ buckets'[y] = buckets[y] /\ races'[y] = races[y]
              /\ pruned'[y] = pruned[y] /\ admitted'[y] = admitted[y]
  BY <1>1, <1>4, <1>15 DEF TypeOK
<1>16. TypeOK'
  <2>1. buckets' \in [Clients -> Bucket]
    BY <1>1, <1>3, <1>4, <1>10 DEF TypeOK
  <2>2. admitted' \in [Clients -> Nat]
    <3>1. admitted[c] + more \in Nat
      BY <1>5, <1>8
    <3> QED  BY <1>1, <1>3, <1>4, <3>1 DEF TypeOK
  <2> QED  BY <1>1, <1>4, <1>13, <2>1, <2>2 DEF TypeOK
<1>17. Accounted'
  <2>1. SUFFICES ASSUME NEW y \in Clients  PROVE Accounts(y)'
    BY DEF Accounted
  <2>2. CASE y = c
    <3>1. Kept(buckets[y])'
      BY <1>4, <1>11, <1>14, <2>2 DEF Kept, Credit
    <3>2. Allowance(races[y], pruned[y])' = v
      BY <1>4, <2>2 DEF Allowance, v
    <3>3. Counted(buckets[y], admitted[y], Allowance(races[y], pruned[y]))'
      BY <1>4, <1>12, <1>14, <2>2, <3>2 DEF Counted, Credit
    <3> QED  BY <1>10, <1>14, <2>2, <3>1, <3>3 DEF Accounts
  <2>3. CASE y # c
    BY <1>1, <1>4, <1>5, <1>15, <2>3, AccountsStay DEF Accounted
  <2> QED  BY <2>2, <2>3
<1> QED  BY <1>13, <1>16, <1>17 DEF Safe

\* Nothing is counted yet.
LEMMA NothingCounted ==
  ASSUME NEW b
  PROVE  Counted(b, 0, Allowance(0, 0)) /\ Forgotten(0, Allowance(0, 0))
<1>1. Allowance(0, 0) \in Int /\ Allowance(0, 0) >= Burst
  BY AllowanceType
<1> QED  BY <1>1, RateAssumption DEF Counted, Forgotten

\* The next process has no buckets.
LEMMA ThrowSafe ==
  ASSUME Safe, Throw
  PROVE  Safe'
<1>1. /\ buckets' = Empty /\ req' = [r \in Requests |-> Idle]
      /\ admitted' = Zero /\ races' = Zero /\ pruned' = Zero
      /\ since' = now /\ now' = now
  BY DEF Throw
<1>2. now \in Nat /\ TypeOK
  BY DEF Safe, TypeOK
<1>3. TypeOK'
  BY <1>1, <1>2, NoneBucket DEF TypeOK, Empty, Zero
<1>4. Requested'
  BY <1>1, <1>2, IdleIsReq DEF Requested
<1>5. ASSUME NEW c \in Clients  PROVE Accounts(c)'
  <2>1. buckets'[c] = None /\ admitted'[c] = 0 /\ races'[c] = 0 /\ pruned'[c] = 0
    BY <1>1 DEF Empty, Zero
  <2>2. 0 + Burst <= Allowance(0, 0)
    <3>1. Allowance(0, 0) \in Int /\ Allowance(0, 0) >= Burst
      BY AllowanceType
    <3> QED  BY <3>1, RateAssumption
  <2> QED  BY <2>1, <2>2 DEF Accounts, Forgotten, Allowance
<1> QED  BY <1>3, <1>4, <1>5 DEF Safe, Accounted

\* Whenever the observer starts, the buckets hold at most the burst.
LEMMA ObserveSafe ==
  ASSUME Safe, Observe
  PROVE  Safe'
<1>1. /\ admitted' = Zero /\ races' = Zero /\ pruned' = Zero
      /\ since' = now /\ now' = now
      /\ buckets' = buckets /\ req' = req
  BY DEF Observe
<1>2. now \in Nat /\ TypeOK /\ Requested /\ Accounted
  BY DEF Safe, TypeOK
<1>3. TypeOK'
  BY <1>1, <1>2 DEF TypeOK, Zero
<1>4. Requested'
  BY <1>1, <1>2 DEF Requested
<1>5. ASSUME NEW c \in Clients  PROVE Accounts(c)'
  <2>1. buckets'[c] = buckets[c] /\ admitted'[c] = 0 /\ races'[c] = 0 /\ pruned'[c] = 0 /\ Accounts(c)
    BY <1>1, <1>2 DEF Zero, Accounted
  <2>2. 0 + Burst <= Allowance(0, 0)
    <3>1. Allowance(0, 0) \in Int /\ Allowance(0, 0) >= Burst
      BY AllowanceType
    <3> QED  BY <3>1, RateAssumption
  <2>3. CASE buckets[c] = None
    BY <2>1, <2>2, <2>3 DEF Accounts, Forgotten, Allowance
  <2>4. CASE buckets[c] # None
    <3>1. Kept(buckets[c])'
      BY <1>1, <2>1, <2>4 DEF Accounts, Kept, Credit
    <3>2. Counted(buckets[c], admitted[c], Allowance(races[c], pruned[c]))'
      BY <2>1, <2>2 DEF Counted, Allowance
    <3> QED  BY <2>1, <2>4, <3>1, <3>2 DEF Accounts
  <2> QED  BY <2>3, <2>4
<1> QED  BY <1>3, <1>4, <1>5 DEF Safe, Accounted

\* The clock does not run away from a request that waits.
LEMMA TickSafe ==
  ASSUME Safe, Tick
  PROVE  Safe'
<1>1. /\ admitted' = admitted /\ races' = races /\ pruned' = pruned /\ since' = since
      /\ now' = now + 1
      /\ buckets' = buckets /\ req' = req
  BY DEF Tick, observed
<1>2. now \in Nat /\ TypeOK /\ Requested /\ Accounted
  BY DEF Safe, TypeOK
<1>3. TypeOK'
  BY <1>1, <1>2 DEF TypeOK
<1>4. Requested'
  <2>1. SUFFICES ASSUME NEW r \in Requests  PROVE IsReq(req[r], now + 1)
    BY <1>1 DEF Requested
  <2>2. IsReq(req[r], now)
    BY <1>2 DEF Requested
  <2>3. req[r].at \in Nat /\ req[r].at <= now + 1
    BY <1>2, <2>2 DEF IsReq
  <2>4. req[r].pc \in {"lock", "allow"} => now + 1 <= req[r].at + MaxLag
    <3>1. req[r].pc \in {"lock", "allow"} => now < req[r].at + MaxLag
      BY DEF Tick
    <3> QED  BY <1>2, <2>3, <3>1, RateAssumption
  <2> QED  BY <2>2, <2>3, <2>4 DEF IsReq
<1>5. ASSUME NEW c \in Clients  PROVE Accounts(c)'
  <2>1. now' \in Nat /\ now <= now'
    BY <1>1, <1>2
  <2> QED  BY <1>1, <1>2, <2>1, AccountsStay DEF Accounted
<1> QED  BY <1>3, <1>4, <1>5 DEF Safe, Accounted

\* There are no buckets and nobody is counted.
LEMMA InitSafe == Init => Safe
<1> SUFFICES ASSUME Init PROVE Safe
  OBVIOUS
<1>1. TypeOK
  BY NoneBucket DEF Init, TypeOK, Empty, Zero
<1>2. Requested
  BY <1>1, IdleIsReq DEF Init, Requested
<1>3. ASSUME NEW c \in Clients  PROVE Accounts(c)
  BY NothingCounted DEF Init, Accounts, Empty, Zero
<1> QED  BY <1>1, <1>2, <1>3 DEF Safe, Accounted

\* A step that changes nothing.
LEMMA StutterSafe ==
  ASSUME Safe, UNCHANGED vars
  PROVE  Safe'
BY Zenon DEF Safe, TypeOK, Requested, Accounted, Accounts, Forgotten, Kept, Counted, Credit,
             Allowance, vars, observed

\* In no period does a client get more than the burst and the refill of the
\* period, with what the hour does not refill for each idle bucket that prune
\* deletes, and at most one burst more for each that it takes from under a
\* request (ratelimit.go, allow and prune); for every rate, burst and age.
THEOREM AdmissionBounded == Spec => []AdmissionBound
<1>1. Safe /\ [Next]_vars => Safe'
  BY ArriveSafe, PruneLookSafe, PruneDeleteSafe, ClockSafe, LockSafe, AllowSafe, ThrowSafe,
     ObserveSafe, TickSafe, StutterSafe DEF Next
<1>2. Safe => AdmissionBound
  BY BoundHolds DEF Safe, Accounted, AdmissionBound
<1> QED  BY InitSafe, <1>1, <1>2, PTL DEF Spec
============================================================================
