--------------------------- MODULE MCRateLimiter ---------------------------
(***************************************************************************)
(* RateLimiter on a small instance: three requests, so that one may wait   *)
(* for the lock while prune and another one use the bucket.                *)
(***************************************************************************)
EXTENDS RateLimiter, TLC

\* The requests are interchangeable.
Symmetry == Permutations(Requests)
============================================================================
