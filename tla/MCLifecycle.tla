---------------------------- MODULE MCLifecycle ----------------------------
(***************************************************************************)
(* Lifecycle on small instances: one background flusher, the final flush.  *)
(***************************************************************************)
EXTENDS Lifecycle

\* Every key is one byte long.
MCKeyLen == [k \in Keys |-> 1]
===========================================================================
