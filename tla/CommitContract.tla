--------------------------- MODULE CommitContract ---------------------------
(***************************************************************************)
(* What a commit mode promises the client of an acknowledged write: the    *)
(* comments on PutMode in internal/store/store.go as a specification.  It  *)
(* knows nothing of rows, entries, dirty marks, flushes or texts.          *)
(*                                                                         *)
(* A key has no promise, or the promise of the last acknowledged write.    *)
(* The promise stands in memory, is pending, or is durable; a crash ends   *)
(* exactly the promises that are not durable, and time exactly those that  *)
(* have lapsed.                                                            *)
(***************************************************************************)
EXTENDS Naturals

CONSTANT Keys

VARIABLES now, crashes,
          promise   \* key -> NoPromise, or a promise with where it stands

cvars == <<now, crashes, promise>>

NoPromise == [id |-> 0, mode |-> "none", lapse |-> 0, stands |-> "nowhere"]

\* Where a write may stand when it is acknowledged.
Granted(mode) ==
    CASE mode = "sync"   -> {"durable"}
      [] mode = "async"  -> {"pending", "durable"}
      [] mode = "memory" -> {"memory"}

CInit == /\ now \in Nat /\ crashes = 0
         /\ promise = [k \in Keys |-> NoPromise]

\* A write returns.  It may find itself too late to promise anything.
Acknowledge(k) ==
    /\ \E mode \in {"sync", "async", "memory"} :
          /\ promise'[k].mode = mode
          /\ promise'[k].stands \in Granted(mode)
    /\ promise'[k].id # promise[k].id
    /\ promise'[k].lapse > now
    /\ promise' = [promise EXCEPT ![k] = promise'[k]]
    /\ UNCHANGED <<now, crashes>>

\* Pending writes reach the disk.
Persist ==
    /\ \E S \in SUBSET {k \in Keys : promise[k].stands = "pending"} :
          promise' = [k \in Keys |-> IF k \in S THEN [promise[k] EXCEPT !.stands = "durable"]
                                     ELSE promise[k]]
    /\ UNCHANGED <<now, crashes>>

\* A later write of the key, or the eviction of it, ends a promise.
Withdraw ==
    /\ \E S \in SUBSET Keys :
          promise' = [k \in Keys |-> IF k \in S THEN NoPromise ELSE promise[k]]
    /\ UNCHANGED <<now, crashes>>

Advance ==
    /\ now' > now
    /\ promise' = [k \in Keys |-> IF now' >= promise[k].lapse THEN NoPromise ELSE promise[k]]
    /\ UNCHANGED crashes

Crash ==
    /\ crashes' = crashes + 1
    /\ promise' = [k \in Keys |-> IF promise[k].stands = "durable" THEN promise[k] ELSE NoPromise]
    /\ UNCHANGED now

CNext == (\E k \in Keys : Acknowledge(k)) \/ Persist \/ Withdraw \/ Advance \/ Crash

CSpec == CInit /\ [][CNext]_cvars
=============================================================================
