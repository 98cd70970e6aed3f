--------------------------- MODULE StoreContract ---------------------------
(***************************************************************************)
(* KVStore implements CommitContract: the mapping reads where the promise  *)
(* of a key stands off the two layers, the dirty set and the flushes.      *)
(***************************************************************************)
EXTENDS KVStore

\* The promises that bind: of writes that were alone, and not yet lapsed.
Binding(k) ==
    /\ k \in DOMAIN promised /\ promised[k].alone
    /\ now < Lapse(promised[k].expiresAt)

\* A row that is in the table may be pending as well: the table comes first.
Stands(k) ==
    IF ~Served(k) THEN "lost"
    ELSE IF Stored(k) THEN "durable"
    ELSE CASE promised[k].value.mode = "async" /\ Pending(k) -> "pending"
           [] promised[k].value.mode = "memory"              -> "memory"
           [] OTHER                                          -> "lost"

NoPromise == [id |-> 0, mode |-> "none", lapse |-> 0, stands |-> "nowhere"]

Contract == INSTANCE CommitContract WITH
    crashes <- restarts,
    promise <- [k \in Keys |->
                   IF Binding(k)
                   THEN [id |-> promised[k].value.id, mode |-> promised[k].value.mode,
                         lapse |-> Lapse(promised[k].expiresAt), stands |-> Stands(k)]
                   ELSE NoPromise]

\* The cached store implements the contract of its commit modes: an
\* acknowledged write stands where its mode says, moves from pending to
\* durable and never back, is withdrawn only while the process runs, ends in
\* time exactly when it lapses, and a crash followed by Open and loadCache
\* keeps exactly the durable ones.
ImplementsContract == Contract!CSpec
===========================================================================
