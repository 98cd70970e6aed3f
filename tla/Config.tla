------------------------------- MODULE Config -------------------------------
(***************************************************************************)
(* config.Parse of internal/config/config.go and what run of cmd/kvp makes *)
(* of the result.  Parse goes through the variables in a fixed order; the  *)
(* closures of all of them share one err, and most return it even when     *)
(* their variable is unset.                                                *)
(*                                                                         *)
(* Variables has a representative of each kind of closure, in the order of *)
(* the code.  An int64 is a word that holds -Half..Half - 1 and wraps.     *)
(***************************************************************************)
EXTENDS Integers, Sequences, FiniteSets

CONSTANTS
    Half,         \* 2^63 in the code
    MiB,          \* 1024 * 1024
    MaxDBBytes,   \* KVP_MAX_DB_BYTES, or its default
    MemoryMB      \* the values of KVP_MEMORY_CACHE_MB, all of them an int64

Largest == Half - 1

ASSUME ConfigAssumption ==
    /\ Half \in Nat \ {0} /\ MiB \in Nat \ {0}
    /\ MaxDBBytes \in 1..Largest /\ MemoryMB \subseteq 0..Largest

\* The signed word that n leaves after an overflow.
Wrap(n) == ((n + Half) % (2 * Half)) - Half

CommitModes == {"sync", "async", "memory"}

Variables == <<"KVP_PORT", "KVP_API_KEY", "KVP_MAX_DB_BYTES", "KVP_MEMORY_CACHE_MB",
               "KVP_COMMIT_MODE", "KVP_RATE_LIMIT_RPS">>

\* A variable is taken as it is, or the setting is validated whether it is set
\* or not (and the defaults are valid), or it is parsed only when it is set.
Plain == {"KVP_API_KEY"}
Validated == {"KVP_PORT", "KVP_COMMIT_MODE"}

Name == {Variables[i] : i \in DOMAIN Variables}

\* What the environment has for each variable, and the numbers behind two.
Environment ==
    {e \in [raw : [Name -> {"unset", "valid", "invalid"}], mb : MemoryMB, mode : CommitModes] :
        \A v \in Plain : e.raw[v] # "invalid"}

Empty == [raw |-> [v \in Name |-> "unset"], mb |-> 0, mode |-> "sync"]

---------------------------------------------------------------------------
\* The closure of a variable returns an error, given the err it shares.
SetFails(e, v, err) ==
    \/ e.raw[v] = "invalid"
    \/ v \notin Plain \cup Validated /\ e.raw[v] = "unset" /\ err # "none"

\* Mutant of assign: an earlier error does not stop it.
assignOn(e, v, err) == IF SetFails(e, v, err) THEN v ELSE err

\* assign: the name that err starts with after the variable.
assign(e, v, err) == IF err # "none" \/ ~SetFails(e, v, err) THEN err ELSE v

\* The error that Parse returns.
ParseError(e) ==
    LET err[i \in 0..Len(Variables)] ==
            IF i = 0 THEN "none" ELSE assign(e, Variables[i], err[i - 1])
    IN  err[Len(Variables)]

\* cfg.MemoryCacheBytes
MemoryCacheBytes(e) ==
    IF e.raw["KVP_MEMORY_CACHE_MB"] = "valid" THEN Wrap(e.mb * MiB) ELSE MaxDBBytes

CommitMode(e) == IF e.raw["KVP_COMMIT_MODE"] = "valid" THEN e.mode ELSE "sync"

\* Mutant of evictionLimit: the eviction keeps to the size of the layer also
\* where there is none.
evictionLimitMemory(memory) == memory

\* run: the budget of the eviction.
evictionLimit(memory) == IF memory > 0 THEN memory ELSE MaxDBBytes

\* Open: the memory layer is enabled.
Caching(memory) == memory > 0
=============================================================================
