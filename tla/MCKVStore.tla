----------------------------- MODULE MCKVStore -----------------------------
(***************************************************************************)
(* KVStore on small instances.                                             *)
(***************************************************************************)
EXTENDS StoreContract, TLC

\* Every key is one byte long.
MCKeyLen == [k \in Keys |-> 1]

\* Keys, writers and readers are interchangeable: no action or property
\* tells two of them apart.
Symmetry == Permutations(Keys) \cup Permutations(Writers) \cup Permutations(Readers)
===========================================================================
