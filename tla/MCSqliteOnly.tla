---------------------------- MODULE MCSqliteOnly ----------------------------
(* SqliteOnly on small instances for TLC. *)
EXTENDS SqliteOnly, TLC

\* Keys, writers and readers are interchangeable in every property.
Symmetry == Permutations(Keys) \cup Permutations(Writers) \cup Permutations(Readers)
=============================================================================
