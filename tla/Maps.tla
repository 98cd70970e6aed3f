-------------------------------- MODULE Maps --------------------------------
(***************************************************************************)
(* Maps, that is functions whose domain changes: the table of SQLite and   *)
(* the maps of the Go code, with the selections that both sides make.      *)
(***************************************************************************)
EXTENDS Integers, FiniteSets, Functions

EmptyMap == [x \in {} |-> x]
Upsert(m, k, v) == [x \in DOMAIN m \cup {k} |-> IF x = k THEN v ELSE m[x]]
Overlay(m, n) == [x \in DOMAIN m \cup DOMAIN n |-> IF x \in DOMAIN n THEN n[x] ELSE m[x]]
Without(m, S) == Restrict(m, DOMAIN m \ S)
IsMap(m, K, V) == DOMAIN m \subseteq K /\ m \in [DOMAIN m -> V]

Least(x, y) == IF x < y THEN x ELSE y
Before(t, u) == t < u

\* The first n of the elements that f orders by Less (sort and cut, or
\* ORDER BY ... LIMIT n); ties are broken in any way.
Oldest(f, n, Less(_, _)) ==
    {S \in SUBSET DOMAIN f :
        /\ Cardinality(S) = Least(n, Cardinality(DOMAIN f))
        /\ \A x \in S, y \in DOMAIN f \ S : ~Less(f[y], f[x])}

\* One chunk of a slice whose order is that of a Go map: any n elements.
Chunks(S, n) == {C \in SUBSET S : Cardinality(C) = Least(n, Cardinality(S))}
=============================================================================
