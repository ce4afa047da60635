--------------------------- MODULE MCSchemaCache ----------------------------
(* SchemaCache for TLC. *)
EXTENDS SchemaCache, TLC

CONSTANTS v1, v2, v3, k1, k2

\* v2 is v1 with a key; v3 has another column, and another key.
SomeColumns == [v \in Versions |-> IF v = v3 THEN <<"a", "b">> ELSE <<"a">>]
SomeKeys == [v \in Versions |-> IF v = v1 THEN NoKey ELSE IF v = v2 THEN k1 ELSE k2]

Symmetry == Permutations(Readers) \cup Permutations(Changers)
=============================================================================
