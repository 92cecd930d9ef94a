------------------------------- MODULE Keyset -------------------------------
(***************************************************************************)
(* The rows of a query in the order it asks for: the sort column, then the *)
(* id, which makes the order total (keysetOrderBy in cursor.ts).           *)
(***************************************************************************)
EXTENDS Integers, FiniteSets

\* The rows of S that come before x; the order is a set of pairs
Preceding(S, order, x) == {y \in S : <<y, x>> \in order}

\* orderBy: the k-th row is the one that k - 1 rows come before
Ordered(S, order) ==
    [k \in 1..Cardinality(S) |-> CHOOSE x \in S : Cardinality(Preceding(S, order, x)) = k - 1]
=============================================================================
