----------------------------- MODULE Selection -----------------------------
(***************************************************************************)
(* The elements of a sequence that a loop with an `if` or a filter_map     *)
(* lets through, by their positions.  It is SelectSeq without recursion,   *)
(* so that proofs can speak of it: SelectionProofs shows that it is what   *)
(* the loop computes.                                                      *)
(***************************************************************************)
EXTENDS Naturals, FiniteSets

\* How many of the positions P there are up to i.
Rank(P, i) == Cardinality({j \in P : j <= i})

\* The k-th position of P.
Nth(P, k) == CHOOSE i \in P : Rank(P, i) = k

\* The elements of s at the positions P, in order.
Selected(s, P) == [k \in 1 .. Cardinality(P) |-> s[Nth(P, k)]]
=============================================================================
