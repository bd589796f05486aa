---------------------------- MODULE MCEnrichment ----------------------------
(* Instances of Enrichment for TLC.                                        *)
EXTENDS Enrichment, TLC

CONSTANTS t1, t2, e1, e2, k1, k2

Swap == Permutations({t1, t2}) \cup Permutations({k1, k2})

\* Two tasks share an enricher.
OneShared  == (t1 :> <<e1>>) @@ (t2 :> <<e1>>)
PlainKeys  == {[e \in {e1} |-> k] : k \in {k1, k2}}

\* One task applies two enrichers, the first of them twice; the other shares the first.
OrderAndShared == (t1 :> <<e1, e2, e1>>) @@ (t2 :> <<e1>>)
SomeKeys  == {e1 :> k1 @@ e2 :> k1, e1 :> NoKey @@ e2 :> k1}
=============================================================================
