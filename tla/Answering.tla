------------------------------ MODULE Answering ------------------------------
(***************************************************************************)
(* What the callers of the Intersight API rely on, without requests,       *)
(* connections or errors: a call lasts Limit at most, then its caller has  *)
(* an answer or a failure, whatever the network and the server do.  The    *)
(* caller may give up earlier.  Enrichment is built on these actions, and  *)
(* ApiCall implements them.                                                *)
(***************************************************************************)
EXTENDS Naturals

CONSTANTS Callers, Limit

VARIABLES
    pending,    \* the callers that await the end of a call
    waited      \* caller -> how long it has been waiting

vars == <<pending, waited>>

Init == pending = {} /\ waited = [c \in Callers |-> 0]

Begin(c) ==
    /\ c \notin pending
    /\ pending' = pending \cup {c}
    /\ waited' = [waited EXCEPT ![c] = 0]

End(c) ==
    /\ c \in pending
    /\ pending' = pending \ {c}
    /\ waited' = [waited EXCEPT ![c] = 0]

\* Time passes for everybody, but not past the end of anybody's call.
Elapse ==
    /\ \A c \in pending : waited[c] < Limit
    /\ waited' = [c \in Callers |-> IF c \in pending THEN waited[c] + 1 ELSE 0]
    /\ UNCHANGED pending

Next == Elapse \/ \E c \in Callers : Begin(c) \/ End(c)

Spec == Init /\ [][Next]_vars

FairSpec == Spec /\ \A c \in Callers : WF_vars(End(c))
=============================================================================
