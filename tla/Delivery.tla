------------------------------ MODULE Delivery ------------------------------
(***************************************************************************)
(* What the path from the pollers to the collector promises, without its   *)
(* tasks, queue and wake-ups: the batches a poller managed to hand over    *)
(* are dealt with one by one, in the order they were handed over, none     *)
(* skipped and none twice, with a bounded backlog; until the exporter      *)
(* stops, after which the backlog is lost and nothing more is taken.       *)
(***************************************************************************)
EXTENDS Integers, FiniteSets

CONSTANTS Producers, Bound

VARIABLES
    accepted,   \* producer -> how many batches it has handed over
    settled,    \* producer -> how many of these have been dealt with
    alive       \* is the exporter running?

vars == <<accepted, settled, alive>>

Backlog == UNION {{p} \X (settled[p] + 1 .. accepted[p]) : p \in Producers}

Init ==
    /\ accepted = [p \in Producers |-> 0]
    /\ settled = [p \in Producers |-> 0]
    /\ alive = TRUE

Accept(p) ==
    /\ alive /\ Cardinality(Backlog) < Bound
    /\ accepted' = [accepted EXCEPT ![p] = @ + 1]
    /\ UNCHANGED <<settled, alive>>

Settle(p) ==
    /\ alive /\ settled[p] < accepted[p]
    /\ settled' = [settled EXCEPT ![p] = @ + 1]
    /\ UNCHANGED <<accepted, alive>>

Stop ==
    /\ alive
    /\ alive' = FALSE
    /\ UNCHANGED <<accepted, settled>>

Next == Stop \/ \E p \in Producers : Accept(p) \/ Settle(p)

Spec == Init /\ [][Next]_vars

\* Every batch handed over is dealt with sooner or later, unless the exporter stops.
FairSpec == Spec /\ \A p \in Producers : WF_vars(Settle(p))
=============================================================================
