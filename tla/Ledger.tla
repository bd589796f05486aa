------------------------------- MODULE Ledger -------------------------------
(***************************************************************************)
(* The pipeline with a record of what became of every batch: the n-th      *)
(* batch of a poller carries the id n, and history variables follow it     *)
(* from the poll to the collector.                                         *)
(***************************************************************************)
EXTENDS Pipeline

CONSTANT MaxPolls   \* bound: successful polls per poller that are followed

ASSUME LedgerAssumption == MaxPolls \in Nat /\ Ids = 1 .. MaxPolls

VARIABLES
    polled,     \* poller -> polls that returned a batch
    accepted,   \* poller -> id of the last batch that entered the channel
    settled,    \* poller -> id of its last batch that the merger is done with
    received,   \* poller -> what of its batches reached the collector, in order
    overtaken   \* poller -> how often each other one got a batch in while it was parked

history == <<polled, accepted, settled, received>>
ledgerVars == <<vars, history, overtaken>>

NotOvertaken == [q \in Pollers |-> 0]

LedgerInit ==
    /\ Init
    /\ polled = [p \in Pollers |-> 0]
    /\ accepted = [p \in Pollers |-> 0]
    /\ settled = [p \in Pollers |-> 0]
    /\ received = [p \in Pollers |-> <<>>]
    /\ overtaken = [p \in Pollers |-> NotOvertaken]

\* What a poll returns becomes the poller's next batch.
NextBatch(p) ==
    /\ polled[p] < MaxPolls
    /\ PollOk(p)
    /\ r'[p].id = polled[p] + 1
    /\ polled' = [polled EXCEPT ![p] = @ + 1]
    /\ UNCHANGED <<accepted, settled, received, overtaken>>

Hand(p) ==
    /\ SendNow(p) \/ SendGranted(p)
    /\ accepted' = [accepted EXCEPT ![p] = r[p].id]
    /\ overtaken' = [q \in Pollers |-> IF pc[q] = "waiting"
                                       THEN [overtaken[q] EXCEPT ![p] = @ + 1]
                                       ELSE overtaken[q]]
    /\ UNCHANGED <<polled, settled, received>>

Park(p) ==
    /\ SendWaits(p)
    /\ overtaken' = [overtaken EXCEPT ![p] = NotOvertaken]
    /\ UNCHANGED history

Take ==
    /\ Receive
    /\ settled' = IF Head(chan).size = 0
                  THEN [settled EXCEPT ![Head(chan).poller] = Head(chan).id]
                  ELSE settled
    /\ UNCHANGED <<polled, accepted, received, overtaken>>

\* A resource of the batch in hand reaches the collector.
Arrives(m) == [received EXCEPT ![hand.poller] = Append(@, m)]

\* Mutant of ExportOne: a failed export is tried again.
ExportOneRetries ==
    /\ merger = "exporting"
    /\ received' = Arrives([id |-> hand.id, res |-> pos + 1])
    /\ \/ Export
       \/ UNCHANGED vars
    /\ settled' = IF merger' = "receiving"
                  THEN [settled EXCEPT ![hand.poller] = hand.id]
                  ELSE settled
    /\ UNCHANGED <<polled, accepted, overtaken>>

\* An export that fails may have reached the collector all the same.
ExportOne ==
    /\ Export
    /\ received' \in {received, Arrives([id |-> hand.id, res |-> pos + 1])}
    /\ settled' = IF pos + 1 = hand.size
                  THEN [settled EXCEPT ![hand.poller] = hand.id]
                  ELSE settled
    /\ UNCHANGED <<polled, accepted, overtaken>>

\* Every other step of the pipeline leaves the record alone.
OtherStep ==
    /\ \/ MainStep \/ Connect \/ ConnectFails \/ ConvertPanics
       \/ \E p \in Pollers :
             \/ BeginZero(p) \/ Begin(p) \/ Tick(p) \/ PollErr(p) \/ EnrichEnds(p)
             \/ SendFails(p) \/ Report(p)
    /\ UNCHANGED <<history, overtaken>>

LedgerNext ==
    \/ ~Exited /\ (\E p \in Pollers : NextBatch(p) \/ Hand(p) \/ Park(p))
    \/ ~Exited /\ (Take \/ ExportOne \/ OtherStep)
    \/ Rest /\ UNCHANGED <<history, overtaken>>

LedgerSpec == LedgerInit /\ [][LedgerNext]_ledgerVars

FairLedgerSpec == LedgerSpec /\ Fairness /\ CollectorAnswers

-----------------------------------------------------------------------------
(* Properties.                                                             *)

\* The batches of p that have been handed over and are not yet dealt with.
InFlight(p) ==
    {chan[i].id : i \in {j \in DOMAIN chan : chan[j].poller = p}}
        \cup (IF hand # NoBatch /\ hand.poller = p THEN {hand.id} ELSE {})

\* While the merger lives no batch is lost between the poll and the export: each
\* batch polled so far is settled, queued, in the merger's hand, or still with its
\* poller, and those queued are exactly the ones between settled and accepted.
NothingLost ==
    open => \A p \in Pollers :
        /\ InFlight(p) = settled[p] + 1 .. accepted[p]
        /\ polled[p] = accepted[p] + (IF r[p] = NoBatch THEN 0 ELSE 1)
        /\ r[p] # NoBatch => r[p].id = polled[p]

Before(m, n) == m.id < n.id \/ (m.id = n.id /\ m.res < n.res)

\* What the collector receives of one poller is in the order it was polled and
\* comes at most once, whichever exports fail: gauges never go back to an older
\* poll (metric_merger.rs 39-60).
ReceivedInOrder ==
    \A p \in Pollers : \A i, j \in DOMAIN received[p] :
        i < j => Before(received[p][i], received[p][j])

\* A poller parked in tx.send lets each of the others pass once at most, however often
\* these poll and whatever the merger does: one that was ahead of it in the line, or had
\* been handed its slot, then queues up behind it (intersight_poller.rs 124 and 185).
OvertakenOnce ==
    \A p, q \in Pollers : pc[p] = "waiting" => overtaken[p][q] <= 1

\* The pipeline implements Delivery: the queue, the merger's hand and the wake-up
\* protocol are only a way to keep the backlog.  The exporter stops when the merger
\* drops the receiver or main returns early because a later poller is misconfigured.
Promise == INSTANCE Delivery
           WITH Producers <- Pollers, Bound <- Capacity + 1, alive <- open /\ ~Exited
ImplementsDelivery == Promise!FairSpec
=============================================================================
