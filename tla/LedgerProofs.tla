---------------------------- MODULE LedgerProofs ----------------------------
(***************************************************************************)
(* Proofs about Ledger, for any number of pollers, any capacity and any    *)
(* number of batches: no batch is lost between a poll and its export, the  *)
(* collector sees them in order, no parked poller is overtaken twice, and  *)
(* the pipeline implements Delivery.                                       *)
(***************************************************************************)
EXTENDS Ledger, PipelineProofs

-----------------------------------------------------------------------------
(* The inductive invariant.  NothingLost says which ids are in flight, but *)
(* not in which order they stand in the queue: QueuedInOrder adds that.    *)
(* ReceivedInOrder needs to know how far the batch in hand has got:        *)
(* ReceivedSoFar.                                                          *)

Receipt == [id : Ids, res : 1 .. MaxResources]

\* The ranges of the record.
LedgerTypeOK ==
    /\ polled \in [Pollers -> 0 .. MaxPolls]
    /\ accepted \in [Pollers -> 0 .. MaxPolls]
    /\ settled \in [Pollers -> 0 .. MaxPolls]
    /\ received \in [Pollers -> Seq(Receipt)]

\* A poller holds a batch of its own, and only between the poll and the send.
OwnBatch ==
    \A p \in Pollers :
        /\ pc[p] \notin {"enriching", "sending", "waiting", "granted"} => r[p] = NoBatch
        /\ r[p] # NoBatch => r[p].poller = p

HandHeld == hand # NoBatch <=> merger = "exporting"

\* The batches of one poller are queued oldest first, behind the one being exported.
QueuedInOrder ==
    open => \A i \in DOMAIN chan :
        /\ hand # NoBatch /\ hand.poller = chan[i].poller => hand.id < chan[i].id
        /\ \A j \in DOMAIN chan :
              i < j /\ chan[i].poller = chan[j].poller => chan[i].id < chan[j].id

\* The collector has seen batches that are settled, and of the one in hand the
\* resources before pos.
ReceivedSoFar ==
    open => \A p \in Pollers : \A i \in DOMAIN received[p] :
        \/ received[p][i].id <= settled[p]
        \/ /\ hand # NoBatch /\ hand.poller = p
           /\ received[p][i].id = hand.id /\ received[p][i].res <= pos

Record == NothingLost /\ QueuedInOrder /\ ReceivedSoFar /\ ReceivedInOrder

\* Settled batches were accepted before.
SettledBehind == \A p \in Pollers : settled[p] <= accepted[p]

LedgerPart == LedgerTypeOK /\ SettledBehind /\ OwnBatch /\ HandHeld /\ Record

LInv == IInv /\ LedgerPart

\* Where a batch in flight is: in the queue or in the merger's hand.
LEMMA InFlightIff ==
    ASSUME NEW p, NEW n
    PROVE  n \in InFlight(p) <=>
              \/ \E i \in DOMAIN chan : chan[i].poller = p /\ chan[i].id = n
              \/ hand # NoBatch /\ hand.poller = p /\ hand.id = n
  BY DEF InFlight

\* The same after a step.
LEMMA InFlightNextIff ==
    ASSUME NEW p, NEW n
    PROVE  n \in InFlight(p)' <=>
              \/ \E i \in DOMAIN chan' : chan'[i].poller = p /\ chan'[i].id = n
              \/ hand' # NoBatch /\ hand'.poller = p /\ hand'.id = n
  BY DEF InFlight

\* A step that leaves the pollers' batches alone need only account for those in flight.
LEMMA NothingLostNext ==
    ASSUME NothingLost, open, UNCHANGED <<polled, accepted, r>>,
           ASSUME NEW q \in Pollers, NEW n
           PROVE  n \in InFlight(q)' <=> n \in settled'[q] + 1 .. accepted[q]
    PROVE  NothingLost'
  <1>1. ASSUME NEW q \in Pollers
        PROVE  InFlight(q)' = settled'[q] + 1 .. accepted[q]
    <2>1. \A n : n \in InFlight(q)' <=> n \in settled'[q] + 1 .. accepted[q]
      OBVIOUS
    <2> QED
      BY <2>1, Zenon
  <1>2. ASSUME NEW q \in Pollers
        PROVE  /\ polled[q] = accepted[q] + (IF r[q] = NoBatch THEN 0 ELSE 1)
               /\ r[q] # NoBatch => r[q].id = polled[q]
    BY DEF NothingLost
  <1> QED
    BY <1>1, <1>2 DEF NothingLost

-----------------------------------------------------------------------------
(* The pipeline's own invariant carries over: the record only watches.     *)

\* Every step of the ledger is a step of the pipeline.
LEMMA LedgerStepsAreSteps == [LedgerNext]_ledgerVars => [Next]_vars
  <1> SUFFICES ASSUME [LedgerNext]_ledgerVars PROVE [Next]_vars
    OBVIOUS
  <1>1. CASE UNCHANGED ledgerVars
    BY <1>1 DEF ledgerVars
  <1>2. ASSUME ~Exited, NEW p \in Pollers, NextBatch(p) \/ Hand(p) \/ Park(p) PROVE Next
    BY <1>2 DEF NextBatch, Hand, Park, Next, PollerStep
  <1>3. ASSUME ~Exited, Take \/ ExportOne \/ OtherStep PROVE Next
    BY <1>3 DEF Take, ExportOne, OtherStep, Next, PollerStep, MergerStep
  <1>4. CASE Rest
    BY <1>4 DEF Next
  <1> QED
    BY <1>1, <1>2, <1>3, <1>4 DEF LedgerNext

\* So the invariant of the pipeline is one of the ledger.
LEMMA LedgerKeepsIInv == IInv /\ [LedgerNext]_ledgerVars => IInv'
  BY LedgerStepsAreSteps, NextInv

-----------------------------------------------------------------------------
(* The steps.                                                              *)

\* Nothing has been polled yet.
LEMMA LedgerInitInv == LedgerInit => LInv
  <1> USE PipelineAssumption, LedgerAssumption
  <1> SUFFICES ASSUME LedgerInit PROVE LInv
    OBVIOUS
  <1>1. IInv
    BY InitInv DEF LedgerInit
  <1>2. LedgerTypeOK
    BY DEF LedgerInit, LedgerTypeOK
  <1>3. OwnBatch /\ HandHeld /\ SettledBehind
    BY DEF LedgerInit, Init, OwnBatch, HandHeld, SettledBehind
  <1>4. chan = <<>> /\ hand = NoBatch
    BY DEF LedgerInit, Init
  <1>5. NothingLost
    <2>1. ASSUME NEW p \in Pollers PROVE InFlight(p) = {}
      BY <1>4 DEF InFlight
    <2> QED
      BY <2>1 DEF LedgerInit, Init, NothingLost
  <1>6. QueuedInOrder /\ ReceivedSoFar /\ ReceivedInOrder
    BY <1>4 DEF LedgerInit, QueuedInOrder, ReceivedSoFar, ReceivedInOrder
  <1> QED
    BY <1>1, <1>2, <1>3, <1>5, <1>6 DEF LInv, LedgerPart, Record

\* A step that leaves the queue, the batches and the record alone, or the queue closed,
\* keeps what the record says.
LEMMA RecordKept ==
    ASSUME LInv, UNCHANGED history,
           \/ open' = FALSE
           \/ UNCHANGED <<open, chan, r, hand, pos>>
    PROVE  LedgerTypeOK' /\ SettledBehind' /\ Record'
  <1>1. LedgerTypeOK' /\ SettledBehind'
    BY DEF LInv, LedgerPart, LedgerTypeOK, SettledBehind, history
  <1>2. ReceivedInOrder'
    BY DEF LInv, LedgerPart, Record, ReceivedInOrder, history
  <1>3. CASE open' = FALSE
    BY <1>1, <1>2, <1>3 DEF Record, NothingLost, QueuedInOrder, ReceivedSoFar
  <1>4. CASE UNCHANGED <<open, chan, r, hand, pos>>
    BY <1>1, <1>2, <1>4
       DEF LInv, LedgerPart, Record, NothingLost, InFlight, QueuedInOrder, ReceivedSoFar, history
  <1> QED
    BY <1>3, <1>4

\* The steps that the record does not follow: the queue stays, or closes.
LEMMA OtherStepInv == LInv /\ OtherStep => LedgerPart'
  <1> USE PipelineAssumption DEF mainVars, chanVars, mergerVars, LedgerPart
  <1> SUFFICES ASSUME LInv, OtherStep PROVE LedgerPart'
    OBVIOUS
  <1>0. UNCHANGED history
    BY DEF OtherStep
  <1>1. CASE MainStep
    <2>1. UNCHANGED <<open, chan, r, hand, pos, merger>>
      BY <1>1 DEF MainStep, LaunchFails, Launch, Supervise, AwaitMerger, MainReturns
    <2>2. OwnBatch'
      <3>1. CASE pc' = pc
        BY <2>1, <3>1 DEF LInv, OwnBatch
      <3>2. CASE Launch
        BY <2>1, <3>2 DEF Launch, LInv, IInv, TypeOK, OwnBatch, NotLaunched, Pollers
      <3> QED
        BY <1>1, <3>1, <3>2 DEF MainStep, LaunchFails, Supervise, AwaitMerger, MainReturns
    <2> QED
      BY <1>0, <2>1, <2>2, RecordKept DEF LInv, HandHeld
  <1>2. CASE Connect
    <2>1. UNCHANGED <<open, chan, r, hand, pos, pc>>
      BY <1>2 DEF Connect
    <2>2. OwnBatch' /\ HandHeld'
      BY <1>2, <2>1 DEF LInv, OwnBatch, HandHeld, Connect
    <2> QED
      BY <1>0, <2>1, <2>2, RecordKept
  <1>3. CASE ConnectFails \/ ConvertPanics
    <2>1. open' = FALSE /\ UNCHANGED <<r, pc>>
      BY <1>3 DEF ConnectFails, ConvertPanics, Close
    <2>2. OwnBatch' /\ HandHeld'
      BY <1>3, <2>1 DEF LInv, OwnBatch, HandHeld, ConnectFails, ConvertPanics
    <2> QED
      BY <1>0, <2>1, <2>2, RecordKept
  <1>4. ASSUME NEW p \in Pollers,
               \/ BeginZero(p) \/ Begin(p) \/ Tick(p) \/ PollErr(p) \/ EnrichEnds(p)
               \/ Report(p)
        PROVE  LedgerPart'
    <2>1. UNCHANGED <<open, chan, r, hand, pos, merger>>
      BY <1>4 DEF BeginZero, Begin, Tick, PollErr, EnrichEnds, Report
    <2>2. OwnBatch'
      BY <1>4, <2>1 DEF LInv, IInv, TypeOK, OwnBatch, BeginZero, Begin, Tick, PollErr,
                        EnrichEnds, Report, Goto
    <2> QED
      BY <1>0, <2>1, <2>2, RecordKept DEF LInv, HandHeld
  <1>5. ASSUME NEW p \in Pollers, SendFails(p)
        PROVE  LedgerPart'
    <2>1. open' = FALSE
      BY <1>5 DEF SendFails, LInv, IInv, TypeOK
    <2>2. OwnBatch' /\ HandHeld'
      BY <1>5 DEF LInv, IInv, TypeOK, OwnBatch, HandHeld, SendFails, Goto
    <2> QED
      BY <1>0, <2>1, <2>2, RecordKept
  <1> QED
    BY <1>1, <1>2, <1>3, <1>4, <1>5 DEF OtherStep

\* A poller that parks keeps its batch.
LEMMA ParkInv == ASSUME LInv, NEW p \in Pollers, Park(p) PROVE LedgerPart'
  <1>1. UNCHANGED history /\ UNCHANGED <<open, chan, r, hand, pos, merger>>
    BY DEF Park, SendWaits, mergerVars
  <1>2. OwnBatch'
    BY <1>1 DEF Park, SendWaits, Goto, LInv, LedgerPart, IInv, TypeOK, OwnBatch
  <1> QED
    BY <1>1, <1>2, RecordKept DEF LInv, LedgerPart, HandHeld

\* The queue while it is open: batches of known pollers with ids that are integers.
LEMMA ChanFacts ==
    ASSUME LInv
    PROVE  /\ Len(chan) \in Nat /\ DOMAIN chan = 1 .. Len(chan)
           /\ \A i \in DOMAIN chan :
                 chan[i] \in Batch /\ chan[i].poller \in Pollers /\ chan[i].id \in Int
           /\ hand # NoBatch =>
                 /\ hand \in Batch /\ hand.poller \in Pollers /\ hand.id \in Int
                 /\ hand.id \in 1 .. MaxPolls /\ hand.size \in 0 .. MaxResources
           /\ \A p \in Pollers : polled[p] \in Int /\ accepted[p] \in Int /\ settled[p] \in Int
  <1>1. chan \in Seq(Batch) /\ hand \in Batch \cup {NoBatch}
    BY DEF LInv, IInv, TypeOK
  <1>2. \A b \in Batch : /\ b.poller \in Pollers /\ b.id \in 1 .. MaxPolls /\ b.id \in Int
                         /\ b.size \in 0 .. MaxResources
    BY LedgerAssumption DEF Batch
  <1>3. \A p \in Pollers : polled[p] \in Int /\ accepted[p] \in Int /\ settled[p] \in Int
    BY LedgerAssumption DEF LInv, LedgerPart, LedgerTypeOK
  <1> QED
    BY <1>1, <1>2, <1>3

\* While the merger lives the unsettled ids of a poller are those of its batches in flight.
LEMMA UnsettledIff ==
    ASSUME LInv, open, NEW p \in Pollers, NEW n
    PROVE  n \in settled[p] + 1 .. accepted[p] <=>
              \/ \E i \in DOMAIN chan : chan[i].poller = p /\ chan[i].id = n
              \/ hand # NoBatch /\ hand.poller = p /\ hand.id = n
  <1>1. InFlight(p) = settled[p] + 1 .. accepted[p]
    BY DEF LInv, LedgerPart, Record, NothingLost
  <1> QED
    BY <1>1, InFlightIff, ZenonT(30)

\* The batch being exported, or else the head of the queue, is the oldest of its poller
\* that is not settled.
LEMMA OldestFirst ==
    ASSUME LInv, open
    PROVE  /\ hand # NoBatch => hand.id = settled[hand.poller] + 1
           /\ hand = NoBatch /\ chan # <<>> => chan[1].id = settled[chan[1].poller] + 1
  <1>0. QueuedInOrder
    BY DEF LInv, LedgerPart, Record
  <1>1. ASSUME hand # NoBatch PROVE hand.id = settled[hand.poller] + 1
    <2> DEFINE p == hand.poller
    <2>1. p \in Pollers /\ hand.id \in Int /\ settled[p] \in Int /\ accepted[p] \in Int
      BY <1>1, ChanFacts
    <2>2. hand.id \in settled[p] + 1 .. accepted[p]
      BY <1>1, <2>1, UnsettledIff
    <2>3. settled[p] + 1 \in settled[p] + 1 .. accepted[p]
      BY <2>1, <2>2
    <2>4. CASE \E i \in DOMAIN chan : chan[i].poller = p /\ chan[i].id = settled[p] + 1
      BY <1>0, <1>1, <2>1, <2>2, <2>4 DEF QueuedInOrder
    <2> QED
      BY <1>1, <2>1, <2>3, <2>4, UnsettledIff
  <1>2. ASSUME hand = NoBatch, chan # <<>> PROVE chan[1].id = settled[chan[1].poller] + 1
    <2> DEFINE p == chan[1].poller
    <2>1. 1 \in DOMAIN chan /\ DOMAIN chan \subseteq Nat /\ \A i \in DOMAIN chan : i >= 1
      BY <1>2, ChanFacts DEF LInv, IInv, TypeOK
    <2>2. /\ p \in Pollers /\ chan[1].id \in Int /\ settled[p] \in Int /\ accepted[p] \in Int
      BY <2>1, ChanFacts
    <2>3. chan[1].id \in settled[p] + 1 .. accepted[p]
      BY <2>1, <2>2, UnsettledIff
    <2>4. settled[p] + 1 \in settled[p] + 1 .. accepted[p]
      BY <2>2, <2>3
    <2>5. PICK i \in DOMAIN chan : chan[i].poller = p /\ chan[i].id = settled[p] + 1
      BY <1>2, <2>2, <2>4, UnsettledIff
    <2>6. CASE i # 1
      BY <1>0, <2>1, <2>2, <2>3, <2>5, <2>6 DEF QueuedInOrder
    <2> QED
      BY <2>5, <2>6
  <1> QED
    BY <1>1, <1>2

\* A poller that polls has no batch in hand: the new one is the only one to follow.
LEMMA NextBatchInv == ASSUME LInv, NEW p \in Pollers, NextBatch(p) PROVE LedgerPart'
  <1> USE PipelineAssumption, LedgerAssumption DEF mainVars, chanVars, mergerVars
  <1>1. pc[p] = "polling" /\ r[p] = NoBatch
    BY DEF LInv, LedgerPart, OwnBatch, NextBatch, PollOk
  <1>2. /\ UNCHANGED <<open, chan, hand, pos, merger, accepted, settled, received>>
        /\ polled' = [polled EXCEPT ![p] = @ + 1] /\ polled[p] < MaxPolls
        /\ r'[p].id = polled[p] + 1
    BY DEF NextBatch, PollOk
  <1>3. PICK b \in Batch : b.poller = p /\ r' = [r EXCEPT ![p] = b]
    BY DEF NextBatch, PollOk, PollResults
  <1>4. r \in [Pollers -> Batch \cup {NoBatch}] /\ pc \in [Pollers -> PcType]
    BY DEF LInv, IInv, TypeOK, PcType
  <1>5. /\ r'[p] = b /\ b # NoBatch /\ b.id = polled[p] + 1
        /\ \A q \in Pollers : q # p => r'[q] = r[q]
    BY <1>2, <1>3, <1>4
  <1>6. LedgerTypeOK' /\ SettledBehind'
    BY <1>2 DEF LInv, LedgerPart, LedgerTypeOK, SettledBehind
  <1>7. OwnBatch'
    <2>1. /\ pc'[p] \in {"enriching", "sending"}
          /\ \A q \in Pollers : q # p => pc'[q] = pc[q]
      BY <1>4 DEF NextBatch, PollOk, Goto
    <2> QED
      BY <1>3, <1>5, <2>1 DEF LInv, LedgerPart, OwnBatch
  <1>8. HandHeld' /\ QueuedInOrder' /\ ReceivedSoFar' /\ ReceivedInOrder'
    BY <1>2 DEF LInv, LedgerPart, Record, HandHeld, QueuedInOrder, ReceivedSoFar,
                ReceivedInOrder
  <1>9. NothingLost'
    <2>1. \A q \in Pollers : InFlight(q)' = InFlight(q)
      BY <1>2 DEF InFlight
    <2>2. \A q \in Pollers : polled[q] \in Int /\ accepted[q] \in Int
      BY ChanFacts
    <2>3. polled'[p] = polled[p] + 1 /\ \A q \in Pollers : q # p => polled'[q] = polled[q]
      BY <1>2 DEF LInv, LedgerPart, LedgerTypeOK
    <2> QED
      BY <1>1, <1>2, <1>5, <2>1, <2>2, <2>3 DEF LInv, LedgerPart, Record, NothingLost
  <1> QED
    BY <1>6, <1>7, <1>8, <1>9 DEF LedgerPart, Record
\* The batch handed over is the poller's youngest: it goes behind the others.
LEMMA HandInv == ASSUME LInv, NEW p \in Pollers, Hand(p) PROVE LedgerPart'
  <1> USE PipelineAssumption, LedgerAssumption DEF mainVars, chanVars, mergerVars
  <1>1. /\ pc[p] \in {"sending", "granted"} /\ pc' = [pc EXCEPT ![p] = "tick"]
        /\ r' = [r EXCEPT ![p] = NoBatch] /\ chan' = Append(chan, r[p])
        /\ accepted' = [accepted EXCEPT ![p] = r[p].id]
        /\ open /\ UNCHANGED <<open, hand, pos, merger, polled, settled, received>>
    BY DEF Hand, SendNow, SendGranted, Push, Goto
  <1>2. r[p] \in Batch /\ r[p] # NoBatch /\ r[p].poller = p /\ r[p].id \in 1 .. MaxPolls
    BY <1>1 DEF LInv, LedgerPart, IInv, BatchAtHand, OwnBatch, Batch
  <1>3. r[p].id = polled[p] /\ polled[p] = accepted[p] + 1
    BY <1>1, <1>2 DEF LInv, LedgerPart, Record, NothingLost
  <1>4. /\ Len(chan) \in Nat /\ DOMAIN chan = 1 .. Len(chan)
        /\ DOMAIN chan' = 1 .. Len(chan) + 1
        /\ chan'[Len(chan) + 1] = r[p]
        /\ \A i \in DOMAIN chan : chan'[i] = chan[i]
    BY <1>1, <1>2 DEF LInv, IInv, TypeOK
  <1>5. /\ accepted'[p] = accepted[p] + 1 /\ r[p].id = accepted[p] + 1
        /\ \A q \in Pollers : q # p => accepted'[q] = accepted[q]
    BY <1>1, <1>3 DEF LInv, LedgerPart, LedgerTypeOK
  <1>6. \A q \in Pollers :
           /\ accepted[q] \in Int /\ settled[q] \in Int /\ settled[q] <= accepted[q]
    BY ChanFacts DEF LInv, LedgerPart, SettledBehind
  <1>7. LedgerTypeOK' /\ SettledBehind'
    <2>1. LedgerTypeOK'
      BY <1>1, <1>2 DEF LInv, LedgerPart, LedgerTypeOK
    <2> QED
      BY <2>1, <1>1, <1>5, <1>6 DEF SettledBehind
  <1>8. OwnBatch' /\ HandHeld'
    BY <1>1 DEF LInv, LedgerPart, IInv, TypeOK, OwnBatch, HandHeld
  <1>9. ReceivedSoFar' /\ ReceivedInOrder'
    BY <1>1 DEF LInv, LedgerPart, Record, ReceivedSoFar, ReceivedInOrder
  <1>10. /\ \A i \in DOMAIN chan : chan[i].poller = p => chan[i].id <= accepted[p]
         /\ hand # NoBatch /\ hand.poller = p => hand.id <= accepted[p]
    <2>1. ASSUME NEW n, n \in settled[p] + 1 .. accepted[p] PROVE n <= accepted[p]
      BY <1>6, <2>1
    <2> QED
      BY <1>1, <2>1, UnsettledIff
  <1>11. QueuedInOrder'
    <2> SUFFICES ASSUME NEW i \in DOMAIN chan'
                 PROVE  /\ hand # NoBatch /\ hand.poller = chan'[i].poller
                              => hand.id < chan'[i].id
                        /\ \A j \in DOMAIN chan' :
                              i < j /\ chan'[i].poller = chan'[j].poller
                                => chan'[i].id < chan'[j].id
      BY <1>1 DEF QueuedInOrder
    <2>1. QueuedInOrder
      BY DEF LInv, LedgerPart, Record
    <2>2. CASE i \in DOMAIN chan
      <3>1. ASSUME NEW j \in DOMAIN chan', i < j, chan'[i].poller = chan'[j].poller
            PROVE  chan'[i].id < chan'[j].id
        <4>1. CASE j \in DOMAIN chan
          BY <1>1, <1>4, <2>1, <2>2, <3>1, <4>1 DEF QueuedInOrder
        <4>2. CASE j = Len(chan) + 1
          BY <1>2, <1>4, <1>5, <1>6, <1>10, <2>2, <3>1, <4>2, ChanFacts
        <4> QED
          BY <1>4, <4>1, <4>2
      <3> QED
        BY <1>1, <1>4, <2>1, <2>2, <3>1 DEF QueuedInOrder
    <2>3. CASE i = Len(chan) + 1
      BY <1>2, <1>4, <1>5, <1>6, <1>10, <2>3, ChanFacts
    <2> QED
      BY <1>4, <2>2, <2>3
  <1>12. NothingLost'
    <2> SUFFICES ASSUME NEW q \in Pollers
                 PROVE  /\ InFlight(q)' = settled'[q] + 1 .. accepted'[q]
                        /\ polled'[q] = accepted'[q] + (IF r'[q] = NoBatch THEN 0 ELSE 1)
                        /\ r'[q] # NoBatch => r'[q].id = polled'[q]
      BY DEF NothingLost
    <2>1. /\ polled'[q] = accepted'[q] + (IF r'[q] = NoBatch THEN 0 ELSE 1)
          /\ r'[q] # NoBatch => r'[q].id = polled'[q]
      BY <1>1, <1>3, <1>5, <1>6 DEF LInv, LedgerPart, Record, NothingLost, IInv, TypeOK
    <2>2. ASSUME NEW n PROVE n \in InFlight(q)' <=> n \in settled'[q] + 1 .. accepted'[q]
      <3>1. n \in settled'[q] + 1 .. accepted'[q]
              <=> n \in settled[q] + 1 .. accepted[q] \/ (q = p /\ n = accepted[p] + 1)
        BY <1>1, <1>5, <1>6
      <3>2. (\E i \in DOMAIN chan' : chan'[i].poller = q /\ chan'[i].id = n)
              <=> \/ \E i \in DOMAIN chan : chan[i].poller = q /\ chan[i].id = n
                  \/ q = p /\ n = accepted[p] + 1
        BY <1>2, <1>4, <1>5
      <3>3. n \in InFlight(q)' <=>
              \/ \E i \in DOMAIN chan' : chan'[i].poller = q /\ chan'[i].id = n
              \/ hand' # NoBatch /\ hand'.poller = q /\ hand'.id = n
        BY InFlightNextIff, ZenonT(30)
      <3>4. n \in settled[q] + 1 .. accepted[q] <=>
              \/ \E i \in DOMAIN chan : chan[i].poller = q /\ chan[i].id = n
              \/ hand # NoBatch /\ hand.poller = q /\ hand.id = n
        BY <1>1, UnsettledIff, ZenonT(30)
      <3>5. hand' = hand
        BY <1>1
      <3> QED
        BY <3>1, <3>2, <3>3, <3>4, <3>5, Zenon
    <2> QED
      BY <2>1, <2>2
  <1> QED
    BY <1>7, <1>8, <1>9, <1>11, <1>12 DEF LedgerPart, Record
\* A poller's batch is its own, whoever is woken by the slot that Receive frees.
LEMMA TakeOwnBatch == LInv /\ Take => OwnBatch'
  <1> SUFFICES ASSUME LInv, Take PROVE OwnBatch'
    OBVIOUS
  <1>1. r' = r
    BY DEF Take, Receive
  <1>2. \A q \in Pollers : pc'[q] \in {pc[q], "granted"}
    BY DEF Take, Receive, Release, LInv, IInv, TypeOK
  <1> QED
    BY <1>1, <1>2 DEF LInv, LedgerPart, OwnBatch

\* The head of the queue is its poller's oldest unsettled batch.  Without resources it
\* is settled at once; otherwise it only moves from the queue into the merger's hand.
LEMMA TakeInv == LInv /\ Take => LedgerPart'
  <1> USE PipelineAssumption, LedgerAssumption DEF mainVars, mergerVars
  <1> SUFFICES ASSUME LInv, Take PROVE LedgerPart'
    OBVIOUS
  <1> DEFINE b == chan[1]
             p == b.poller
  <1>1. /\ merger = "receiving" /\ chan # <<>> /\ chan' = Tail(chan) /\ Head(chan) = b
        /\ UNCHANGED <<open, r, polled, accepted, received>>
        /\ hand = NoBatch /\ open
    BY DEF Take, Receive, LInv, LedgerPart, HandHeld, IInv, TypeOK, Receiver
  <1>2. /\ 1 \in DOMAIN chan /\ Len(chan) \in Nat /\ DOMAIN chan = 1 .. Len(chan)
        /\ DOMAIN chan' = 1 .. Len(chan) - 1
        /\ \A i \in DOMAIN chan' : i + 1 \in DOMAIN chan /\ chan'[i] = chan[i + 1]
        /\ \A i \in DOMAIN chan : i # 1 => i - 1 \in DOMAIN chan' /\ chan'[i - 1] = chan[i]
    BY <1>1 DEF LInv, IInv, TypeOK
  <1>3. /\ b \in Batch /\ b # NoBatch /\ p \in Pollers /\ b.id \in 1 .. MaxPolls
        /\ b.size \in 0 .. MaxResources /\ b.id = settled[p] + 1
    BY <1>1, <1>2, ChanFacts, OldestFirst DEF Batch
  <1>4. \A q \in Pollers :
           /\ accepted[q] \in Int /\ settled[q] \in Int /\ settled[q] <= accepted[q]
    BY ChanFacts DEF LInv, LedgerPart, SettledBehind
  <1>5. b.id <= accepted[p]
    <2>1. b.id \in settled[p] + 1 .. accepted[p]
      BY <1>1, <1>2, <1>3, UnsettledIff
    <2> QED
      BY <1>3, <1>4, <2>1
  <1>6. \A i \in DOMAIN chan : i # 1 /\ chan[i].poller = p => b.id < chan[i].id
    BY <1>1, <1>2 DEF LInv, LedgerPart, Record, QueuedInOrder
  <1>7. \A i, j \in DOMAIN chan' :
           i < j /\ chan'[i].poller = chan'[j].poller => chan'[i].id < chan'[j].id
    BY <1>1, <1>2 DEF LInv, LedgerPart, Record, QueuedInOrder
  <1>8. ReceivedInOrder' /\ OwnBatch'
    BY <1>1, TakeOwnBatch DEF LInv, LedgerPart, Record, ReceivedInOrder
  <1>9. \A q \in Pollers : \A n :
            n \in settled[q] + 1 .. accepted[q] <=>
               \E i \in DOMAIN chan : chan[i].poller = q /\ chan[i].id = n
    <2>1. hand = NoBatch /\ open
      BY <1>1
    <2> SUFFICES ASSUME NEW q \in Pollers, NEW n
                 PROVE  n \in settled[q] + 1 .. accepted[q] <=>
                           \E i \in DOMAIN chan : chan[i].poller = q /\ chan[i].id = n
      OBVIOUS
    <2>2. n \in settled[q] + 1 .. accepted[q] <=>
             \/ \E i \in DOMAIN chan : chan[i].poller = q /\ chan[i].id = n
             \/ hand # NoBatch /\ hand.poller = q /\ hand.id = n
      BY <2>1, UnsettledIff, ZenonT(30)
    <2> QED
      BY <2>1, <2>2
  <1>10. CASE b.size = 0
    <2>1. /\ UNCHANGED <<merger, hand, pos>>
          /\ settled' = [settled EXCEPT ![p] = b.id]
      <3>1. ~(b.size > 0)
        BY <1>10
      <3>2. UNCHANGED mergerVars \/ b.size > 0
        BY <1>1 DEF Take, Receive
      <3>3. settled' = [settled EXCEPT ![p] = b.id]
        BY <1>1, <1>10 DEF Take
      <3> QED
        BY <3>1, <3>2, <3>3
    <2>2. /\ settled'[p] = settled[p] + 1
          /\ \A q \in Pollers : q # p => settled'[q] = settled[q]
      BY <1>3, <2>1 DEF LInv, LedgerPart, LedgerTypeOK
    <2>3. LedgerTypeOK' /\ SettledBehind' /\ HandHeld'
      <3>1. LedgerTypeOK' /\ HandHeld'
        BY <1>1, <1>3, <2>1 DEF LInv, LedgerPart, LedgerTypeOK, HandHeld
      <3> QED
        BY <3>1, <1>1, <1>3, <1>4, <1>5, <2>2 DEF SettledBehind
    <2>4. QueuedInOrder'
      BY <1>1, <1>7, <2>1 DEF QueuedInOrder
    <2>5. ReceivedSoFar'
      <3> SUFFICES ASSUME NEW q \in Pollers, NEW i \in DOMAIN received[q]
                   PROVE  received[q][i].id <= settled'[q]
        BY <1>1 DEF ReceivedSoFar
      <3>1. received[q][i].id <= settled[q] /\ received[q][i].id \in 1 .. MaxPolls
        <4>1. received[q] \in Seq(Receipt)
          BY DEF LInv, LedgerPart, LedgerTypeOK
        <4>2. received[q][i] \in Receipt
          BY <4>1
        <4> QED
          BY <1>1, <4>2 DEF LInv, LedgerPart, Record, ReceivedSoFar, Receipt
      <3> QED
        BY <1>4, <2>2, <3>1
    <2>6. NothingLost'
      <3> SUFFICES ASSUME NEW q \in Pollers, NEW n
                   PROVE  n \in InFlight(q)' <=> n \in settled'[q] + 1 .. accepted[q]
        BY <1>1, NothingLostNext DEF LInv, LedgerPart, Record
      <3>1. n \in InFlight(q)' <=> \E i \in DOMAIN chan' : chan'[i].poller = q /\ chan'[i].id = n
        BY <1>1, <2>1, InFlightNextIff
      <3>2. n \in settled'[q] + 1 .. accepted[q]
              <=> n \in settled[q] + 1 .. accepted[q] /\ ~(q = p /\ n = b.id)
        BY <1>1, <1>3, <1>4, <2>2
      <3>3. (\E i \in DOMAIN chan' : chan'[i].poller = q /\ chan'[i].id = n)
              <=> \E i \in DOMAIN chan : i # 1 /\ chan[i].poller = q /\ chan[i].id = n
        <4>1. ASSUME NEW i \in DOMAIN chan', chan'[i].poller = q, chan'[i].id = n
              PROVE  \E k \in DOMAIN chan : k # 1 /\ chan[k].poller = q /\ chan[k].id = n
          <5>1. i + 1 \in DOMAIN chan /\ i + 1 # 1 /\ chan[i + 1] = chan'[i]
            BY <1>2
          <5> QED
            BY <4>1, <5>1
        <4>2. ASSUME NEW i \in DOMAIN chan, i # 1, chan[i].poller = q, chan[i].id = n
              PROVE  \E k \in DOMAIN chan' : chan'[k].poller = q /\ chan'[k].id = n
          BY <1>2, <4>2
        <4> QED
          BY <4>1, <4>2
      <3>4. (\E i \in DOMAIN chan : i # 1 /\ chan[i].poller = q /\ chan[i].id = n)
              <=> /\ \E i \in DOMAIN chan : chan[i].poller = q /\ chan[i].id = n
                  /\ ~(q = p /\ n = b.id)
        <4>1. \A i \in DOMAIN chan : i # 1 /\ chan[i].poller = p => chan[i].id # b.id
          BY <1>3, <1>6, ChanFacts
        <4> QED
          BY <4>1
      <3>5. n \in settled[q] + 1 .. accepted[q]
              <=> \E i \in DOMAIN chan : chan[i].poller = q /\ chan[i].id = n
        BY <1>9
      <3> QED
        BY <3>1, <3>2, <3>3, <3>4, <3>5
    <2> QED
      BY <1>8, <2>3, <2>4, <2>5, <2>6 DEF LedgerPart, Record
  <1>11. CASE b.size > 0
    <2>1. merger' = "exporting" /\ hand' = b /\ pos' = 0 /\ settled' = settled
      BY <1>1, <1>3, <1>11 DEF Take, Receive
    <2>2. LedgerTypeOK' /\ SettledBehind' /\ HandHeld'
      BY <1>1, <1>3, <2>1 DEF LInv, LedgerPart, LedgerTypeOK, SettledBehind, HandHeld
    <2>3. QueuedInOrder'
      <3>1. \A i \in DOMAIN chan' : p = chan'[i].poller => b.id < chan'[i].id
        BY <1>2, <1>6
      <3> QED
        BY <1>7, <2>1, <3>1 DEF QueuedInOrder
    <2>4. ReceivedSoFar'
      BY <1>1, <2>1 DEF LInv, LedgerPart, Record, ReceivedSoFar
    <2>5. NothingLost'
      <3> SUFFICES ASSUME NEW q \in Pollers, NEW n
                   PROVE  n \in InFlight(q)' <=> n \in settled'[q] + 1 .. accepted[q]
        BY <1>1, NothingLostNext DEF LInv, LedgerPart, Record
      <3>1. n \in InFlight(q)' <=>
               \/ \E i \in DOMAIN chan' : chan'[i].poller = q /\ chan'[i].id = n
               \/ p = q /\ b.id = n
        <4>1. hand' = b /\ b # NoBatch
          BY <1>3, <2>1
        <4> QED
          BY <4>1, InFlightNextIff
      <3>2. (\E i \in DOMAIN chan : chan[i].poller = q /\ chan[i].id = n) <=>
               \/ \E i \in DOMAIN chan' : chan'[i].poller = q /\ chan'[i].id = n
               \/ p = q /\ b.id = n
        <4>1. ASSUME NEW i \in DOMAIN chan', chan'[i].poller = q, chan'[i].id = n
              PROVE  \E k \in DOMAIN chan : chan[k].poller = q /\ chan[k].id = n
          BY <1>2, <4>1
        <4>2. ASSUME NEW i \in DOMAIN chan, i # 1, chan[i].poller = q, chan[i].id = n
              PROVE  \E k \in DOMAIN chan' : chan'[k].poller = q /\ chan'[k].id = n
          BY <1>2, <4>2
        <4> QED
          BY <1>2, <4>1, <4>2
      <3> QED
        BY <1>1, <1>9, <2>1, <3>1, <3>2
    <2> QED
      BY <1>8, <2>2, <2>3, <2>4, <2>5 DEF LedgerPart, Record
  <1> QED
    BY <1>3, <1>10, <1>11
\* What arrives comes after everything that has arrived of that poller.
LEMMA ArrivesInOrder == LInv /\ ExportOne => ReceivedInOrder'
  <1> SUFFICES ASSUME LInv, ExportOne PROVE ReceivedInOrder'
    OBVIOUS
  <1> DEFINE p == hand.poller
             m == [id |-> hand.id, res |-> pos + 1]
  <1>1. merger = "exporting" /\ hand # NoBatch /\ open
    BY DEF LInv, LedgerPart, HandHeld, IInv, Receiver, ExportOne, Export
  <1>2. ReceivedInOrder
    BY DEF LInv, LedgerPart, Record
  <1>3. CASE received' = received
    BY <1>2, <1>3 DEF ReceivedInOrder
  <1>4. CASE received' = [received EXCEPT ![p] = Append(@, m)]
    <2> SUFFICES ASSUME NEW q \in Pollers, NEW i \in DOMAIN received'[q],
                        NEW j \in DOMAIN received'[q], i < j
                 PROVE  Before(received'[q][i], received'[q][j])
      BY DEF ReceivedInOrder
    <2>1. received \in [Pollers -> Seq(Receipt)] /\ p \in Pollers /\ hand.id \in Int
          /\ settled[p] \in Int /\ hand.id = settled[p] + 1 /\ pos \in Nat
      <3>1. received \in [Pollers -> Seq(Receipt)] /\ pos \in Nat
        BY PipelineAssumption DEF LInv, LedgerPart, LedgerTypeOK, IInv, TypeOK
      <3>2. p \in Pollers /\ hand.id \in Int /\ settled[p] \in Int
        BY <1>1, ChanFacts
      <3>3. hand.id = settled[p] + 1
        BY <1>1, OldestFirst
      <3> QED
        BY <3>1, <3>2, <3>3
    <2>2. CASE q # p
      BY <1>2, <1>4, <2>1, <2>2 DEF ReceivedInOrder
    <2>3. CASE q = p
      <3> DEFINE s == received[p]
      <3>1. /\ s \in Seq(Receipt) /\ Len(s) \in Nat /\ DOMAIN s = 1 .. Len(s)
            /\ received'[q] = Append(s, m)
        BY <1>4, <2>1, <2>3
      <3>2. CASE j \in DOMAIN s
        <4>1. i \in DOMAIN s /\ received'[q][i] = s[i] /\ received'[q][j] = s[j]
          BY <3>1, <3>2
        <4> QED
          BY <1>2, <2>1, <2>3, <4>1, <3>2 DEF ReceivedInOrder
      <3>3. CASE j = Len(s) + 1
        <4>1. i \in DOMAIN s /\ received'[q][i] = s[i] /\ received'[q][j] = m
          BY <3>1, <3>3
        <4>2. s[i].id \in Int /\ s[i].res \in Int
          <5>1. s[i] \in Receipt
            BY <3>1, <4>1
          <5> QED
            BY <5>1, LedgerAssumption, PipelineAssumption DEF Receipt
        <4>3. s[i].id <= settled[p] \/ (s[i].id = hand.id /\ s[i].res <= pos)
          BY <1>1, <2>1, <4>1 DEF LInv, LedgerPart, Record, ReceivedSoFar
        <4>4. s[i].id < m.id \/ (s[i].id = m.id /\ s[i].res < m.res)
          BY <2>1, <4>2, <4>3
        <4> QED
          BY <4>1, <4>4 DEF Before
      <3> QED
        BY <3>1, <3>2, <3>3
    <2> QED
      BY <2>2, <2>3
  <1> QED
    BY <1>3, <1>4 DEF ExportOne, Arrives

\* Nothing that has arrived is of a batch later than the one in hand, or of a resource
\* later than pos.
LEMMA ArrivesSoFar == LInv /\ ExportOne => ReceivedSoFar' /\ received' \in [Pollers -> Seq(Receipt)]
  <1> SUFFICES ASSUME LInv, ExportOne
               PROVE  ReceivedSoFar' /\ received' \in [Pollers -> Seq(Receipt)]
    OBVIOUS
  <1> DEFINE p == hand.poller
             m == [id |-> hand.id, res |-> pos + 1]
  <1>1. merger = "exporting" /\ hand # NoBatch /\ open /\ pos < hand.size
    BY DEF LInv, LedgerPart, HandHeld, IInv, Receiver, Exporting, ExportOne, Export
  <1>2. /\ received \in [Pollers -> Seq(Receipt)] /\ p \in Pollers /\ hand.id \in Int
        /\ settled[p] \in Int /\ hand.id = settled[p] + 1 /\ pos \in Nat
        /\ hand.id \in Ids /\ hand.size \in 0 .. MaxResources
    <2>1. received \in [Pollers -> Seq(Receipt)]
      BY DEF LInv, LedgerPart, LedgerTypeOK
    <2>2. /\ p \in Pollers /\ settled[p] \in Int /\ hand.id \in Int
          /\ hand.id \in 1 .. MaxPolls /\ hand.size \in 0 .. MaxResources
      BY <1>1, ChanFacts
    <2>3. pos \in Nat
      BY DEF LInv, IInv, TypeOK
    <2>4. hand.id \in Ids
      BY <2>2, LedgerAssumption
    <2>5. hand.id = settled[p] + 1
      BY <1>1, OldestFirst
    <2> QED
      BY <2>1, <2>2, <2>3, <2>4, <2>5
  <1>3. m \in Receipt
    BY <1>1, <1>2, PipelineAssumption DEF Receipt
  <1>4. received' \in {received, [received EXCEPT ![p] = Append(@, m)]}
    BY DEF ExportOne, Arrives
  <1>5. received' \in [Pollers -> Seq(Receipt)]
    <2>1. received[p] \in Seq(Receipt)
      BY <1>2
    <2>2. Append(received[p], m) \in Seq(Receipt)
      BY <1>3, <2>1
    <2> QED
      BY <1>2, <1>4, <2>2
  <1>6. ASSUME NEW q \in Pollers, NEW i \in DOMAIN received'[q]
        PROVE  /\ received'[q][i].id \in Int /\ received'[q][i].res \in Int
               /\ \/ received'[q][i].id <= settled[q]
                  \/ q = p /\ received'[q][i].id = hand.id /\ received'[q][i].res <= pos + 1
    <2>1. received'[q][i] \in Receipt
      BY <1>5
    <2>2. received'[q][i].id \in Int /\ received'[q][i].res \in Int
      BY <2>1, LedgerAssumption, PipelineAssumption DEF Receipt
    <2>3. CASE i \in DOMAIN received[q] /\ received'[q][i] = received[q][i]
      BY <1>1, <1>2, <2>2, <2>3 DEF LInv, LedgerPart, Record, ReceivedSoFar
    <2>4. CASE q = p /\ received'[q][i] = m
      BY <1>2, <2>2, <2>4
    <2>5. CASE received' = received \/ q # p
      BY <1>2, <1>4, <2>3, <2>5
    <2>6. CASE q = p /\ received'[p] = Append(received[p], m)
      BY <1>2, <2>3, <2>4, <2>6
    <2> QED
      BY <1>2, <1>4, <2>5, <2>6
  <1>7. CASE pos + 1 < hand.size
    <2>1. pos' = pos + 1 /\ hand' = hand /\ settled' = settled
      BY <1>2, <1>7 DEF ExportOne, Export
    <2> QED
      BY <1>1, <1>2, <1>5, <1>6, <2>1 DEF ReceivedSoFar
  <1>8. CASE pos + 1 = hand.size
    <2>1. settled' = [settled EXCEPT ![p] = hand.id]
      BY <1>8 DEF ExportOne
    <2>2. settled'[p] = hand.id /\ \A q \in Pollers : q # p => settled'[q] = settled[q]
      BY <1>2, <2>1 DEF LInv, LedgerPart, LedgerTypeOK
    <2>3. ASSUME NEW q \in Pollers, NEW i \in DOMAIN received'[q]
          PROVE  received'[q][i].id <= settled'[q]
      <3>1. /\ received'[q][i].id \in Int
            /\ \/ received'[q][i].id <= settled[q]
               \/ q = p /\ received'[q][i].id = hand.id
        BY <1>6
      <3>2. CASE q = p
        BY <1>2, <2>2, <3>1, <3>2
      <3>3. CASE q # p
        BY <2>2, <3>1, <3>3
      <3> QED
        BY <3>2, <3>3
    <2> QED
      BY <1>5, <2>3 DEF ReceivedSoFar
  <1> QED
    BY <1>7, <1>8 DEF ExportOne, Export
\* The batch in hand is settled with its last resource: it is its poller's oldest, and
\* the queue holds only later ones.
LEMMA ExportOneInv == LInv /\ ExportOne => LedgerPart'
  <1> USE PipelineAssumption, LedgerAssumption DEF mainVars, chanVars, mergerVars
  <1> SUFFICES ASSUME LInv, ExportOne PROVE LedgerPart'
    OBVIOUS
  <1> DEFINE p == hand.poller
  <1>1. /\ merger = "exporting" /\ hand # NoBatch /\ open
        /\ UNCHANGED <<open, chan, r, pc, polled, accepted>>
    BY DEF LInv, LedgerPart, HandHeld, IInv, Receiver, ExportOne, Export
  <1>2. /\ p \in Pollers /\ hand.id \in Int /\ settled[p] \in Int /\ accepted[p] \in Int
        /\ hand.id \in 1 .. MaxPolls
    BY <1>1, ChanFacts
  <1>3. hand.id = settled[p] + 1
    BY <1>1, OldestFirst
  <1>4. hand.id <= accepted[p]
    <2>1. hand.id \in settled[p] + 1 .. accepted[p]
      BY <1>1, <1>2, UnsettledIff
    <2> QED
      BY <1>2, <2>1
  <1>5. /\ OwnBatch' /\ ReceivedInOrder' /\ ReceivedSoFar'
        /\ received' \in [Pollers -> Seq(Receipt)]
    BY <1>1, ArrivesInOrder, ArrivesSoFar DEF LInv, LedgerPart, OwnBatch
  <1>6. QueuedInOrder
    BY DEF LInv, LedgerPart, Record
  <1>7. CASE pos + 1 < hand.size
    <2>1. pos' = pos + 1 /\ hand' = hand /\ merger' = merger /\ settled' = settled
      <3>1. hand.size \in Int /\ pos \in Int
        BY <1>1, ChanFacts DEF LInv, IInv, TypeOK
      <3> QED
        BY <1>7, <3>1 DEF ExportOne, Export
    <2>2. LedgerTypeOK' /\ SettledBehind' /\ HandHeld' /\ QueuedInOrder'
      BY <1>1, <1>5, <1>6, <2>1
         DEF LInv, LedgerPart, LedgerTypeOK, SettledBehind, HandHeld, QueuedInOrder
    <2>3. NothingLost'
      BY <1>1, <2>1 DEF LInv, LedgerPart, Record, NothingLost, InFlight
    <2> QED
      BY <1>5, <2>2, <2>3 DEF LedgerPart, Record
  <1>8. CASE pos + 1 = hand.size
    <2>1. merger' = "receiving" /\ hand' = NoBatch /\ settled' = [settled EXCEPT ![p] = hand.id]
      <3>1. hand.size \in Int /\ pos \in Int
        BY <1>1, ChanFacts DEF LInv, IInv, TypeOK
      <3> QED
        BY <1>8, <3>1 DEF ExportOne, Export
    <2>2. settled'[p] = settled[p] + 1 /\ \A q \in Pollers : q # p => settled'[q] = settled[q]
      BY <1>2, <1>3, <2>1 DEF LInv, LedgerPart, LedgerTypeOK
    <2>3. LedgerTypeOK' /\ HandHeld' /\ QueuedInOrder'
      BY <1>1, <1>2, <1>5, <1>6, <2>1 DEF LInv, LedgerPart, LedgerTypeOK, HandHeld, QueuedInOrder
    <2>4. SettledBehind'
      BY <1>1, <1>2, <1>3, <1>4, <2>2 DEF LInv, LedgerPart, SettledBehind
    <2>5. NothingLost'
      <3> SUFFICES ASSUME NEW q \in Pollers, NEW n
                   PROVE  n \in InFlight(q)' <=> n \in settled'[q] + 1 .. accepted[q]
        BY <1>1, NothingLostNext DEF LInv, LedgerPart, Record
      <3>1. n \in InFlight(q)' <=> \E i \in DOMAIN chan : chan[i].poller = q /\ chan[i].id = n
        BY <1>1, <2>1, InFlightNextIff
      <3>2. n \in settled[q] + 1 .. accepted[q] <=>
               \/ \E i \in DOMAIN chan : chan[i].poller = q /\ chan[i].id = n
               \/ hand # NoBatch /\ hand.poller = q /\ hand.id = n
        BY <1>1, UnsettledIff, ZenonT(30)
      <3>3. n \in settled'[q] + 1 .. accepted[q]
              <=> n \in settled[q] + 1 .. accepted[q] /\ ~(q = p /\ n = hand.id)
        <4>1. settled[q] \in Int /\ accepted[q] \in Int
          BY ChanFacts
        <4> QED
          BY <1>2, <1>3, <1>4, <2>2, <4>1
      <3>4. \A i \in DOMAIN chan : chan[i].poller = p => chan[i].id # hand.id
        BY <1>1, <1>2, <1>6, ChanFacts DEF QueuedInOrder
      <3> QED
        BY <1>1, <3>1, <3>2, <3>3, <3>4
    <2> QED
      BY <1>5, <2>3, <2>4, <2>5 DEF LedgerPart, Record
  <1> QED
    BY <1>7, <1>8 DEF ExportOne, Export

\* A step that changes nothing keeps the invariant.
LEMMA LedgerStutterInv == LInv /\ UNCHANGED ledgerVars => LedgerPart'
  <1> SUFFICES ASSUME LInv, UNCHANGED ledgerVars PROVE LedgerPart'
    OBVIOUS
  <1>1. /\ UNCHANGED <<open, chan, r, hand, pos, pc, merger>>
        /\ UNCHANGED history
    BY DEF ledgerVars, vars, chanVars, mergerVars
  <1>2. OwnBatch' /\ HandHeld'
    BY <1>1 DEF LInv, LedgerPart, OwnBatch, HandHeld
  <1> QED
    BY <1>1, <1>2, RecordKept DEF LedgerPart

\* The invariant is inductive.
LEMMA LedgerNextInv == LInv /\ [LedgerNext]_ledgerVars => LInv'
  <1> SUFFICES ASSUME LInv, [LedgerNext]_ledgerVars PROVE LedgerPart'
    BY LedgerKeepsIInv DEF LInv
  <1>1. ASSUME NEW p \in Pollers, NextBatch(p) \/ Hand(p) \/ Park(p) PROVE LedgerPart'
    BY <1>1, NextBatchInv, HandInv, ParkInv
  <1>2. CASE Take \/ ExportOne \/ OtherStep
    BY <1>2, TakeInv, ExportOneInv, OtherStepInv
  <1>3. CASE (Rest /\ UNCHANGED <<history, overtaken>>) \/ UNCHANGED ledgerVars
    BY <1>3, LedgerStutterInv DEF Rest, ledgerVars
  <1> QED
    BY <1>1, <1>2, <1>3 DEF LedgerNext

-----------------------------------------------------------------------------
(* The theorems.                                                           *)

\* The inductive invariant holds in every reachable state.
THEOREM LedgerInvariance == LedgerSpec => []LInv
  <1>1. LedgerInit => LInv
    BY LedgerInitInv
  <1>2. LInv /\ [LedgerNext]_ledgerVars => LInv'
    BY LedgerNextInv
  <1> QED
    BY <1>1, <1>2, PTL DEF LedgerSpec

\* For any number of pollers and any capacity, no batch is lost between the poll and the
\* export while the merger lives (intersight_poller.rs 124, 185, metric_merger.rs 39-60).
THEOREM NoBatchLost == LedgerSpec => []NothingLost
  <1>1. LInv => NothingLost
    BY DEF LInv, LedgerPart, Record
  <1> QED
    BY <1>1, LedgerInvariance, PTL

\* For any number of pollers and batches, the collector receives the batches of a poller
\* in the order they were polled and no resource twice, whichever exports fail.
THEOREM CollectedInOrder == LedgerSpec => []ReceivedInOrder
  <1>1. LInv => ReceivedInOrder
    BY DEF LInv, LedgerPart, Record
  <1> QED
    BY <1>1, LedgerInvariance, PTL

-----------------------------------------------------------------------------
(* No parked poller is overtaken twice.  OvertakenOnce is not inductive:   *)
(* whoever may yet pass a parked poller, because it holds a slot or stands *)
(* ahead in the line, must not have done so before (FirstTime).            *)

OvertakingType == overtaken \in [Pollers -> [Pollers -> Nat]]

\* q parked before p and both wait.
AheadOf(q, p) == \E i, j \in DOMAIN waiters : i < j /\ waiters[i] = q /\ waiters[j] = p

FirstTime ==
    \A p, q \in Pollers :
        pc[p] = "waiting" /\ (pc[q] = "granted" \/ AheadOf(q, p)) => overtaken[p][q] = 0

Line == OvertakingType /\ FirstTime /\ OvertakenOnce

\* A step that parks and wakes nobody, and leaves the line or dissolves it.
LEMMA LineKept ==
    ASSUME Line, UNCHANGED overtaken, waiters' = waiters \/ waiters' = <<>>,
           \A q \in Pollers : pc'[q] \in {"waiting", "granted"} => pc'[q] = pc[q]
    PROVE  Line'
  <1>1. \A p, q \in Pollers : AheadOf(q, p)' => AheadOf(q, p)
    BY DEF AheadOf
  <1> QED
    BY <1>1 DEF Line, OvertakingType, FirstTime, OvertakenOnce

\* The steps that the line does not see.
Unseen ==
    \/ OtherStep \/ ExportOne \/ (\E p \in Pollers : NextBatch(p))
    \/ Rest /\ UNCHANGED <<history, overtaken>>
    \/ UNCHANGED ledgerVars

\* In these no poller starts to wait or is woken.
LEMMA LineUnseen == IInv /\ Line /\ Unseen => Line'
  <1> USE DEF mainVars, chanVars, mergerVars
  <1> SUFFICES ASSUME IInv, Line, Unseen PROVE Line'
    OBVIOUS
  <1>1. CASE MainStep /\ UNCHANGED overtaken
    <2>1. waiters' = waiters
      BY <1>1 DEF MainStep, LaunchFails, Launch, Supervise, AwaitMerger, MainReturns
    <2>2. \A q \in Pollers : pc'[q] \in {"waiting", "granted"} => pc'[q] = pc[q]
      BY <1>1 DEF MainStep, LaunchFails, Launch, Supervise, AwaitMerger, MainReturns, IInv, TypeOK
    <2> QED
      BY <1>1, <2>1, <2>2, LineKept
  <1>2. CASE (Connect \/ ConnectFails \/ ConvertPanics \/ Export) /\ UNCHANGED overtaken
    <2>1. (waiters' = waiters \/ waiters' = <<>>) /\ pc' = pc
      BY <1>2 DEF Connect, ConnectFails, ConvertPanics, Export, Close
    <2> QED
      BY <1>2, <2>1, LineKept
  <1>3. ASSUME NEW p \in Pollers, UNCHANGED overtaken,
               \/ BeginZero(p) \/ Begin(p) \/ Tick(p) \/ PollErr(p) \/ EnrichEnds(p)
               \/ SendFails(p) \/ Report(p) \/ PollOk(p)
        PROVE  Line'
    <2>1. waiters' = waiters
      BY <1>3 DEF BeginZero, Begin, Tick, PollErr, EnrichEnds, SendFails, Report, PollOk
    <2>2. \A q \in Pollers : pc'[q] \in {"waiting", "granted"} => pc'[q] = pc[q]
      BY <1>3 DEF BeginZero, Begin, Tick, PollErr, EnrichEnds, SendFails, Report, PollOk, Goto,
                  IInv, TypeOK
    <2> QED
      BY <1>3, <2>1, <2>2, LineKept
  <1>4. CASE UNCHANGED <<vars, overtaken>>
    BY <1>4, LineKept DEF vars
  <1>5. CASE OtherStep
    BY <1>1, <1>2, <1>3, <1>5 DEF OtherStep
  <1>6. CASE ExportOne
    BY <1>2, <1>6 DEF ExportOne
  <1>7. ASSUME NEW p \in Pollers, NextBatch(p) PROVE Line'
    BY <1>3, <1>7 DEF NextBatch
  <1>8. CASE (Rest /\ UNCHANGED <<history, overtaken>>) \/ UNCHANGED ledgerVars
    BY <1>4, <1>8 DEF Rest, ledgerVars
  <1> QED
    BY <1>5, <1>6, <1>7, <1>8 DEF Unseen

\* A poller that parks has been passed by nobody, and is nobody's predecessor.
LEMMA LineParked == ASSUME IInv, Line, NEW p \in Pollers, Park(p) PROVE Line'
  <1>1. /\ waiters' = Append(waiters, p) /\ waiters \in Seq(Pollers)
        /\ pc' = [pc EXCEPT ![p] = "waiting"]
        /\ overtaken' = [overtaken EXCEPT ![p] = NotOvertaken]
    BY DEF Park, SendWaits, Goto, IInv, TypeOK
  <1>2. OvertakingType'
    BY <1>1 DEF Line, OvertakingType, NotOvertaken
  <1>3. ASSUME NEW q \in Pollers PROVE overtaken'[p][q] = 0
    BY <1>1 DEF Line, OvertakingType, NotOvertaken
  <1>4. ASSUME NEW o \in Pollers, o # p, pc'[o] = "waiting", NEW q \in Pollers
        PROVE  /\ overtaken'[o][q] <= 1
               /\ pc'[q] = "granted" \/ AheadOf(q, o)' => overtaken'[o][q] = 0
    <2>1. pc[o] = "waiting" /\ overtaken'[o] = overtaken[o]
      BY <1>1, <1>4 DEF Line, OvertakingType, IInv, TypeOK
    <2>2. pc'[q] = "granted" => pc[q] = "granted"
      BY <1>1 DEF IInv, TypeOK
    <2>3. AheadOf(q, o)' => AheadOf(q, o)
      <3> SUFFICES ASSUME NEW i \in DOMAIN waiters', NEW j \in DOMAIN waiters', i < j,
                          waiters'[i] = q, waiters'[j] = o
                   PROVE  AheadOf(q, o)
        BY DEF AheadOf
      <3>1. i \in DOMAIN waiters /\ j \in DOMAIN waiters
        BY <1>1, <1>4
      <3> QED
        BY <1>1, <3>1 DEF AheadOf
    <2> QED
      BY <2>1, <2>2, <2>3 DEF Line, FirstTime, OvertakenOnce
  <1>5. FirstTime'
    BY <1>3, <1>4 DEF FirstTime
  <1>6. OvertakenOnce'
    BY <1>3, <1>4 DEF OvertakenOnce
  <1> QED
    BY <1>2, <1>5, <1>6 DEF Line

\* While somebody is parked only a poller that was handed a slot gets its batch in; then
\* it is neither woken nor ahead any more.
LEMMA LinePassed == ASSUME IInv, Line, NEW p \in Pollers, Hand(p) PROVE Line'
  <1>1. /\ open /\ waiters' = waiters /\ pc' = [pc EXCEPT ![p] = "tick"]
        /\ pc[p] = "granted" \/ (pc[p] = "sending" /\ permits > 0)
    BY DEF Hand, SendNow, SendGranted, Push, Goto
  <1>2. overtaken' = [q \in Pollers |-> IF pc[q] = "waiting"
                                        THEN [overtaken[q] EXCEPT ![p] = @ + 1]
                                        ELSE overtaken[q]]
    BY DEF Hand
  <1>3. OvertakingType'
    BY <1>2 DEF Line, OvertakingType
  <1>4. ASSUME NEW o \in Pollers, pc'[o] = "waiting"
        PROVE  pc[o] = "waiting" /\ pc[p] = "granted" /\ ~AheadOf(p, o)
    <2>1. pc[o] = "waiting"
      BY <1>1, <1>4 DEF IInv, TypeOK
    <2>2. waiters # <<>> /\ ~(permits > 0)
      BY <1>1, <2>1 DEF IInv, SlotsAccounted
    <2>3. pc[p] = "granted"
      BY <1>1, <2>2
    <2>4. ~AheadOf(p, o)
      BY <1>1, <2>3 DEF AheadOf, IInv, SlotsAccounted
    <2> QED
      BY <2>1, <2>3, <2>4
  <1>5. ASSUME NEW o \in Pollers, pc'[o] = "waiting", NEW q \in Pollers
        PROVE  /\ overtaken'[o][q] <= 1
               /\ pc'[q] = "granted" \/ AheadOf(q, o)' => overtaken'[o][q] = 0
    <2>1. overtaken'[o] = [overtaken[o] EXCEPT ![p] = @ + 1]
      BY <1>2, <1>4, <1>5
    <2>2. overtaken[o][q] \in Nat /\ overtaken[o] \in [Pollers -> Nat]
      BY DEF Line, OvertakingType
    <2>3. AheadOf(q, o)' <=> AheadOf(q, o)
      BY <1>1 DEF AheadOf
    <2>4. CASE q = p
      <3>1. overtaken[o][q] = 0
        BY <1>4, <1>5, <2>4 DEF Line, FirstTime
      <3>2. pc'[q] # "granted" /\ ~AheadOf(q, o)
        BY <1>1, <1>4, <1>5, <2>4 DEF IInv, TypeOK
      <3> QED
        BY <2>1, <2>2, <2>3, <2>4, <3>1, <3>2
    <2>5. CASE q # p
      <3>1. overtaken'[o][q] = overtaken[o][q] /\ pc'[q] = pc[q]
        BY <1>1, <2>1, <2>2, <2>5 DEF IInv, TypeOK
      <3> QED
        BY <1>4, <1>5, <2>3, <3>1 DEF Line, FirstTime, OvertakenOnce
    <2> QED
      BY <2>4, <2>5
  <1>6. FirstTime'
    BY <1>5 DEF FirstTime
  <1>7. OvertakenOnce'
    BY <1>5 DEF OvertakenOnce
  <1> QED
    BY <1>3, <1>6, <1>7 DEF Line

\* A freed slot goes to the head of the line, who was ahead of all that still wait.
LEMMA LineGranted == IInv /\ Line /\ Take => Line'
  <1> SUFFICES ASSUME IInv, Line, Take PROVE Line'
    OBVIOUS
  <1>1. open /\ waiters \in Seq(Pollers) /\ Release /\ UNCHANGED overtaken
    BY DEF Take, Receive, IInv, TypeOK, Receiver
  <1>2. CASE waiters = <<>>
    <2>1. UNCHANGED <<waiters, pc>>
      BY <1>1, <1>2 DEF Release
    <2> QED
      BY <1>1, <2>1, LineKept
  <1>3. CASE waiters # <<>>
    <2> DEFINE h == Head(waiters)
    <2>1. pc' = [pc EXCEPT ![h] = "granted"] /\ waiters' = Tail(waiters)
      BY <1>1, <1>3 DEF Release
    <2>2. h \in Pollers /\ h = waiters[1] /\ 1 \in DOMAIN waiters
      BY <1>1, <1>3
    <2> HIDE DEF h
    <2>3. \A i \in DOMAIN waiters' : i + 1 \in DOMAIN waiters /\ waiters'[i] = waiters[i + 1]
      BY <1>1, <1>3, <2>1
    <2>4. ASSUME NEW o \in Pollers, pc'[o] = "waiting"
          PROVE  pc[o] = "waiting" /\ AheadOf(h, o)
      <3>1. o # h /\ pc[o] = "waiting"
        BY <2>1, <2>2, <2>4 DEF IInv, TypeOK
      <3>2. PICK i \in DOMAIN waiters : waiters[i] = o
        BY <1>1, <3>1 DEF IInv, SlotsAccounted
      <3>3. 1 < i
        BY <1>1, <2>2, <3>1, <3>2
      <3> QED
        BY <2>2, <3>1, <3>2, <3>3 DEF AheadOf
    <2>5. ASSUME NEW o \in Pollers, NEW q \in Pollers, AheadOf(q, o)'
          PROVE  AheadOf(q, o)
      <3>1. PICK i \in DOMAIN waiters', j \in DOMAIN waiters' :
                i < j /\ waiters'[i] = q /\ waiters'[j] = o
        BY <2>5 DEF AheadOf
      <3>2. i + 1 < j + 1
        BY <1>1, <2>1, <3>1
      <3> QED
        BY <2>3, <3>1, <3>2 DEF AheadOf
    <2>6. FirstTime'
      <3> SUFFICES ASSUME NEW o \in Pollers, NEW q \in Pollers, pc'[o] = "waiting",
                          pc'[q] = "granted" \/ AheadOf(q, o)'
                   PROVE  overtaken'[o][q] = 0
        BY DEF FirstTime
      <3>1. pc[q] = "granted" \/ AheadOf(q, o)
        BY <2>1, <2>2, <2>4, <2>5 DEF IInv, TypeOK
      <3> QED
        BY <1>1, <2>4, <3>1 DEF Line, FirstTime
    <2> QED
      BY <1>1, <2>4, <2>6 DEF Line, OvertakingType, OvertakenOnce
  <1> QED
    BY <1>2, <1>3

LEMMA LineNext == IInv /\ Line /\ [LedgerNext]_ledgerVars => Line'
  <1> SUFFICES ASSUME IInv, Line, [LedgerNext]_ledgerVars PROVE Line'
    OBVIOUS
  <1>1. ASSUME NEW p \in Pollers, Hand(p) \/ Park(p) PROVE Line'
    BY <1>1, LineParked, LinePassed
  <1>2. CASE Take
    BY <1>2, LineGranted
  <1>3. CASE Unseen
    BY <1>3, LineUnseen
  <1> QED
    BY <1>1, <1>2, <1>3 DEF LedgerNext, Unseen

\* For any number of pollers and any capacity, a poller parked in tx.send is passed at most
\* once by each of the others, by those that were ahead of it in the line.
THEOREM NeverOvertakenTwice == LedgerSpec => []OvertakenOnce
  <1>1. LedgerInit => IInv /\ Line
    <2> SUFFICES ASSUME LedgerInit PROVE IInv /\ Line
      OBVIOUS
    <2>1. IInv
      BY InitInv DEF LedgerInit
    <2>2. OvertakingType /\ \A p, q \in Pollers : overtaken[p][q] = 0
      BY DEF LedgerInit, NotOvertaken, OvertakingType
    <2> QED
      BY <2>1, <2>2 DEF Line, FirstTime, OvertakenOnce
  <1>2. (IInv /\ Line) /\ [LedgerNext]_ledgerVars => (IInv /\ Line)'
    BY LedgerKeepsIInv, LineNext
  <1>3. Line => OvertakenOnce
    BY DEF Line
  <1> QED
    BY <1>1, <1>2, <1>3, PTL DEF LedgerSpec

-----------------------------------------------------------------------------
(* The refinement: under the mapping that Promise states, every step of    *)
(* the pipeline is a step of Delivery or leaves its variables alone.       *)

\* Where a batch of the backlog stands: 0 is the merger's hand, i the i-th of the queue.
Place(b) ==
    IF hand # NoBatch /\ hand.poller = b[1] /\ hand.id = b[2]
    THEN 0
    ELSE CHOOSE i \in DOMAIN chan : chan[i].poller = b[1] /\ chan[i].id = b[2]

\* Each batch of the backlog has a place of its own, so there are no more of them than
\* the queue and the hand can hold.
LEMMA BacklogBounded ==
    ASSUME LInv, open
    PROVE  /\ Cardinality(Promise!Backlog) \in Nat
           /\ Cardinality(Promise!Backlog) <= Len(chan) + 1
  <1> DEFINE B == Promise!Backlog
             P == 0 .. Len(chan)
             f == [b \in B |-> Place(b)]
  <1>1. Len(chan) \in Nat /\ DOMAIN chan = 1 .. Len(chan)
    BY ChanFacts
  <1>2. ASSUME NEW b \in B
        PROVE  /\ b = <<b[1], b[2]>>
               /\ \/ hand # NoBatch /\ hand.poller = b[1] /\ hand.id = b[2]
                  \/ \E i \in DOMAIN chan : chan[i].poller = b[1] /\ chan[i].id = b[2]
    <2>1. PICK p \in Pollers : b \in {p} \X (settled[p] + 1 .. accepted[p])
      BY DEF Promise!Backlog
    <2>2. b = <<b[1], b[2]>> /\ b[1] = p /\ b[2] \in settled[p] + 1 .. accepted[p]
      BY <2>1
    <2>3. \/ \E i \in DOMAIN chan : chan[i].poller = p /\ chan[i].id = b[2]
          \/ hand # NoBatch /\ hand.poller = p /\ hand.id = b[2]
      <3>1. ASSUME NEW n, n \in settled[p] + 1 .. accepted[p]
            PROVE  \/ \E i \in DOMAIN chan : chan[i].poller = p /\ chan[i].id = n
                   \/ hand # NoBatch /\ hand.poller = p /\ hand.id = n
        BY <3>1, UnsettledIff, ZenonT(30)
      <3> QED
        BY <2>2, <3>1
    <2> QED
      BY <2>2, <2>3
  <1>3. ASSUME NEW b \in B
        PROVE  /\ Place(b) \in P
               /\ Place(b) = 0 => hand.poller = b[1] /\ hand.id = b[2]
               /\ Place(b) # 0 => chan[Place(b)].poller = b[1] /\ chan[Place(b)].id = b[2]
    <2>1. CASE hand # NoBatch /\ hand.poller = b[1] /\ hand.id = b[2]
      BY <1>1, <2>1 DEF Place
    <2>2. CASE ~(hand # NoBatch /\ hand.poller = b[1] /\ hand.id = b[2])
      <3>1. \E i \in DOMAIN chan : chan[i].poller = b[1] /\ chan[i].id = b[2]
        BY <1>2, <2>2
      <3>2. /\ Place(b) \in DOMAIN chan
            /\ chan[Place(b)].poller = b[1] /\ chan[Place(b)].id = b[2]
        BY <2>2, <3>1 DEF Place
      <3> QED
        BY <1>1, <3>2
    <2> QED
      BY <2>1, <2>2
  <1>4. f \in Injection(B, P)
    <2>1. f \in [B -> P]
      BY <1>3
    <2>2. ASSUME NEW a \in B, NEW b \in B, f[a] = f[b] PROVE a = b
      <3>1. Place(a) = Place(b)
        BY <2>2
      <3>2. a[1] = b[1] /\ a[2] = b[2]
        BY <1>3, <3>1
      <3> QED
        BY <1>2, <3>2
    <2> QED
      BY <2>1, <2>2 DEF Injection, IsInjective
  <1>5. IsFiniteSet(P) /\ Cardinality(P) = Len(chan) + 1
    BY <1>1, FS_Interval
  <1> HIDE DEF B, P, f
  <1>6. IsFiniteSet(B) /\ Cardinality(B) <= Cardinality(P)
    BY <1>4, <1>5, FS_Injection
  <1> QED
    BY <1>5, <1>6, FS_CardinalityType DEF B

\* A poller that fills a slot finds the backlog below its bound.
LEMMA RoomToAccept ==
    ASSUME LInv, NEW p \in Pollers, Hand(p)
    PROVE  open /\ Cardinality(Promise!Backlog) < Capacity + 1
  <1>1. open /\ ((permits > 0) \/ pc[p] = "granted")
    BY DEF Hand, SendNow, SendGranted
  <1>2. permits + Len(chan) + Cardinality(Granted) = Capacity
    BY <1>1 DEF LInv, IInv, SlotsAccounted
  <1>3. permits \in Nat /\ Len(chan) \in Nat /\ Cardinality(Granted) \in Nat /\ IsFiniteSet(Granted)
    BY PollersFinite, PipelineAssumption DEF Granted, LInv, IInv, TypeOK
  <1>4. pc[p] = "granted" => Cardinality(Granted) > 0
    <2> SUFFICES ASSUME pc[p] = "granted" PROVE Cardinality(Granted) # 0
      BY <1>3
    <2>1. Granted # {}
      BY DEF Granted
    <2> QED
      BY <1>3, <2>1, FS_EmptySet
  <1>5. Len(chan) < Capacity
    BY <1>1, <1>2, <1>3, <1>4, PipelineAssumption
  <1> QED
    BY <1>1, <1>3, <1>5, BacklogBounded, PipelineAssumption
\* The instance counts with its own copy of FiniteSets.
LEMMA SameCardinality == ASSUME NEW S PROVE Promise!Cardinality(S) = Cardinality(S)
  BY DEF Promise!Cardinality, Cardinality

\* Handing a batch over is Delivery's Accept: it is the poller's next.
LEMMA AcceptStep == ASSUME LInv, ~Exited, NEW p \in Pollers, Hand(p) PROVE Promise!Accept(p)
  <1>1. open /\ Cardinality(Promise!Backlog) < Capacity + 1
    BY RoomToAccept
  <1>2. UNCHANGED <<settled, open, main>>
    BY DEF Hand, SendNow, SendGranted, mainVars
  <1>3. accepted' = [accepted EXCEPT ![p] = @ + 1]
    <2>1. r[p] # NoBatch
      BY PipelineAssumption DEF Hand, SendNow, SendGranted, LInv, IInv, BatchAtHand
    <2>2. r[p].id = accepted[p] + 1
      BY <1>1, <2>1, ChanFacts DEF LInv, LedgerPart, Record, NothingLost
    <2> QED
      BY <2>2 DEF Hand
  <1>4. (open /\ ~Exited)' = (open /\ ~Exited)
    BY <1>2 DEF Exited
  <1>5. settled' = settled
    BY <1>2
  <1>6. Promise!Cardinality(Promise!Backlog) < Capacity + 1
    BY <1>1, SameCardinality
  <1> QED
    BY <1>1, <1>3, <1>4, <1>5, <1>6 DEF Promise!Accept

\* Taking an empty batch, and exporting the last resource of one, settles it.
LEMMA SettleStep ==
    ASSUME LInv, ~Exited, Take \/ ExportOne
    PROVE  (\E p \in Pollers : Promise!Settle(p)) \/ UNCHANGED Promise!vars
  <1>1. open /\ UNCHANGED <<accepted, open, main>>
    BY DEF Take, ExportOne, Receive, Export, mainVars, chanVars, LInv, IInv, Receiver
  <1>2. (open /\ ~Exited)' = (open /\ ~Exited)
    BY <1>1 DEF Exited
  <1>3. CASE settled' = settled
    BY <1>1, <1>2, <1>3 DEF Promise!vars
  <1>4. ASSUME NEW p \in Pollers, settled[p] + 1 \in settled[p] + 1 .. accepted[p],
               settled' = [settled EXCEPT ![p] = settled[p] + 1]
        PROVE  Promise!Settle(p)
    <2>1. settled[p] < accepted[p]
      BY <1>4, ChanFacts
    <2> QED
      BY <1>1, <1>2, <1>4, <2>1 DEF Promise!Settle
  <1>5. CASE Take
    <2> DEFINE b == chan[1]
    <2>1. hand = NoBatch /\ chan # <<>> /\ Head(chan) = b /\ 1 \in DOMAIN chan
      BY <1>5 DEF Take, Receive, LInv, LedgerPart, HandHeld, IInv, TypeOK
    <2>2. b.poller \in Pollers /\ b.id = settled[b.poller] + 1
      BY <1>1, <2>1, ChanFacts, OldestFirst
    <2>3. b.id \in settled[b.poller] + 1 .. accepted[b.poller]
      BY <1>1, <2>1, <2>2, UnsettledIff
    <2>4. settled' \in {settled, [settled EXCEPT ![b.poller] = b.id]}
      BY <1>5, <2>1 DEF Take
    <2> QED
      BY <1>3, <1>4, <2>2, <2>3, <2>4
  <1>6. CASE ExportOne
    <2>1. hand # NoBatch
      BY <1>6 DEF ExportOne, Export, LInv, LedgerPart, HandHeld
    <2>2. hand.poller \in Pollers /\ hand.id = settled[hand.poller] + 1
      BY <1>1, <2>1, ChanFacts, OldestFirst
    <2>3. hand.id \in settled[hand.poller] + 1 .. accepted[hand.poller]
      BY <1>1, <2>1, <2>2, UnsettledIff
    <2>4. settled' \in {settled, [settled EXCEPT ![hand.poller] = hand.id]}
      BY <1>6 DEF ExportOne
    <2> QED
      BY <1>3, <1>4, <2>2, <2>3, <2>4
  <1> QED
    BY <1>5, <1>6

\* The other steps either stop the exporter or are not seen.
LEMMA OtherStops ==
    ASSUME LInv, ~Exited, OtherStep
    PROVE  Promise!Stop \/ UNCHANGED Promise!vars
  <1>1. UNCHANGED <<accepted, settled>>
    BY DEF OtherStep, history
  <1>2. open' = open \/ open' = FALSE
    BY DEF OtherStep, MainStep, LaunchFails, Launch, Supervise, AwaitMerger, MainReturns,
           Connect, ConnectFails, ConvertPanics, Close, BeginZero, Begin, Tick, PollErr,
           EnrichEnds, SendFails, Report, chanVars
  <1>3. CASE (open /\ ~Exited) /\ ~(open /\ ~Exited)'
    BY <1>1, <1>3, Zenon DEF Promise!Stop
  <1>4. CASE (open /\ ~Exited)' = (open /\ ~Exited)
    BY <1>1, <1>4 DEF Promise!vars
  <1> QED
    BY <1>2, <1>3, <1>4

\* The initial states map to the initial state of Delivery.
LEMMA LedgerInitMaps == LedgerInit => Promise!Init
  <1> SUFFICES ASSUME LedgerInit PROVE Promise!Init
    OBVIOUS
  <1>1. open /\ ~Exited
    BY DEF LedgerInit, Init, Exited
  <1> QED
    BY <1>1, Zenon DEF LedgerInit, Promise!Init

\* Every step maps to a step of Delivery or to a stutter.
LEMMA LedgerStepMaps ==
    LInv /\ [LedgerNext]_ledgerVars => [Promise!Next]_Promise!vars
  <1> SUFFICES ASSUME LInv, [LedgerNext]_ledgerVars
               PROVE  Promise!Next \/ UNCHANGED Promise!vars
    OBVIOUS
  <1>1. ASSUME ~Exited, NEW p \in Pollers, Hand(p) PROVE Promise!Next
    BY <1>1, AcceptStep DEF Promise!Next
  <1>2. ASSUME NEW p \in Pollers, NextBatch(p) \/ Park(p) PROVE UNCHANGED Promise!vars
    <2>1. UNCHANGED <<accepted, settled, open, main>>
      BY <1>2 DEF NextBatch, PollOk, Park, SendWaits, mainVars, chanVars, history
    <2> QED
      BY <2>1 DEF Promise!vars, Exited
  <1>3. ASSUME ~Exited, Take \/ ExportOne PROVE Promise!Next \/ UNCHANGED Promise!vars
    BY <1>3, SettleStep DEF Promise!Next
  <1>4. ASSUME ~Exited, OtherStep PROVE Promise!Next \/ UNCHANGED Promise!vars
    BY <1>4, OtherStops DEF Promise!Next
  <1>5. CASE (Rest /\ UNCHANGED <<history, overtaken>>) \/ UNCHANGED ledgerVars
    <2>1. UNCHANGED <<accepted, settled, open, main>>
      BY <1>5 DEF Rest, ledgerVars, vars, history, mainVars, chanVars
    <2> QED
      BY <2>1 DEF Promise!vars, Exited
  <1> QED
    BY <1>1, <1>2, <1>3, <1>4, <1>5 DEF LedgerNext

\* The pipeline implements Delivery, liveness apart (ImplementsDelivery adds it): what the
\* pollers hand over is settled one by one, in order, none skipped and none twice, with
\* at most Capacity + 1 batches in between, until the exporter stops for good.
THEOREM DeliversAsPromised == LedgerSpec => Promise!Spec
  <1>1. LedgerInit => Promise!Init
    BY LedgerInitMaps
  <1>2. LInv /\ [LedgerNext]_ledgerVars => [Promise!Next]_Promise!vars
    BY LedgerStepMaps
  <1> QED
    BY <1>1, <1>2, LedgerInvariance, PTL DEF LedgerSpec, Promise!Spec
=============================================================================
