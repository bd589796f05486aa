--------------------------- MODULE PipelineProofs ---------------------------
(***************************************************************************)
(* Proofs about Pipeline, for any number of pollers and any capacity.      *)
(***************************************************************************)
EXTENDS Pipeline, FiniteSetTheorems, TLAPS

-----------------------------------------------------------------------------
(* The inductive invariant.  TypeOK alone is not inductive: that permits   *)
(* stays below Capacity follows from SlotsAccounted, that only batches are *)
(* queued from BatchAtHand, and that pos stays in range from Exporting.    *)

BatchAtHand ==
    \A p \in Pollers :
        pc[p] \in {"enriching", "sending", "waiting", "granted"} => r[p] \in Batch

Exporting == merger = "exporting" => hand \in Batch /\ pos < hand.size

Receiver == merger \in {"connecting", "receiving", "exporting"} => open

MainHoldsSender == ~Exited => 0 \in senders

NotLaunched == \A p \in Pollers : p > launched => pc[p] = "absent"

IInv ==
    /\ TypeOK
    /\ BatchAtHand
    /\ Exporting
    /\ Receiver
    /\ MainHoldsSender
    /\ NotLaunched
    /\ SlotsAccounted

PcType == {"absent", "spawned", "tick", "polling", "enriching", "sending", "waiting",
           "granted", "panicked"}

-----------------------------------------------------------------------------
(* Counting.                                                               *)

\* A set of pollers is finite.
LEMMA PollersFinite == ASSUME NEW S \in SUBSET Pollers
                       PROVE IsFiniteSet(S) /\ Cardinality(S) \in Nat
  <1>1. IsFiniteSet(Pollers)
    BY PipelineAssumption, FS_Interval DEF Pollers
  <1>2. IsFiniteSet(S)
    BY <1>1, FS_Subset
  <1> QED
    BY <1>2, FS_CardinalityType

\* A step that neither wakes a parked poller nor parks one, nor touches the channel,
\* keeps the account of the slots.
LEMMA SlotsKept ==
    ASSUME TypeOK, SlotsAccounted, UNCHANGED <<chan, permits, waiters, open>>,
           NEW p \in Pollers, NEW l \in PcType \ {"waiting", "granted"},
           pc' = [pc EXCEPT ![p] = l] \/ pc' = pc,
           pc[p] \notin {"waiting", "granted"} \/ pc' = pc
    PROVE  SlotsAccounted'
  <1>1. \A q \in Pollers : /\ pc'[q] = "waiting" <=> pc[q] = "waiting"
                           /\ pc'[q] = "granted" <=> pc[q] = "granted"
    BY DEF TypeOK, PcType
  <1>2. Granted' = Granted
    BY <1>1 DEF Granted
  <1> QED
    BY <1>1, <1>2 DEF SlotsAccounted

-----------------------------------------------------------------------------
(* Init and the steps of main and of the supervisors.                      *)

LEMMA InitInv == Init => IInv
  <1> USE PipelineAssumption
  <1> SUFFICES ASSUME Init PROVE IInv
    OBVIOUS
  <1>1. TypeOK
    <2>1. config \in [Pollers -> Configs]
      BY DEF Init
    <2>2. /\ pc \in [Pollers -> PcType]
          /\ r \in [Pollers -> Batch \cup {NoBatch}]
      BY DEF Init, PcType
    <2>3. chan \in Seq(Batch) /\ waiters \in Seq(Pollers)
      BY DEF Init
    <2> QED
      BY <2>1, <2>2, <2>3 DEF Init, TypeOK, PcType
  <1>2. BatchAtHand /\ Exporting /\ Receiver /\ MainHoldsSender /\ NotLaunched
    BY DEF Init, BatchAtHand, Exporting, Receiver, MainHoldsSender, NotLaunched, Exited
  <1>3. SlotsAccounted
    <2>1. Granted = {}
      BY DEF Init, Granted
    <2>2. Cardinality(Granted) = 0
      BY <2>1, FS_EmptySet
    <2> QED
      BY <2>2 DEF Init, SlotsAccounted
  <1> QED
    BY <1>1, <1>2, <1>3 DEF IInv

\* A launched poller starts at "spawned": it neither holds nor awaits a slot.
LEMMA LaunchInv == IInv /\ Launch => IInv'
  <1> USE PipelineAssumption DEF mergerVars
  <1> SUFFICES ASSUME IInv, Launch PROVE IInv'
    OBVIOUS
  <1> DEFINE p == launched + 1
  <1>1. p \in Pollers /\ pc[p] = "absent"
    BY DEF IInv, TypeOK, NotLaunched, Launch, Pollers
  <1>2. pc' = [pc EXCEPT ![p] = "spawned"]
    BY DEF Launch
  <1>3. TypeOK'
    BY <1>1 DEF IInv, TypeOK, Launch
  <1>4. BatchAtHand' /\ NotLaunched'
    BY <1>1 DEF IInv, TypeOK, BatchAtHand, NotLaunched, Launch, Pollers
  <1>5. Exporting' /\ Receiver' /\ MainHoldsSender'
    BY DEF IInv, Exporting, Receiver, MainHoldsSender, Exited, Launch
  <1>6. SlotsAccounted'
    <2>1. UNCHANGED <<chan, permits, waiters, open>>
      BY DEF Launch
    <2> QED
      BY <1>1, <1>2, <2>1, SlotsKept DEF IInv, PcType
  <1> QED
    BY <1>3, <1>4, <1>5, <1>6 DEF IInv

\* The other steps of main do not touch the pollers; when main gives up its Sender it
\* has returned.
LEMMA MainInv == IInv /\ MainStep => IInv'
  <1> USE PipelineAssumption DEF chanVars, mergerVars
  <1> SUFFICES ASSUME IInv, MainStep PROVE IInv'
    OBVIOUS
  <1>1. CASE Launch
    BY <1>1, LaunchInv
  <1>2. CASE LaunchFails \/ Supervise \/ AwaitMerger \/ MainReturns
    <2>1. UNCHANGED <<config, launched, pc, r, chan, permits, waiters, open, merger, hand, pos>>
      BY <1>2 DEF LaunchFails, Supervise, AwaitMerger, MainReturns
    <2>2. TypeOK'
      <3>1. main' \in {"launching", "awaiting", "exitOk", "exitErr"} /\ reported' = reported
        BY <1>2 DEF IInv, TypeOK, LaunchFails, Supervise, AwaitMerger, MainReturns
      <3>2. supervised' \in 0 .. NPollers
        BY <1>2 DEF IInv, TypeOK, LaunchFails, Supervise, AwaitMerger, MainReturns
      <3>3. senders' \subseteq senders
        BY <1>2 DEF LaunchFails, Supervise, AwaitMerger, MainReturns
      <3> QED
        BY <2>1, <3>1, <3>2, <3>3 DEF IInv, TypeOK
    <2>3. BatchAtHand' /\ NotLaunched' /\ Exporting' /\ Receiver'
      BY <2>1 DEF IInv, BatchAtHand, NotLaunched, Exporting, Receiver
    <2>4. MainHoldsSender'
      BY <1>2 DEF IInv, MainHoldsSender, Exited, LaunchFails, Supervise, AwaitMerger,
                  MainReturns
    <2>5. SlotsAccounted'
      BY <2>1 DEF IInv, SlotsAccounted, Granted
    <2> QED
      BY <2>2, <2>3, <2>4, <2>5 DEF IInv
  <1> QED
    BY <1>1, <1>2 DEF MainStep

\* A supervisor only writes to the log.
LEMMA ReportInv == ASSUME IInv, NEW p \in Pollers, Report(p) PROVE IInv'
  BY DEF IInv, TypeOK, BatchAtHand, NotLaunched, Exporting, Receiver, MainHoldsSender,
         Exited, SlotsAccounted, Granted, Report, chanVars, mergerVars

-----------------------------------------------------------------------------
(* The steps of a poller.                                                  *)

\* Steps between the sends: the channel is left alone and the poller does not park.
LEMMA LoopInv ==
    ASSUME IInv, NEW p \in Pollers,
           Begin(p) \/ BeginZero(p) \/ Tick(p) \/ PollOk(p) \/ PollErr(p) \/ EnrichEnds(p)
    PROVE  IInv'
  <1> USE PipelineAssumption DEF chanVars, mergerVars, mainVars
  <1>1. UNCHANGED <<config, main, launched, supervised, reported, chan, permits, waiters,
                    open, merger, hand, pos>>
    BY DEF Begin, BeginZero, Tick, PollOk, PollErr, EnrichEnds
  <1>2. PICK l \in PcType \ {"absent", "waiting", "granted"} : pc' = [pc EXCEPT ![p] = l]
    BY DEF Begin, BeginZero, Tick, PollOk, PollErr, EnrichEnds, Goto, PcType
  <1>3. pc[p] \in {"spawned", "tick", "polling", "enriching"}
    BY DEF Begin, BeginZero, Tick, PollOk, PollErr, EnrichEnds
  <1>4. senders' \in {senders, senders \ {p}}
    BY DEF Begin, BeginZero, Tick, PollOk, PollErr, EnrichEnds
  <1>5. r' = r \/ \E b \in Batch : r' = [r EXCEPT ![p] = b]
    BY DEF Begin, BeginZero, Tick, PollOk, PollErr, EnrichEnds, PollResults
  <1>6. TypeOK'
    BY <1>1, <1>2, <1>4, <1>5 DEF IInv, TypeOK, PcType
  <1>7. BatchAtHand'
    <2>1. ASSUME NEW q \in Pollers, q # p PROVE pc'[q] = pc[q] /\ r'[q] = r[q]
      BY <1>2, <1>5, <2>1 DEF IInv, TypeOK
    <2>2. pc'[p] \in {"enriching", "sending", "waiting", "granted"} => r'[p] \in Batch
      BY <1>2, <1>3, <1>5 DEF IInv, TypeOK, BatchAtHand, Begin, BeginZero, Tick, PollOk,
                              PollErr, EnrichEnds, Goto, PollResults
    <2> QED
      BY <2>1, <2>2 DEF IInv, BatchAtHand
  <1>8. NotLaunched'
    BY <1>1, <1>2, <1>3 DEF IInv, TypeOK, NotLaunched, PcType
  <1>9. Exporting' /\ Receiver' /\ MainHoldsSender'
    BY <1>1, <1>4 DEF IInv, Exporting, Receiver, MainHoldsSender, Exited, Pollers
  <1>10. SlotsAccounted'
    BY <1>1, <1>2, <1>3, SlotsKept DEF IInv
  <1> QED
    BY <1>6, <1>7, <1>8, <1>9, <1>10 DEF IInv

\* What a push into the queue keeps, apart from the account of the slots.
LEMMA PushInv ==
    ASSUME IInv, NEW p \in Pollers, Push(p), pc[p] \in {"sending", "granted"},
           permits' \in 0 .. Capacity,
           UNCHANGED <<config, mainVars, waiters, open, senders, mergerVars>>
    PROVE  /\ TypeOK' /\ BatchAtHand' /\ Exporting' /\ Receiver' /\ MainHoldsSender'
           /\ NotLaunched'
           /\ Len(chan') = Len(chan) + 1
  <1> USE PipelineAssumption DEF mergerVars, mainVars, Push, Goto
  <1>1. r[p] \in Batch
    BY DEF IInv, BatchAtHand
  <1>2. chan' \in Seq(Batch) /\ Len(chan') = Len(chan) + 1
    BY <1>1 DEF IInv, TypeOK
  <1>3. TypeOK'
    BY <1>2 DEF IInv, TypeOK
  <1>4. BatchAtHand' /\ NotLaunched'
    BY DEF IInv, TypeOK, BatchAtHand, NotLaunched
  <1>5. Exporting' /\ Receiver' /\ MainHoldsSender'
    BY DEF IInv, Exporting, Receiver, MainHoldsSender, Exited
  <1> QED
    BY <1>2, <1>3, <1>4, <1>5

\* A free slot is filled.
LEMMA SendNowInv == ASSUME IInv, NEW p \in Pollers, SendNow(p) PROVE IInv'
  <1> USE PipelineAssumption
  <1>1. permits \in 0 .. Capacity /\ permits > 0 /\ permits' = permits - 1 /\ open /\ open'
    BY DEF IInv, TypeOK, SendNow
  <1>2. /\ TypeOK' /\ BatchAtHand' /\ Exporting' /\ Receiver' /\ MainHoldsSender'
        /\ NotLaunched'
        /\ Len(chan') = Len(chan) + 1
    BY <1>1, PushInv DEF SendNow
  <1>3. waiters' = waiters /\ waiters = <<>>
    BY <1>1 DEF IInv, SlotsAccounted, SendNow
  <1>4. pc' = [pc EXCEPT ![p] = "tick"] /\ pc[p] = "sending"
    BY DEF SendNow, Push, Goto
  <1>5. Granted' = Granted
    BY <1>4 DEF Granted, IInv, TypeOK
  <1>6. Cardinality(Granted) \in Nat
    BY PollersFinite DEF Granted
  <1>7. SlotsAccounted'
    <2>1. permits' + Len(chan') + Cardinality(Granted') = Capacity
      BY <1>1, <1>2, <1>5, <1>6 DEF IInv, TypeOK, SlotsAccounted
    <2>2. \A q \in Pollers : pc'[q] = "waiting" <=> pc[q] = "waiting"
      BY <1>4 DEF IInv, TypeOK
    <2> QED
      BY <1>1, <1>3, <2>1, <2>2 DEF IInv, SlotsAccounted
  <1> QED
    BY <1>2, <1>7 DEF IInv

\* A granted slot is filled.
LEMMA SendGrantedInv == ASSUME IInv, NEW p \in Pollers, SendGranted(p) PROVE IInv'
  <1> USE PipelineAssumption
  <1>1. permits \in 0 .. Capacity /\ permits' = permits /\ open /\ open' /\ waiters' = waiters
    BY DEF IInv, TypeOK, SendGranted
  <1>2. /\ TypeOK' /\ BatchAtHand' /\ Exporting' /\ Receiver' /\ MainHoldsSender'
        /\ NotLaunched'
        /\ Len(chan') = Len(chan) + 1
    BY <1>1, PushInv DEF SendGranted
  <1>3. pc' = [pc EXCEPT ![p] = "tick"] /\ pc[p] = "granted"
    BY DEF SendGranted, Push, Goto
  <1>4. Granted' = Granted \ {p} /\ p \in Granted
    BY <1>3 DEF Granted, IInv, TypeOK
  <1>5. Cardinality(Granted) \in Nat /\ Cardinality(Granted') = Cardinality(Granted) - 1
    <2>1. Granted \in SUBSET Pollers
      BY DEF Granted
    <2>2. IsFiniteSet(Granted) /\ Cardinality(Granted) \in Nat
      BY <2>1, PollersFinite
    <2> QED
      BY <1>4, <2>2, FS_RemoveElement
  <1>6. SlotsAccounted'
    <2>1. permits' + Len(chan') + Cardinality(Granted') = Capacity
      BY <1>1, <1>2, <1>5 DEF IInv, TypeOK, SlotsAccounted
    <2>2. \A q \in Pollers : pc'[q] = "waiting" <=> pc[q] = "waiting"
      BY <1>3 DEF IInv, TypeOK
    <2> QED
      BY <1>1, <2>1, <2>2 DEF IInv, SlotsAccounted
  <1> QED
    BY <1>2, <1>6 DEF IInv

\* The poller joins the end of the wait list, in which it was not yet.
LEMMA SendWaitsInv == ASSUME IInv, NEW p \in Pollers, SendWaits(p) PROVE IInv'
  <1> USE PipelineAssumption DEF mainVars, mergerVars, Goto
  <1>1. /\ pc[p] = "sending" /\ pc' = [pc EXCEPT ![p] = "waiting"]
        /\ waiters' = Append(waiters, p) /\ permits = 0 /\ open
        /\ UNCHANGED <<config, main, launched, supervised, reported, r, chan, permits, open,
                       senders, merger, hand, pos>>
    BY DEF SendWaits
  <1>2. TypeOK'
    BY <1>1 DEF IInv, TypeOK
  <1>3. BatchAtHand' /\ NotLaunched'
    BY <1>1 DEF IInv, TypeOK, BatchAtHand, NotLaunched
  <1>4. Exporting' /\ Receiver' /\ MainHoldsSender'
    BY <1>1 DEF IInv, Exporting, Receiver, MainHoldsSender, Exited
  <1>5. SlotsAccounted'
    <2>1. Granted' = Granted
      BY <1>1 DEF Granted, IInv, TypeOK
    <2>2. /\ waiters \in Seq(Pollers) /\ DOMAIN waiters = 1 .. Len(waiters)
          /\ DOMAIN waiters' = 1 .. Len(waiters) + 1
          /\ \A i \in DOMAIN waiters : waiters'[i] = waiters[i]
          /\ waiters'[Len(waiters) + 1] = p
          /\ Len(waiters) \in Nat
      BY <1>1 DEF IInv, TypeOK
    <2>3. \A i \in DOMAIN waiters : waiters[i] # p
      BY <1>1 DEF IInv, SlotsAccounted
    <2>4. \A q \in Pollers : pc'[q] = "waiting" <=> pc[q] = "waiting" \/ q = p
      BY <1>1 DEF IInv, TypeOK
    <2>5. \A q \in Pollers :
             pc'[q] = "waiting" <=> \E i \in DOMAIN waiters' : waiters'[i] = q
      BY <1>1, <2>2, <2>4 DEF IInv, SlotsAccounted
    <2>6. \A i, j \in DOMAIN waiters' : waiters'[i] = waiters'[j] => i = j
      BY <1>1, <2>2, <2>3 DEF IInv, SlotsAccounted
    <2> QED
      BY <1>1, <2>1, <2>5, <2>6 DEF IInv, SlotsAccounted
  <1> QED
    BY <1>2, <1>3, <1>4, <1>5 DEF IInv

\* Without a receiver there is no account to keep.
LEMMA SendFailsInv == ASSUME IInv, NEW p \in Pollers, SendFails(p) PROVE IInv'
  <1> USE PipelineAssumption DEF mainVars, mergerVars, chanVars, Goto, SendFails
  <1>1. TypeOK'
    BY DEF IInv, TypeOK
  <1>2. BatchAtHand' /\ NotLaunched'
    BY DEF IInv, TypeOK, BatchAtHand, NotLaunched
  <1>3. Exporting' /\ Receiver' /\ MainHoldsSender'
    BY DEF IInv, Exporting, Receiver, MainHoldsSender, Exited
  <1>4. SlotsAccounted'
    BY DEF SlotsAccounted
  <1> QED
    BY <1>1, <1>2, <1>3, <1>4 DEF IInv

LEMMA PollerInv == ASSUME IInv, NEW p \in Pollers, PollerStep(p) PROVE IInv'
  BY LoopInv, SendNowInv, SendWaitsInv, SendGrantedInv, SendFailsInv DEF PollerStep

-----------------------------------------------------------------------------
(* The steps of the merger.                                                *)

\* When the receiver goes, the invariant asks less of the channel.
LEMMA CloseInv ==
    ASSUME IInv, Close, merger' \in {"finished", "panicked"},
           hand' \in {hand, NoBatch}, pos' \in {pos, 0},
           UNCHANGED <<config, mainVars, pc, r, permits, senders>>
    PROVE  IInv'
  <1> USE PipelineAssumption DEF mainVars, Close
  <1>1. TypeOK'
    <2>1. chan' \in Seq(Batch) /\ waiters' \in Seq(Pollers)
      OBVIOUS
    <2>2. hand' \in Batch \cup {NoBatch} /\ pos' \in 0 .. MaxResources
      BY DEF IInv, TypeOK
    <2> QED
      BY <2>1, <2>2 DEF IInv, TypeOK
  <1>2. BatchAtHand' /\ NotLaunched'
    BY DEF IInv, BatchAtHand, NotLaunched
  <1>3. Exporting' /\ Receiver' /\ MainHoldsSender'
    BY DEF IInv, Exporting, Receiver, MainHoldsSender, Exited
  <1>4. SlotsAccounted'
    BY DEF SlotsAccounted
  <1> QED
    BY <1>1, <1>2, <1>3, <1>4 DEF IInv

\* Connecting and exporting leave the pollers and the channel alone.
LEMMA ExportInv == IInv /\ (Connect \/ Export) => IInv'
  <1> USE PipelineAssumption DEF mainVars, chanVars, mergerVars
  <1> SUFFICES ASSUME IInv, Connect \/ Export PROVE IInv'
    OBVIOUS
  <1>1. UNCHANGED <<config, main, launched, supervised, reported, pc, r, chan, permits,
                    waiters, open, senders>>
    BY DEF Connect, Export
  <1>2. CASE Connect
    <2>1. TypeOK' /\ Exporting' /\ Receiver'
      BY <1>2 DEF IInv, TypeOK, Exporting, Receiver, Connect
    <2> QED
      BY <1>1, <2>1 DEF IInv, BatchAtHand, NotLaunched, MainHoldsSender, Exited,
                        SlotsAccounted, Granted
  <1>3. CASE Export
    <2>1. hand \in Batch /\ hand.size \in 0 .. MaxResources /\ pos \in 0 .. MaxResources
      BY <1>3 DEF IInv, TypeOK, Exporting, Export, Batch
    <2>2. TypeOK' /\ Exporting' /\ Receiver'
      BY <1>3, <2>1 DEF IInv, TypeOK, Exporting, Receiver, Export
    <2> QED
      BY <1>1, <2>2 DEF IInv, BatchAtHand, NotLaunched, MainHoldsSender, Exited,
                        SlotsAccounted, Granted
  <1> QED
    BY <1>2, <1>3

\* Nobody waits: the slot goes back to the pool.
LEMMA ReleaseToPoolAccounted ==
    ASSUME IInv, Receive, waiters = <<>>, permits' = permits + 1, UNCHANGED <<waiters, pc>>
    PROVE  permits' \in 0 .. Capacity /\ SlotsAccounted'
  <1>1. open /\ open'
    BY DEF IInv, Receiver, Receive
  <1>2. chan \in Seq(Batch) /\ chan # <<>> /\ chan' = Tail(chan)
    BY DEF IInv, TypeOK, Receive
  <1>3. Len(chan) \in Nat /\ Len(chan) > 0 /\ Len(chan') = Len(chan) - 1
    BY <1>2
  <1>4. Granted' = Granted /\ Cardinality(Granted) \in Nat
    BY PollersFinite DEF Granted
  <1>5. permits' + Len(chan') + Cardinality(Granted') = Capacity
    BY <1>1, <1>3, <1>4 DEF IInv, TypeOK, SlotsAccounted
  <1>6. permits' \in 0 .. Capacity
    BY <1>3, <1>4, <1>5, PipelineAssumption DEF IInv, TypeOK
  <1> QED
    BY <1>1, <1>5, <1>6 DEF IInv, SlotsAccounted

\* The slot goes to the head of the wait list, which leaves it: it was in the list once.
LEMMA ReleaseToHeadAccounted ==
    ASSUME IInv, Receive, waiters # <<>>, UNCHANGED permits,
           pc' = [pc EXCEPT ![Head(waiters)] = "granted"], waiters' = Tail(waiters)
    PROVE  SlotsAccounted'
  <1> DEFINE p == Head(waiters)
  <1>1. open /\ open'
    BY DEF IInv, Receiver, Receive
  <1>2. /\ waiters \in Seq(Pollers) /\ Len(waiters) \in Nat \ {0} /\ p = waiters[1]
        /\ DOMAIN waiters = 1 .. Len(waiters) /\ p \in Pollers
        /\ waiters' \in Seq(Pollers) /\ DOMAIN waiters' = 1 .. Len(waiters) - 1
        /\ \A i \in DOMAIN waiters' : waiters'[i] = waiters[i + 1]
    BY DEF IInv, TypeOK
  <1>3. pc[p] = "waiting"
    BY <1>1, <1>2 DEF IInv, SlotsAccounted
  <1>4. Granted' = Granted \cup {p} /\ p \notin Granted
    BY <1>2, <1>3 DEF IInv, TypeOK, Granted
  <1>5. Cardinality(Granted) \in Nat /\ Cardinality(Granted') = Cardinality(Granted) + 1
    <2>1. Granted \in SUBSET Pollers
      BY DEF Granted
    <2>2. IsFiniteSet(Granted) /\ Cardinality(Granted) \in Nat
      BY <2>1, PollersFinite
    <2> QED
      BY <1>4, <2>2, FS_AddElement
  <1>6. chan \in Seq(Batch) /\ chan # <<>> /\ chan' = Tail(chan)
    BY DEF IInv, TypeOK, Receive
  <1>7. Len(chan) \in Nat /\ Len(chan) > 0 /\ Len(chan') = Len(chan) - 1
    BY <1>6
  <1>8. permits' + Len(chan') + Cardinality(Granted') = Capacity /\ permits' = 0
    BY <1>1, <1>5, <1>7 DEF IInv, TypeOK, SlotsAccounted
  <1>9. \A i, j \in DOMAIN waiters : waiters[i] = waiters[j] => i = j
    BY <1>1 DEF IInv, SlotsAccounted
  <1>10. \A i, j \in DOMAIN waiters' : waiters'[i] = waiters'[j] => i = j
    BY <1>2, <1>9
  <1>11. ASSUME NEW q \in Pollers
         PROVE  pc'[q] = "waiting" <=> \E i \in DOMAIN waiters' : waiters'[i] = q
    <2>1. pc[q] = "waiting" <=> \E i \in DOMAIN waiters : waiters[i] = q
      BY <1>1 DEF IInv, SlotsAccounted
    <2>2. pc'[q] = "waiting" <=> pc[q] = "waiting" /\ q # p
      BY <1>2 DEF IInv, TypeOK
    <2>3. (\E i \in DOMAIN waiters' : waiters'[i] = q)
             <=> \E i \in DOMAIN waiters : i # 1 /\ waiters[i] = q
      <3>1. ASSUME NEW i \in DOMAIN waiters, i # 1, waiters[i] = q
            PROVE  i - 1 \in DOMAIN waiters' /\ waiters'[i - 1] = q
        BY <1>2, <3>1
      <3>2. ASSUME NEW i \in DOMAIN waiters', waiters'[i] = q
            PROVE  i + 1 \in DOMAIN waiters /\ i + 1 # 1 /\ waiters[i + 1] = q
        BY <1>2, <3>2
      <3> QED
        BY <3>1, <3>2
    <2>4. 1 \in DOMAIN waiters /\ waiters[1] = p
      BY <1>2
    <2> QED
      BY <1>9, <2>1, <2>2, <2>3, <2>4
  <1> QED
    BY <1>1, <1>8, <1>10, <1>11 DEF SlotsAccounted

LEMMA ReceiveInv == IInv /\ Receive => IInv'
  <1> USE PipelineAssumption
  <1> SUFFICES ASSUME IInv, Receive PROVE IInv'
    OBVIOUS
  <1>1. UNCHANGED <<config, main, launched, supervised, reported, r, open, senders>>
    BY DEF Receive, mainVars
  <1>2. chan \in Seq(Batch) /\ Head(chan) \in Batch /\ chan' \in Seq(Batch)
    BY DEF IInv, TypeOK, Receive
  <1>3. Head(chan).size \in 0 .. MaxResources
    BY <1>2 DEF Batch
  <1>4. Exporting' /\ Receiver' /\ hand' \in Batch \cup {NoBatch} /\ pos' \in 0 .. MaxResources
        /\ merger' \in {"receiving", "exporting"}
    BY <1>2, <1>3 DEF IInv, TypeOK, Exporting, Receiver, Receive, mergerVars
  <1>5. MainHoldsSender'
    BY <1>1 DEF IInv, MainHoldsSender, Exited
  <1>6. CASE waiters = <<>> /\ permits' = permits + 1 /\ UNCHANGED <<waiters, pc>>
    <2>1. permits' \in 0 .. Capacity /\ SlotsAccounted'
      BY <1>6, ReleaseToPoolAccounted
    <2>2. TypeOK'
      BY <1>1, <1>2, <1>4, <1>6, <2>1 DEF IInv, TypeOK
    <2>3. BatchAtHand' /\ NotLaunched'
      BY <1>1, <1>6 DEF IInv, BatchAtHand, NotLaunched
    <2> QED
      BY <1>4, <1>5, <2>1, <2>2, <2>3 DEF IInv
  <1>7. CASE /\ waiters # <<>> /\ UNCHANGED permits
             /\ pc' = [pc EXCEPT ![Head(waiters)] = "granted"] /\ waiters' = Tail(waiters)
    <2>1. SlotsAccounted'
      BY <1>7, ReleaseToHeadAccounted
    <2>2. Head(waiters) \in Pollers /\ waiters' \in Seq(Pollers)
      BY <1>7 DEF IInv, TypeOK
    <2>3. TypeOK'
      BY <1>1, <1>2, <1>4, <1>7, <2>2 DEF IInv, TypeOK
    <2>4. pc[Head(waiters)] = "waiting"
      <3>1. 1 \in DOMAIN waiters /\ waiters[1] = Head(waiters)
        BY <1>7 DEF IInv, TypeOK
      <3> QED
        BY <2>2, <3>1 DEF IInv, SlotsAccounted, Receiver, Receive
    <2>5. BatchAtHand' /\ NotLaunched'
      BY <1>1, <1>7, <2>2, <2>4 DEF IInv, TypeOK, BatchAtHand, NotLaunched
    <2> QED
      BY <1>4, <1>5, <2>1, <2>3, <2>5 DEF IInv
  <1> QED
    BY <1>6, <1>7 DEF Receive, Release

LEMMA MergerInv == IInv /\ MergerStep => IInv'
  <1> SUFFICES ASSUME IInv, MergerStep PROVE IInv'
    OBVIOUS
  <1>1. CASE Connect \/ Export
    BY <1>1, ExportInv
  <1>2. CASE ConnectFails
    BY <1>2, CloseInv DEF ConnectFails
  <1>3. CASE ConvertPanics
    BY <1>3, CloseInv DEF ConvertPanics
  <1>4. CASE Receive
    BY <1>4, ReceiveInv
  <1> QED
    BY <1>1, <1>2, <1>3, <1>4 DEF MergerStep

-----------------------------------------------------------------------------
(* The theorems.                                                           *)

LEMMA StutterInv == IInv /\ UNCHANGED vars => IInv'
  BY DEF IInv, TypeOK, BatchAtHand, NotLaunched, Exporting, Receiver, MainHoldsSender,
         Exited, SlotsAccounted, Granted, vars, mainVars, chanVars, mergerVars

LEMMA NextInv == IInv /\ [Next]_vars => IInv'
  <1> SUFFICES ASSUME IInv, [Next]_vars PROVE IInv'
    OBVIOUS
  <1>1. CASE MainStep
    BY <1>1, MainInv
  <1>2. ASSUME NEW p \in Pollers, PollerStep(p) \/ Report(p) PROVE IInv'
    BY <1>2, PollerInv, ReportInv
  <1>3. CASE MergerStep
    BY <1>3, MergerInv
  <1>4. CASE Rest \/ UNCHANGED vars
    BY <1>4, StutterInv DEF Rest
  <1> QED
    BY <1>1, <1>2, <1>3, <1>4 DEF Next

\* The inductive invariant holds in every reachable state of the pipeline.
THEOREM Invariance == Spec => []IInv
  <1>1. Init => IInv
    BY InitInv
  <1>2. IInv /\ [Next]_vars => IInv'
    BY NextInv
  <1> QED
    BY <1>1, <1>2, PTL DEF Spec

\* Every variable stays in its range; in particular the channel never holds more than
\* Capacity free slots and only batches are exported.
THEOREM TypeCorrect == Spec => []TypeOK
  <1>1. IInv => TypeOK
    BY DEF IInv
  <1> QED
    BY <1>1, Invariance, PTL

\* Whatever the number of pollers and the capacity, no slot of the channel leaks and no
\* parked poller is forgotten (the send at intersight_poller.rs 124 and 185).
THEOREM ChannelAccounted == Spec => []SlotsAccounted
  <1>1. IInv => SlotsAccounted
    BY DEF IInv
  <1> QED
    BY <1>1, Invariance, PTL

\* The merger's recv never returns None (metric_merger.rs 40): main holds a Sender for
\* as long as it waits for the merger.
THEOREM RecvNeverNone == Spec => []NeverSpins
  <1>1. IInv => NeverSpins
    BY DEF IInv, MainHoldsSender, NeverSpins
  <1> QED
    BY <1>1, Invariance, PTL
=============================================================================
