------------------------------ MODULE Pipeline ------------------------------
(***************************************************************************)
(* The process as a whole: `main` starts one task per configured poller    *)
(* and one metric merger; the pollers hand their batches to the merger     *)
(* over a bounded tokio mpsc channel; the merger exports them, resource by *)
(* resource, to the OTLP collector; supervisor tasks watch the pollers and *)
(* `main` waits for the merger.                                            *)
(*                                                                         *)
(* One step is what a task does between two suspension points, or one      *)
(* statement of `main` that another thread can observe.  What a poll       *)
(* returns and how a batch is enriched are nondeterministic here.          *)
(***************************************************************************)
EXTENDS Integers, Sequences, FiniteSets

CONSTANTS
    NPollers,      \* how many [[pollers]] and [[tspollers]] are configured
    Capacity,      \* capacity of the metric channel (32 in the code)
    MaxResources,  \* most resources one poll yields
    Ids,           \* labels that tell the batches of one poller apart
    Configs,       \* the poller configurations considered
    EarlyClock,    \* may the host clock read less than 35 min after the epoch?
    NoBatch        \* stands for "no batch in hand"

Pollers == 1 .. NPollers

Config == [kind       : {"generic", "timeseries"},
           aggregator : {"valid", "invalid"},
           interval   : {"positive", "zero"},
           enrichers  : BOOLEAN]

Batch == [poller : Pollers, id : Ids, size : 0 .. MaxResources]

ASSUME PipelineAssumption ==
    /\ NPollers \in Nat
    /\ Capacity \in Nat \ {0}
    /\ MaxResources \in Nat \ {0}
    /\ Configs \subseteq Config
    /\ EarlyClock \in BOOLEAN
    /\ NoBatch \notin Batch

VARIABLES
    config,      \* poller -> its configuration, in the order main starts them
    main,        \* where `main` is
    launched,    \* pollers started so far
    supervised,  \* supervisor tasks spawned so far
    reported,    \* pollers whose exit a supervisor has logged
    pc,          \* poller -> where its task is
    r,           \* poller -> the batch it is working on
    chan,        \* batches queued in the channel
    permits,     \* free slots of the channel
    waiters,     \* pollers parked in send, longest waiting first
    open,        \* does the receiver half still exist?
    senders,     \* holders of a Sender; 0 stands for main
    merger,      \* where the merger task is
    hand,        \* the batch the merger is exporting
    pos          \* resources of `hand` already dealt with

mainVars   == <<main, launched, supervised, reported>>
chanVars   == <<chan, permits, waiters, open, senders>>
mergerVars == <<merger, hand, pos>>
vars == <<config, mainVars, pc, r, chanVars, mergerVars>>

Exited == main \in {"exitOk", "exitErr"}

Init ==
    /\ config \in [Pollers -> Configs]
    /\ \A p, q \in Pollers :
          p < q /\ config[p].kind = "timeseries" => config[q].kind = "timeseries"
    /\ main = "launching" /\ launched = 0 /\ supervised = 0 /\ reported = {}
    /\ pc = [p \in Pollers |-> "absent"]
    /\ r = [p \in Pollers |-> NoBatch]
    /\ chan = <<>> /\ permits = Capacity /\ waiters = <<>>
    /\ open = TRUE /\ senders = {0}
    /\ merger = "connecting" /\ hand = NoBatch /\ pos = 0

-----------------------------------------------------------------------------
(* main: launch the pollers, spawn their supervisors, await the merger.    *)

\* A generic poller with an unknown aggregator makes start_intersight_poller
\* fail, and `?` makes main return the error.
LaunchFails ==
    /\ main = "launching" /\ launched < NPollers
    /\ LET c == config[launched + 1] IN
          c.kind = "generic" /\ c.aggregator = "invalid"
    /\ main' = "exitErr"
    /\ UNCHANGED <<config, launched, supervised, reported, pc, r, chanVars, mergerVars>>

\* The task is spawned with its own clone of the Sender.
Launch ==
    /\ main = "launching" /\ launched < NPollers
    /\ LET c == config[launched + 1] IN
          ~(c.kind = "generic" /\ c.aggregator = "invalid")
    /\ launched' = launched + 1
    /\ pc' = [pc EXCEPT ![launched + 1] = "spawned"]
    /\ senders' = senders \cup {launched + 1}
    /\ UNCHANGED <<config, main, supervised, reported, r, chan, permits, waiters,
                   open, mergerVars>>

Supervise ==
    /\ main = "launching" /\ launched = NPollers /\ supervised < NPollers
    /\ supervised' = supervised + 1
    /\ UNCHANGED <<config, main, launched, reported, pc, r, chanVars, mergerVars>>

\* Mutant of AwaitMerger: main drops its own Sender before it waits.
AwaitMergerDropsSender ==
    /\ main = "launching" /\ supervised = NPollers
    /\ main' = "awaiting"
    /\ senders' = senders \ {0}
    /\ UNCHANGED <<config, launched, supervised, reported, pc, r, chan, permits,
                   waiters, open, mergerVars>>

AwaitMerger ==
    /\ main = "launching" /\ supervised = NPollers
    /\ main' = "awaiting"
    /\ UNCHANGED <<config, launched, supervised, reported, pc, r, chanVars, mergerVars>>

\* Mutant of MainReturns: main waits for the pollers instead.
MainAwaitsPollers ==
    /\ main = "awaiting" /\ \A p \in Pollers : pc[p] = "panicked"
    /\ main' = "exitErr"
    /\ senders' = senders \ {0}
    /\ UNCHANGED <<config, launched, supervised, reported, pc, r, chan, permits,
                   waiters, open, mergerVars>>

\* `merge_handle.await?`: a merger that returned ends the process with success,
\* one that panicked with an error; either way the runtime drops every task.
MainReturns ==
    /\ main = "awaiting" /\ merger \in {"finished", "panicked"}
    /\ main' = IF merger = "finished" THEN "exitOk" ELSE "exitErr"
    /\ senders' = senders \ {0}
    /\ UNCHANGED <<config, launched, supervised, reported, pc, r, chan, permits,
                   waiters, open, mergerVars>>

MainStep == LaunchFails \/ Launch \/ Supervise \/ AwaitMerger \/ MainReturns

\* Mutant of Report: the handles of the timeseries pollers are not kept.
ReportGenericOnly(p) ==
    /\ p <= supervised /\ pc[p] = "panicked" /\ p \notin reported
    /\ config[p].kind = "generic"
    /\ reported' = reported \cup {p}
    /\ UNCHANGED <<config, main, launched, supervised, pc, r, chanVars, mergerVars>>

\* A supervisor's `handle.await` returns once its poller is gone, however long
\* ago that was: the JoinHandle keeps the result.
Report(p) ==
    /\ p <= supervised /\ pc[p] = "panicked" /\ p \notin reported
    /\ reported' = reported \cup {p}
    /\ UNCHANGED <<config, main, launched, supervised, pc, r, chanVars, mergerVars>>

-----------------------------------------------------------------------------
(* A poller: tick, poll, enrich, send.                                     *)

Goto(p, l) == pc' = [pc EXCEPT ![p] = l]

\* time::interval panics on a zero period; the task's Sender is dropped.
BeginZero(p) ==
    /\ pc[p] = "spawned" /\ config[p].interval = "zero"
    /\ Goto(p, "panicked")
    /\ senders' = senders \ {p}
    /\ UNCHANGED <<config, mainVars, r, chan, permits, waiters, open, mergerVars>>

Begin(p) ==
    /\ pc[p] = "spawned" /\ config[p].interval = "positive"
    /\ Goto(p, "tick")
    /\ UNCHANGED <<config, mainVars, r, chanVars, mergerVars>>

Tick(p) ==
    /\ pc[p] = "tick"
    /\ Goto(p, "polling")
    /\ UNCHANGED <<config, mainVars, r, chanVars, mergerVars>>

\* What poll returns: an aggregator yields at most one resource, a timeseries
\* query one per result.
PollResults(p) ==
    {b \in Batch : b.poller = p /\ (config[p].kind = "generic" => b.size <= 1)}

PollOk(p) ==
    /\ pc[p] = "polling"
    /\ \E b \in PollResults(p) : r' = [r EXCEPT ![p] = b]
    /\ Goto(p, IF config[p].enrichers THEN "enriching" ELSE "sending")
    /\ UNCHANGED <<config, mainVars, chanVars, mergerVars>>

PollErr(p) ==
    /\ pc[p] = "polling"
    /\ Goto(p, "tick")
    /\ UNCHANGED <<config, mainVars, r, chanVars, mergerVars>>

\* The enrichers are done, or ENRICH_TIMEOUT_SECS have passed: the batch goes on.
EnrichEnds(p) ==
    /\ pc[p] = "enriching"
    /\ Goto(p, "sending")
    /\ UNCHANGED <<config, mainVars, r, chanVars, mergerVars>>

\* The batch enters the queue and the poller starts over.
Push(p) ==
    /\ chan' = Append(chan, r[p])
    /\ r' = [r EXCEPT ![p] = NoBatch]
    /\ Goto(p, "tick")

\* Mutant of SendNow: sends without looking for a free slot.
SendAnyway(p) ==
    /\ pc[p] = "sending" /\ open
    /\ Push(p)
    /\ permits' = permits - 1
    /\ UNCHANGED <<config, mainVars, waiters, open, senders, mergerVars>>

SendNow(p) ==
    /\ pc[p] = "sending" /\ open /\ permits > 0
    /\ Push(p)
    /\ permits' = permits - 1
    /\ UNCHANGED <<config, mainVars, waiters, open, senders, mergerVars>>

\* Mutant of SendWaits: try_send, which drops the batch when the channel is full.
TrySendDrops(p) ==
    /\ pc[p] = "sending" /\ open /\ permits = 0
    /\ r' = [r EXCEPT ![p] = NoBatch]
    /\ Goto(p, "tick")
    /\ UNCHANGED <<config, mainVars, chanVars, mergerVars>>

\* No slot is free: the task parks at the end of the semaphore's wait list.
SendWaits(p) ==
    /\ pc[p] = "sending" /\ open /\ permits = 0
    /\ waiters' = Append(waiters, p)
    /\ Goto(p, "waiting")
    /\ UNCHANGED <<config, mainVars, r, chan, permits, open, senders, mergerVars>>

\* Mutant of SendGranted: does not notice that the receiver went away.
SendGrantedBlindly(p) ==
    /\ pc[p] = "granted"
    /\ Push(p)
    /\ UNCHANGED <<config, mainVars, permits, waiters, open, senders, mergerVars>>

\* A parked poller that was handed a slot wakes up and fills it.
SendGranted(p) ==
    /\ pc[p] = "granted" /\ open
    /\ Push(p)
    /\ UNCHANGED <<config, mainVars, permits, waiters, open, senders, mergerVars>>

\* The receiver is gone: send fails, the error is logged, the batch dropped and
\* the loop goes on.
SendFails(p) ==
    /\ pc[p] \in {"sending", "waiting", "granted"} /\ ~open
    /\ r' = [r EXCEPT ![p] = NoBatch]
    /\ Goto(p, "tick")
    /\ UNCHANGED <<config, mainVars, chanVars, mergerVars>>

PollerStep(p) ==
    \/ BeginZero(p) \/ Begin(p) \/ Tick(p) \/ PollOk(p) \/ PollErr(p) \/ EnrichEnds(p)
    \/ SendNow(p) \/ SendWaits(p) \/ SendGranted(p) \/ SendFails(p)

-----------------------------------------------------------------------------
(* The metric merger.                                                      *)

\* The receiver is dropped: the queue goes with it and every parked sender wakes.
Close == open' = FALSE /\ chan' = <<>> /\ waiters' = <<>>

Connect ==
    /\ merger = "connecting"
    /\ merger' = "receiving"
    /\ UNCHANGED <<config, mainVars, pc, r, chanVars, hand, pos>>

ConnectFails ==
    /\ merger = "connecting"
    /\ merger' = "finished"
    /\ Close
    /\ UNCHANGED <<config, mainVars, pc, r, permits, senders, hand, pos>>

\* Mutants of Release: the slot goes to the pool although somebody is waiting; the
\* slot goes to the poller that parked last.
ReleaseToPool == permits' = permits + 1 /\ UNCHANGED <<waiters, pc>>

ReleaseToNewest ==
    \/ /\ waiters = <<>>
       /\ permits' = permits + 1
       /\ UNCHANGED <<waiters, pc>>
    \/ /\ waiters # <<>>
       /\ pc' = [pc EXCEPT ![waiters[Len(waiters)]] = "granted"]
       /\ waiters' = SubSeq(waiters, 1, Len(waiters) - 1)
       /\ UNCHANGED permits

\* Taking a batch out frees a slot: it goes to the poller that has waited
\* longest, and to the pool only if none is waiting.
Release ==
    \/ /\ waiters = <<>>
       /\ permits' = permits + 1
       /\ UNCHANGED <<waiters, pc>>
    \/ /\ waiters # <<>>
       /\ pc' = [pc EXCEPT ![Head(waiters)] = "granted"]
       /\ waiters' = Tail(waiters)
       /\ UNCHANGED permits

\* A batch without resources is done as soon as it is received.
Receive ==
    /\ merger = "receiving" /\ chan # <<>>
    /\ chan' = Tail(chan)
    /\ Release
    /\ \/ /\ Head(chan).size = 0
          /\ UNCHANGED mergerVars
       \/ /\ Head(chan).size > 0
          /\ merger' = "exporting" /\ hand' = Head(chan) /\ pos' = 0
    /\ UNCHANGED <<config, mainVars, r, open, senders>>

\* One resource is sent and the answer awaited; a failure is only logged.  After
\* the last one the loop is back at recv.
Export ==
    /\ merger = "exporting"
    /\ \/ /\ pos + 1 < hand.size
          /\ pos' = pos + 1
          /\ UNCHANGED <<merger, hand>>
       \/ /\ pos + 1 = hand.size
          /\ merger' = "receiving" /\ hand' = NoBatch /\ pos' = 0
    /\ UNCHANGED <<config, mainVars, pc, r, chanVars>>

\* Converting a metric dated before the epoch panics ("Time went backwards").  Only
\* timeseries metrics are dated in the past, by up to 35 minutes.  That a resource without
\* metrics has nothing to convert is not modelled: any may panic here.
ConvertPanics ==
    /\ merger = "exporting" /\ EarlyClock /\ config[hand.poller].kind = "timeseries"
    /\ merger' = "panicked" /\ hand' = NoBatch /\ pos' = 0
    /\ Close
    /\ UNCHANGED <<config, mainVars, pc, r, permits, senders>>

MergerStep == Connect \/ ConnectFails \/ Receive \/ Export \/ ConvertPanics

-----------------------------------------------------------------------------

\* Where the system may come to rest: the process has exited, or no poller is
\* left and the merger waits for a batch that nobody will send.
Rest ==
    /\ \/ Exited
       \/ /\ main = "awaiting" /\ merger = "receiving" /\ chan = <<>>
          /\ \A p \in Pollers : pc[p] = "panicked"
    /\ UNCHANGED vars

Next ==
    \/ ~Exited /\ MainStep
    \/ ~Exited /\ \E p \in Pollers : PollerStep(p) \/ Report(p)
    \/ ~Exited /\ MergerStep
    \/ Rest

Spec == Init /\ [][Next]_vars

\* Every task is scheduled, the interval ticks, an API call ends within the
\* client's 30 s timeout, enrichment within 60 s and a connection attempt with
\* the TCP timeout.
Fairness ==
    /\ WF_vars(~Exited /\ MainStep)
    /\ \A p \in Pollers : WF_vars(~Exited /\ PollerStep(p))
    /\ \A p \in Pollers : WF_vars(~Exited /\ Report(p))
    /\ WF_vars(~Exited /\ (Connect \/ ConnectFails))
    /\ WF_vars(~Exited /\ Receive)

\* An export has no timeout in the code: that it ends is an assumption on the
\* collector, kept apart from the rest.
CollectorAnswers == WF_vars(~Exited /\ (Export \/ ConvertPanics))

FairSpec == Spec /\ Fairness /\ CollectorAnswers

-----------------------------------------------------------------------------
(* Properties.                                                             *)

TypeOK ==
    /\ config \in [Pollers -> Configs]
    /\ main \in {"launching", "awaiting", "exitOk", "exitErr"}
    /\ launched \in 0 .. NPollers
    /\ supervised \in 0 .. NPollers
    /\ reported \subseteq Pollers
    /\ pc \in [Pollers -> {"absent", "spawned", "tick", "polling", "enriching",
                           "sending", "waiting", "granted", "panicked"}]
    /\ r \in [Pollers -> Batch \cup {NoBatch}]
    /\ chan \in Seq(Batch)
    /\ permits \in 0 .. Capacity
    /\ waiters \in Seq(Pollers)
    /\ open \in BOOLEAN
    /\ senders \subseteq {0} \cup Pollers
    /\ merger \in {"connecting", "receiving", "exporting", "finished", "panicked"}
    /\ hand \in Batch \cup {NoBatch}
    /\ pos \in 0 .. MaxResources

Granted == {p \in Pollers : pc[p] = "granted"}

\* While the receiver lives, every slot of the channel is free, filled, or
\* promised to a woken poller; slots are free only when nobody is parked, and the
\* parked pollers are exactly those in the wait list, each once.  Otherwise a slot
\* leaks or a wake-up is lost and send().await never returns (intersight_poller.rs
\* 124 and 185).
SlotsAccounted ==
    open =>
      /\ permits + Len(chan) + Cardinality(Granted) = Capacity
      /\ waiters # <<>> => permits = 0
      /\ \A p \in Pollers : pc[p] = "waiting" <=> \E i \in DOMAIN waiters : waiters[i] = p
      /\ \A i, j \in DOMAIN waiters : waiters[i] = waiters[j] => i = j

\* recv never returns None: as long as the merger loops, someone still holds a
\* Sender, even when every poller has panicked.  Without that, the merger's loop
\* (metric_merger.rs 39-60) would spin on the closed channel.
NeverSpins == ~Exited /\ merger = "receiving" /\ chan = <<>> => senders # {}

\* main.rs 100 says that the merger never finishes.
MergerNeverFinishes == merger # "finished"

\* A batch never gets stuck: a poller that reached tx.send returns to its loop,
\* whatever the other pollers do, unless the process ends.
SendCompletes ==
    \A p \in Pollers :
        pc[p] \in {"sending", "waiting", "granted"} ~> (pc[p] = "tick" \/ Exited)

\* The gap a dead poller leaves does not go unnoticed (main.rs 89-98), also when
\* it died before its supervisor was spawned.
DeathReported ==
    \A p \in Pollers : pc[p] = "panicked" ~> (p \in reported \/ Exited)

\* Once the receiver is gone nothing can be exported any more; the process does
\* not linger in that state.
ClosedEndsProcess == ~open ~> Exited
=============================================================================
