# intersight-otel in TLA+

`intersight_otel` polls the Cisco Intersight API and forwards what it finds as
OpenTelemetry metrics. This directory holds a TLA+ model of it, the TLC runs
that check the model, and TLAPS proofs about it. Line numbers refer to the
files under `src/`.

## The system

One tokio process. `main` reads the configuration, builds an API client, opens
a bounded channel and spawns the tasks; after that nothing is shared but the
channel and the enrichers' caches, and nothing is persisted.

| Component | State | Operations | Source |
|---|---|---|---|
| `main`, supervisors | join handles, one `Sender` of its own | launch pollers, supervise them, await the merger | `intersight_otel/src/main.rs` |
| metric channel | queue of batches, free slots, wait list (tokio mpsc, capacity 32) | send, recv, close | `main.rs` 42 |
| poller task (generic or timeseries) | interval, batch at hand | tick, poll, enrich, send | `intersight_poller.rs` |
| aggregators, timeseries conversion | none | response to metrics | `intersight_poller/*.rs` |
| enricher | cache behind a mutex, shared by pollers | lookup, API call, insert | `attribute_enricher.rs` |
| metric merger | OTLP client, batch being exported | connect, receive, convert, export | `metric_merger.rs` |
| configuration | none after start-up | load, defaults | `config.rs`, `intersight_api/src/config.rs` |
| API client | key id, signer, host, TLS setting, fixed at start-up | digest, sign and send a request, read the answer, 10 s and 30 s timers | `intersight_api/src/lib.rs` |
| request signer | the key | load from PEM, sign | `intersight_api/src/simplesigner.rs` |

How they interact: every poller holds a clone of the `Sender`; `tx.send` waits
when the channel is full, so a slow collector slows the pollers. The merger is
the only receiver; when it returns or panics the receiver is dropped, parked
senders wake with an error, and `main`, which awaits the merger, ends the
process. A supervisor task per poller logs that its poller died. Pollers call
their enrichers one after the other under a 60 s timeout, and enrichers used
by several pollers share one cache.

What makes it correct, per component:

- *Channel and pollers*: no slot leaks, no wake-up is lost, nobody passes a parked
  poller twice, no poller starves; as long as the merger lives, a batch polled is still
  on its way or the merger has tried to export it (a failed export is logged and
  dropped, `metric_merger.rs` 53-58).
- *Merger*: per poller, metrics leave in order and at most once; `recv` never
  returns `None` (the loop at `metric_merger.rs` 39 would spin).
- *Life cycle*: a dead poller is reported, a dead merger ends the process.
- *Enrichers*: what is served is recent although lookups race; the API is not
  asked twice for one key in one batch, failures included; a batch that times
  out leaves the next one better off.
- *Conversion*: what is exported is what the response said, on the resource it
  was said of; enrichers go by a key that does not change under them.
- *Windows*: aligned, complete, contiguous; missed ticks are made up for, and so is one
  failed poll if the interval is short enough; the schedule does not follow the wall
  clock when it is set.
- *API client*: a call ends in time whatever the server does; the caller is told what
  the server said and nothing else.
- *Start-up*: exactly the faulty configurations end it; pollers get the enrichers
  they list, and share them.

The hazards are listed with their lines in `PROJECT.json`.

## Modules

| Module | What it is |
|---|---|
| `Pipeline` | `main`, supervisors, pollers, channel, merger |
| `Ledger` | `Pipeline` with history variables that follow every batch |
| `Delivery` | abstract: bounded, in-order, exactly-once settling of what was handed over |
| `Enrichment` | tasks, their batches and the shared caches, with a clock |
| `Answering` | abstract: what callers of the API rely on; `Enrichment` is built on it |
| `ApiCall` | calls of the API against a free network and server; implements `Answering` |
| `Startup` | settings, client, enrichers, launching: what `main` does up to its wait |
| `Schedule` | one timeseries poller's ticks and windows, in real seconds |
| `Conversion` | one response on its way: aggregation, static attributes, enrichment, export |
| `Selection` | what a loop with an `if`, or a `filter_map`, keeps of a sequence; for `Startup` and `Conversion` |
| `PipelineProofs`, `LedgerProofs`, `EnrichmentProofs`, `ApiCallProofs`, `StartupProofs`, `ScheduleProofs`, `SelectionProofs`, `ConversionProofs` | theorems |
| `MC*` | constants for TLC |

The definitions named as *mutants* in the modules are not part of the models:
each is a plausible wrong version of the definition after it, and one property
fails when it takes its place.

### Pipeline

A step is what a task does between two suspension points. `pc[p]` is the place
in the loop of `intersight_poller.rs` 84-131: `spawned`, `tick` (89), `polling`
(91), `enriching` (97), `sending` (124), `waiting` (parked in `send`), `granted`
(woken with a slot) or `panicked`. tokio's channel is modelled from how it is
used: `permits` are the free slots of its semaphore, `waiters` its FIFO list;
`Release` hands a freed slot to the head of the list before the pool, `Close`
drops the queue and wakes everybody. `LaunchFails` is the invalid aggregator of
a generic poller (`intersight_poller.rs` 65), which makes `main` return;
`BeginZero` is the panic of `time::interval` on a zero period; `ConvertPanics`
is the `expect` at `metric_merger.rs` 89 and 94, which only a timeseries metric dated
before the epoch can reach (`EarlyClock`). What a poll returns is any
batch of up to `MaxResources` resources, one at most for an aggregator; what
enrichment does to it is `Enrichment`'s business. When `main` exits, the
runtime drops all tasks: every action but `Rest` needs `~Exited`.

`Rest` is where the system may stop: the process exited, or all pollers have
panicked and the merger waits for ever. Any other deadlock is an error.

Fairness: tokio schedules every task that can run; the interval ticks; an API
call ends within the client's 30 s timeout (`lib.rs` 60), enrichment within
60 s, a connection attempt with the TCP timeout. So every task has weak
fairness. An export has no timeout, so that it ends is an assumption on the
collector, `CollectorAnswers`, stated apart. Fairness on `Connect \/
ConnectFails` together does not say which of them happens.

### Ledger and Delivery

`Ledger` numbers the batches of a poller with their ids and records which were
accepted, which were settled and which resources reached the collector. A failed
export is nondeterministic: it may have arrived all the same. `overtaken` counts, for
a poller parked in `send`, how often each other one has got a batch in since (`Hand`);
it starts anew when the poller parks (`Park`). Under
`accepted`, `settled`, and `alive <- open /\ ~Exited` it implements `Delivery`,
whose liveness says that a batch handed over is settled unless the exporter
stops. The bound of the backlog is `Capacity + 1`: the queue and the merger's
hand.

### Enrichment

`cursor[t]` is the place in the two loops: which enricher (`intersight_poller.rs`
100) and which resource (`attribute_enricher.rs` 57). `lookup` is `Hit`, or `Ask`,
`Answered` and `Store`, between which other tasks run; the clock moves only while
tasks are idle or await an answer, and never beyond a deadline, so timers are
prompt. Time has no end: a cache entry keeps its `age` since the API drew the answer
up (any time between question and answer), and the time `left` for which it may be
served, which starts when the answer is in (`attribute_enricher.rs` 128); an entry
that has run out stops ageing, since nobody is served it. `spent` and `waited` are
the two timers of a task. Calls begin, end and wait by the actions of `Answering`.
A resource is the key that each enricher finds on it, or `NoKey` (attributes that
one enricher adds and a later one goes by are in `Conversion`). The lock is not
modelled: it is never held across an await.

### ApiCall and Answering

`Answering` says of a call only that it ends, for its caller, within a limit.
`ApiCall` is the client that keeps that promise: `phase[c]` is `building` (lib.rs
89-175), `connecting`, `head` (waiting for the head of the answer, redirects
included) or `body`. Network and server are free: `Connect`, `Head` and `Body` may
never happen, `Break` may at any point, with any status and a body that is JSON or
not. `TimesOut` is one of reqwest's two timers: `connect_timeout`, and `timeout`,
which runs from `execute` to the end of the body. `Failure` is what the caller is
told then: an error status that has arrived is reported although its body is not
read to the end (lib.rs 186 ignores that failure). `Drop` is a caller whose future is
dropped, as the enrichment timeout does. `Signed` is the end of `build_request`: the text
that is sent and the text that is digested are two uses of `body_str` (lib.rs 112-121), and
a request without a body has the digest of the empty text. A digest is a function of the
text it is of, a signature of what it covers.

Fairness: time passes (`SF` on `Tick`, because a tick is disabled whenever somebody
builds a request), and the client builds its requests and heeds its timers (`WF`).
Nothing is asked of network and server. That this suffices for `Answering`'s fairness
is what `ImplementsAnswering` checks, and what the weak fairness of the API calls in
`Pipeline` rests on.

### Startup

`main` from line 17 to its wait, step by step, over sets of files, environments, key
files, `[[enrichers]]` lists and poller lists. A setting is `Absent` or a value, the
environment first (`config.rs` 41-44). `Signer` is `from_pem` with the ways it can
fail. `MakeEnricher` builds the map of `attribute_enricher.rs` 191-204, where a later
enricher replaces an earlier one of its name; an enricher's identity is its place in
the list. `Resolve` is `resolve_enrichers`. `MakeEnricherPanics` is the invalid regex:
it panics `main`, which ends the process as an error does. The tasks that run
meanwhile are `Pipeline`'s.

### Schedule

Seconds since the epoch, with the code's own constants. `Tick` is
`interval.tick()` with tokio's default `Burst`: the next tick is due a period
after the one that was due. `Aligned`, `Stamp`, `NoSeconds` and `Window` are
`get_interval_times` and `get_interval`; `Window` goes into the query, `Stamp` on
the metrics. The interval goes by the monotonic clock `now`, the windows by the wall
clock, `now + offset`, which `ClockSet` sets forward or back at any moment. `Poll` is the
part of `Tick` that computes the window and asks; `before` remembers the poll before the
last for `FailureMadeUpFor`.

### Conversion

`Aggregate` and `Convert` are the aggregators of `generic_poller.rs` and the loop of
`timeseries_poller.rs` 41-118; `AddOtelAttributes` is `intersight_poller.rs` 196-207. A
resource's attributes are a sequence, as in the code: names may repeat and an enricher
goes by the first (`Source`). Enrichment is taken resource by resource; a lookup finds
what the API has for the key (`Known`) or fails, and may be cut off. `Export` is the
merger's conversion of a resource. A `HashMap` iterates in any order. One of the
configuration is made once and keeps its order: it is a sequence, and the configurations
hold different ones. That of a lookup is made anew each time (`attribute_enricher.rs`
155): `Known` is a set, and `LookedUp` appends it in any order. Values are small
integers; `Rendered` is how `Value::to_string` writes a number or null, so a dimension
that is null becomes the text "null". A request body that is no JSON makes every poll
fail before a request.

## Runs

| Run | Checks | Bounds |
|---|---|---|
| `pipeline` | `TypeOK`, `SlotsAccounted`, `NeverSpins`, `SendCompletes`, `DeathReported`, `ClosedEndsProcess` | 2 pollers of any of 4 configurations, 1 slot, 2 resources |
| `ledger` | `NothingLost`, `ReceivedInOrder`, `OvertakenOnce`, `ImplementsDelivery` | 2 pollers of any of 4 configurations, 1 slot, 2 resources, 2 batches each |
| `enrichment_shared` | `TypeOK`, `ServedFresh`, `SetBackBounded`, `OneCallPerBatch`, `TimeoutMadeProgress` | 2 tasks, one using e1, e2, e1, the other e1; 1 key, batches of at most 2, no jitter, unbounded time |
| `api_call` | `TypeOK`, `ToldAsAnswered`, `ImplementsAnswering` | 2 callers, connect timeout 2, timeout 4, statuses 200, 304 and 503, 2 bodies |
| `startup_faults` | `TypeOK`, `FaultsFound`, `OneCachePerName`, `AppliedAsListed` | 4 files and none, 5 environments, 5 key files, 4 lists of enrichers, 3 lists of each kind of pollers |
| `schedule_windows` | `TypeOK`, `WindowsSettled`, `CaughtUp`, `NoWindowSkipped`, `FailureMadeUpFor` | 5 polls, interval 240 s, polls of 1 to 590 s, a wall clock set to any of 4 offsets |
| `conversion_export` | `TypeOK`, `ExportedFaithfully`, `Described`, `EnrichedByOwnKey`, `SourceStable` | 8 configurations, responses of at most 2 results, 4 columns, 2 enrichers applied up to 4 times |
| `merger_never_finishes` | violated: `MergerNeverFinishes` | 1 poller |
| `timed_out_unenriched` | violated: `TimedOutUnenriched` | 2 tasks, 1 enricher, 2 keys, batches of at most 2, jitter 0 or 1 |
| `stamps_aligned` | violated: `StampsAligned` | 3 polls |
| `method_as_configured` | violated: `MethodAsConfigured` | 3 spellings of the method |
| `certs_verified_by_default` | violated: `CertsVerifiedByDefault` | as `startup_faults` |

Why the bounds are enough. In `Pipeline`, two pollers and one slot already fill
the channel, park a poller, and let the other overtake it if wake-ups are not
FIFO (the mutant `ReleaseToNewest` starves a poller in this instance); a third
poller adds another waiter, which the proofs of `SlotsAccounted` and `OvertakenOnce`
cover for any number. Two batches and two resources per poller show a reordering or a
repeat.
In `Enrichment` the units are scaled: TTL 3, API timeout 1,
enrichment timeout 2, which keeps the order API timeout < enrichment timeout < TTL
and the ratio 1 : 2 of 30 s to 60 s. Time is unbounded: entries are made, raced for,
served, run out and are asked for again without end. Batches of two let one task time
out between its lookups, or overwrite what the other's batch relies on. Jitter only
lengthens an entry's life; it is left out where the properties are checked for
the size of the instance, and is part of their bounds. In
`timed_out_unenriched` tasks and keys are symmetric (`Swap`), and the property is a
safety property, so the symmetry is sound. In `ApiCall` callers share nothing but the
clock; two show that one's timer does not hold up the other, and a connect timeout
shorter than the timeout lets either end a call. 304 is neither a success nor an
error in the sense of HTTP, but an error for the client. In `Startup` each fault occurs alone and
with others, the enrichers come with a duplicate name, an unknown name and an unused
faulty one, and each setting is absent, in the file, or overridden. In `Schedule` the
offsets put polls on, before and after minute and ten-minute boundaries, and change
them by seconds, by minutes and by ten hours; the period and the durations do the
rest. The period, 240 s, is less than half a window, which `FailureMadeUpFor` asks for, and
five polls leave three in a row after a burst. In
`Conversion` two results show a value that moves to a neighbour; one enricher goes by
what the other adds, and adds an attribute of its own source name and of a dimension's.

The five violations are places where a comment, a log message or the repository's
README says something else than the code does:

- `main.rs` 100, "(i.e. never)": the merger returns when the first connection
  fails (`metric_merger.rs` 31-33), and the process then ends with status 0.
- `intersight_poller.rs` 108 and 169, "sending batch un-enriched": the batch keeps
  what the enrichers did before the timeout.
- `timeseries_poller.rs` 151, times "aligned to 10-minute boundaries": the query
  string is, the times on the metrics keep the seconds of the poll.
- `README.md` 38-39, `api_method` and POST: only the spelling `post` makes a POST
  (`generic_poller.rs` 26), `POST` sends a GET.
- `README.md` 25, `intersight_accept_invalid_certs` false by default: `config.rs` 60 of
  `intersight_api` takes true.

## Proofs

Every safety property that a passing run checks, invariant or action property, is
proved for all values of the constants, and so are the safety parts of the two
refinements. All theorems rest on the named assumptions of the modules and on nothing
else. Those say that constants have their types, that a value that stands for "none"
(`Absent`, `None`, `NoAnswer`, `NoKey`, `NoBatch`, `Malformed`) is not one of the values
it is told from, that the static attributes of a poller, which come from a `HashMap`,
have distinct names, as have the finitely many attributes that a lookup finds, and that
the API timeout is shorter than the enrichment timeout and that shorter than the TTL
(30 s, 60 s and 3600 s in the code).

Each module of proofs has one inductive invariant, one lemma per action that it is
preserved, and the theorems that follow. TLC checked the invariants on the instances of
the runs before they were proved.

`PipelineProofs`: `TypeOK`, `SlotsAccounted` and `NeverSpins`, from `IInv`.
`TypeOK` is not inductive: a freed slot could push `permits` above `Capacity` if
the slots were not accounted for, a poller could queue `NoBatch` if it did not
have a batch at hand from `enriching` on (`BatchAtHand`), and `pos` could leave
its range if the merger did not hold a batch with resources left (`Exporting`).
`SlotsAccounted` in turn needs that the receiver exists while the merger runs
(`Receiver`) and that a poller not yet launched is parked nowhere
(`NotLaunched`). The heart is `ReleaseToHeadAccounted`: the head of the wait list
is parked, occurs in the list once, and leaves it as it is granted the slot.
`NeverSpins` follows from `MainHoldsSender`: `main` keeps its `Sender` until it
exits.

`LedgerProofs`: `NothingLost` and `ReceivedInOrder`, from `LInv`, and `OvertakenOnce`. A
step of the ledger is a step of the pipeline, so `IInv` carries over. `NothingLost` says
which batches are in flight but not in which order they stand in the queue, which
`QueuedInOrder` adds; with it the batch in hand is its poller's oldest (`OldestFirst`),
and settling it leaves the others in flight. `ReceivedSoFar` says how far the batch in
hand has got, so that what is exported next is later than all the collector has seen.
`DeliversAsPromised` is the refinement of `Delivery`, step by step; the bound on its
backlog comes from counting places: every unsettled batch has one of its own in the
queue or the hand. `OvertakenOnce` is inductive together with `FirstTime`: whoever may
yet pass a parked poller, because it was handed a slot or stands ahead of it in the
line, has not done so before. Passing takes away both, and whoever then parks is behind.

`EnrichmentProofs`: `ServedFresh`, `OneCallPerBatch`, `SetBackBounded` and
`TimeoutMadeProgress`, from `EInv`, which is an account of time. The age of an entry and
what it has left add up to at most the TTL, its jitter and an API call
(`CacheAccounted`); what a batch was told has a TTL left, less the time spent on the
batch since (`DoneLive`), and the TTL is longer than a batch may take; the time spent on
a batch is at most an API timeout for every call done and the time of the one that is on
(`SpentOnCalls`), so when the time is up many calls have been done.

`ApiCallProofs`: `ToldAsAnswered`, from `AInv`, caller by caller: what is being built is a
plain request and what has been sent a signed one (`RequestAsPhase`), and while the call is
on there is no answer before its head is in and none is complete (`NoAnswerYet`), so that a
result never comes of more than the server said. `AnswersAsPromised` is the refinement of
`Answering`; it needs `AgeBounded`, since the clock of `Answering` does not go past a
limit.

`StartupProofs`: `FaultsFound`, `OneCachePerName` and `AppliedAsListed`, from `SInv`.
`Passed` collects what `main` has found good at each stage. `Tasks` says that a task is
what would be made of its poller now: once a task runs, nothing can change the map any
more. `MapOfMade` ties the map to the list of enrichers.

`ScheduleProofs`: `WindowsSettled`, `NoWindowSkipped`, `CaughtUp` and `FailureMadeUpFor`
for every interval, duration, lateness and set of offsets of the wall clock. `Boundaries`
does the arithmetic of `Aligned`; `WindowsMeet` says that polls at most ten minutes apart
ask for the same or adjacent windows, `MiddleShared` that of three polls within ten minutes
the middle one shares its window with the first or the last; the invariants `SinceLastPoll`,
`SincePollBefore` and `TicksCounted` bound how far clock and next tick are from the last
poll and the one before while the wall clock is steady, and count the ticks whether it is
or not.

`ConversionProofs`: `ExportedFaithfully`, `Described`, `EnrichedByOwnKey` and
`SourceStable`, for any configuration, response and enrichers, from `CInv`: a resource
of the batch has the metrics of its own event (`Measured`), begins with the attributes
it was made with, and all the rest is what the API has for its key (`Grown`). That the
last survives a lookup is `KeyStable`: what is appended comes after the first attribute
of the source name. An exported resource is one of the batch with an attribute more
(`ExportedSoFar`). How often a metric is exported is counted by a bijection between its
places in the resource and the places of its field in the configuration (`FieldFacts`).

`SelectionProofs`: what `Selected`, the sequence of the elements at given positions,
has for elements (`SelectedFacts`), and that it satisfies the equations of the loop that
pushes those elements and no other (`SelectedIsTheLoop`). The provers take no induction
over a predicate, but a set does as well: `SetInduction` is induction for a set of
naturals, and rests on the least element of a set (`LeastNatural`).

Stating `Conversion` for all configurations brought out what the run's did not show: if
two dimensions are mapped to one attribute, the first wins, so `Described` promises one
of them; and if a field is configured twice, a resource has its metric twice, so `TypeOK`
promises distinct names only if the fields are.

Only model-checked: liveness (`SendCompletes`, `DeathReported`, `ClosedEndsProcess`, and
the fairness of `Delivery` and `Answering` in `ImplementsDelivery` and
`ImplementsAnswering`), since `ENABLED` and fairness are out of the prover's reach; and
that the violated claims are violated.

## Not modelled

- In the API client: redirects one by one (reqwest follows them inside `execute`),
  the connection pool, TLS; the HTTP client
  builder, whose settings are constants, is taken not to fail. Cryptography is a
  function of the text it is applied to.
- The constant parts of the OTLP message, and the conversion of values to f64.
- `poller_type` and the resource start time, which nobody reads.
- An unreadable type in the configuration (a string for a number): like a missing
  setting, it fails in `try_deserialize`.
- Logging, tokio's cooperative budget.
- One module of pollers whose enrichment is `Enrichment`'s: the two meet only in
  `EnrichEnds`, which takes any time and changes nothing `Pipeline` tells apart.

## Plan

All components are modelled, and all safety that the runs check is proved. What is left:

1. The non-temporal halves of the liveness arguments: that a step helpful to a parked
   poller, or to a call that waits, is there whenever it waits.
