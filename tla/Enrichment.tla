----------------------------- MODULE Enrichment -----------------------------
(***************************************************************************)
(* Attribute enrichment: poller tasks walk through their batches and look  *)
(* up every resource's key with each of their enrichers; an enricher asks  *)
(* the Intersight API and caches the answers, failures included.  The      *)
(* tasks share the enrichers, so their lookups interleave on the caches; a *)
(* batch is given EnrichTimeout and is sent as it stands when it is up.    *)
(*                                                                         *)
(* Time is discrete and has no end: ages and remaining times are kept, not *)
(* instants.  Computing takes no time: the clock moves only while every    *)
(* task is idle or awaits an answer, and timers are prompt.                *)
(***************************************************************************)
EXTENDS Integers, Sequences, FiniteSets

CONSTANTS
    Tasks,          \* the poller tasks
    Enrichers,      \* the configured enrichers
    Uses,           \* task -> the enrichers it resolved, in order
    Keys,           \* the values a resource can be looked up by
    NoKey,          \* no source attribute, or the regex does not match
    Resources,      \* the resources polls bring: each, the key every enricher finds
    NoAnswer,       \* nothing cached / nothing received
    MaxBatch,       \* bound: resources in a batch
    TTL, Jitter,    \* CACHE_TTL_SECS and CACHE_JITTER_SECS
    ApiTimeout,     \* the HTTP client's request timeout
    EnrichTimeout   \* ENRICH_TIMEOUT_SECS

\* An answer is a set of attributes or a failure; age is the time since the API drew it
\* up, and left the time for which it may still be served.
Answer == [ok : BOOLEAN, age : Nat, left : 0 .. TTL + Jitter - 1]

ASSUME EnrichmentAssumption ==
    /\ Uses \in [Tasks -> Seq(Enrichers)]
    /\ NoKey \notin Keys /\ NoAnswer \notin Answer
    /\ Resources \subseteq [Enrichers -> Keys \cup {NoKey}]
    /\ MaxBatch \in Nat
    /\ TTL \in Nat /\ Jitter \in Nat \ {0}
    /\ ApiTimeout \in Nat \ {0} /\ EnrichTimeout \in Nat
    /\ ApiTimeout < EnrichTimeout /\ EnrichTimeout < TTL

VARIABLES
    cache,     \* enricher -> key -> what it last learnt about the key
    pc,        \* task -> where it is
    batch,     \* task -> the resources it is enriching
    gained,    \* task -> the resources that were given attributes
    cursor,    \* task -> the enricher (by position) and resource it is at
    spent,     \* task -> how long it has been enriching its batch
    waited,    \* task -> how long it has been awaiting an answer
    fresh,     \* task -> the answer it is about to cache
    called     \* history: task -> the enrichers and keys it asked for this batch

taskVars == <<pc, batch, gained, cursor, fresh, called>>
times == <<spent, waited>>
vars == <<cache, taskVars, times>>

\* How calls of the Intersight API behave.
Api == INSTANCE Answering
       WITH Callers <- Tasks, Limit <- ApiTimeout,
            pending <- {t \in Tasks : pc[t] = "calling"}

Batches == UNION {[1 .. n -> Resources] : n \in 0 .. MaxBatch}

Init ==
    /\ cache = [e \in Enrichers |-> [k \in Keys |-> NoAnswer]]
    /\ pc = [t \in Tasks |-> "idle"]
    /\ batch = [t \in Tasks |-> <<>>] /\ gained = [t \in Tasks |-> {}]
    /\ cursor = [t \in Tasks |-> [enricher |-> 1, resource |-> 1]]
    /\ spent = [t \in Tasks |-> 0] /\ waited = [t \in Tasks |-> 0]
    /\ fresh = [t \in Tasks |-> NoAnswer]
    /\ called = [t \in Tasks |-> {}]

-----------------------------------------------------------------------------
(* The steps of a task.                                                    *)

Here(t) == Uses[t][cursor[t].enricher]         \* the enricher at work
Key(t) == batch[t][cursor[t].resource][Here(t)]
Cached(t) == cache[Here(t)][Key(t)]

Goto(t, l) == pc' = [pc EXCEPT ![t] = l]

\* A poll brought a batch; without enrichers it would be sent right away.
Poll(t) ==
    /\ pc[t] = "idle" /\ Uses[t] # <<>>
    /\ \E b \in Batches : batch' = [batch EXCEPT ![t] = b]
    /\ Goto(t, "looking")
    /\ UNCHANGED <<cache, gained, cursor, fresh, called, times>>

AtResource(t) == pc[t] = "looking" /\ cursor[t].resource \in DOMAIN batch[t]

NextResource(t) == cursor' = [cursor EXCEPT ![t].resource = @ + 1]

\* Attributes are added for an answer, none for a failure.
Give(t, a) ==
    gained' = IF a.ok THEN [gained EXCEPT ![t] = @ \cup {cursor[t].resource}] ELSE gained

Skip(t) ==
    /\ AtResource(t) /\ Key(t) = NoKey
    /\ NextResource(t)
    /\ UNCHANGED <<cache, pc, batch, gained, fresh, called, times>>

\* Mutant of Live: expired entries are served.
EverLive(a) == a # NoAnswer

\* May the cached answer be served?
Live(a) == a # NoAnswer /\ a.left > 0

Hit(t) ==
    /\ AtResource(t) /\ Key(t) # NoKey
    /\ Live(Cached(t))
    /\ Give(t, Cached(t))
    /\ NextResource(t)
    /\ UNCHANGED <<cache, pc, batch, fresh, called, times>>

\* The lock is released before the API is called.
Ask(t) ==
    /\ AtResource(t) /\ Key(t) # NoKey
    /\ ~Live(Cached(t))
    /\ called' = [called EXCEPT ![t] = @ \cup {<<Here(t), Key(t)>>}]
    /\ Goto(t, "calling") /\ Api!Begin(t)
    /\ UNCHANGED <<cache, batch, gained, cursor, spent, fresh>>

\* The answer, or the failure, is in.  The API drew it up at some time since it was
\* asked; the time to live counts from now.
Answered(t) ==
    /\ pc[t] = "calling"
    /\ \E ok \in BOOLEAN, age \in 0 .. waited[t], jitter \in 0 .. Jitter - 1 :
          fresh' = [fresh EXCEPT ![t] = [ok |-> ok, age |-> age, left |-> TTL + jitter]]
    /\ Goto(t, "storing") /\ Api!End(t)
    /\ UNCHANGED <<cache, batch, gained, cursor, spent, called>>

\* Mutant of Store: failures are not cached.
StoreSuccess(t) ==
    /\ pc[t] = "storing"
    /\ cache' = IF fresh[t].ok
                THEN [cache EXCEPT ![Here(t)][Key(t)] = fresh[t]]
                ELSE cache
    /\ fresh' = [fresh EXCEPT ![t] = NoAnswer]
    /\ Give(t, fresh[t])
    /\ NextResource(t)
    /\ Goto(t, "looking")
    /\ UNCHANGED <<batch, called, times>>

\* The entry replaces whatever is cached by now, be it newer.
Store(t) ==
    /\ pc[t] = "storing"
    /\ cache' = [cache EXCEPT ![Here(t)][Key(t)] = fresh[t]]
    /\ fresh' = [fresh EXCEPT ![t] = NoAnswer]
    /\ Give(t, fresh[t])
    /\ NextResource(t)
    /\ Goto(t, "looking")
    /\ UNCHANGED <<batch, called, times>>

\* The batch goes to the channel; what belonged to it is cleared.
Finish(t) ==
    /\ batch' = [batch EXCEPT ![t] = <<>>] /\ gained' = [gained EXCEPT ![t] = {}]
    /\ cursor' = [cursor EXCEPT ![t] = [enricher |-> 1, resource |-> 1]]
    /\ spent' = [spent EXCEPT ![t] = 0] /\ waited' = [waited EXCEPT ![t] = 0]
    /\ fresh' = [fresh EXCEPT ![t] = NoAnswer]
    /\ called' = [called EXCEPT ![t] = {}]
    /\ Goto(t, "idle")
    /\ UNCHANGED cache

\* Mutant of NextEnricher: goes past the last one.
NextEnricherLate(t) ==
    /\ pc[t] = "looking" /\ ~AtResource(t) /\ cursor[t].enricher <= Len(Uses[t])
    /\ cursor' = [cursor EXCEPT ![t] = [enricher |-> @.enricher + 1, resource |-> 1]]
    /\ UNCHANGED <<cache, pc, batch, gained, fresh, called, times>>

\* The enricher has been through the batch and the next one starts.
NextEnricher(t) ==
    /\ pc[t] = "looking" /\ ~AtResource(t) /\ cursor[t].enricher < Len(Uses[t])
    /\ cursor' = [cursor EXCEPT ![t] = [enricher |-> @.enricher + 1, resource |-> 1]]
    /\ UNCHANGED <<cache, pc, batch, gained, fresh, called, times>>

Enriched(t) ==
    /\ pc[t] = "looking" /\ ~AtResource(t) /\ cursor[t].enricher = Len(Uses[t])
    /\ Finish(t)

\* EnrichTimeout is up while the task waits for the lock or an answer: the lookup is
\* dropped, with an answer not yet cached, and the batch goes out as it stands.
Timeout(t) ==
    /\ pc[t] # "idle" /\ spent[t] >= EnrichTimeout
    /\ Finish(t)

TaskStep(t) ==
    \/ Poll(t) \/ Skip(t) \/ Hit(t) \/ Ask(t) \/ Answered(t) \/ Store(t)
    \/ NextEnricher(t) \/ Enriched(t) \/ Timeout(t)

\* An answer ages and its time runs out; once it has, nobody is served it and its age
\* does not matter.
Older(a) == IF a = NoAnswer \/ a.left = 0 THEN a ELSE [a EXCEPT !.age = @ + 1, !.left = @ - 1]

\* What a tick does besides letting the calls wait; it does not go past the end of the
\* time a task has for its batch.
Age ==
    /\ \A t \in Tasks : pc[t] = "idle" \/ (pc[t] = "calling" /\ spent[t] < EnrichTimeout)
    /\ cache' = [e \in Enrichers |-> [k \in Keys |-> Older(cache[e][k])]]
    /\ spent' = [t \in Tasks |-> IF pc[t] = "calling" THEN spent[t] + 1 ELSE 0]
    /\ UNCHANGED taskVars

\* Mutant of Tick: requests have no timeout of their own.
TickUnlimited ==
    /\ Age
    /\ waited' = [t \in Tasks |-> IF pc[t] = "calling" THEN waited[t] + 1 ELSE 0]

Tick == Age /\ Api!Elapse

Next == Tick \/ \E t \in Tasks : TaskStep(t)

Spec == Init /\ [][Next]_vars

-----------------------------------------------------------------------------
(* Properties.                                                             *)

TypeOK ==
    /\ cache \in [Enrichers -> [Keys -> Answer \cup {NoAnswer}]]
    /\ pc \in [Tasks -> {"idle", "looking", "calling", "storing"}]
    /\ batch \in [Tasks -> Batches] /\ gained \in [Tasks -> SUBSET (1 .. MaxBatch)]
    /\ cursor \in [Tasks -> [enricher : Nat, resource : 1 .. MaxBatch + 1]]
    /\ \A t \in Tasks :
          /\ gained[t] \subseteq DOMAIN batch[t]
          /\ pc[t] # "idle" => cursor[t].enricher \in DOMAIN Uses[t]
    /\ spent \in [Tasks -> 0 .. EnrichTimeout] /\ waited \in [Tasks -> Nat]
    /\ fresh \in [Tasks -> Answer \cup {NoAnswer}]
    /\ called \in [Tasks -> SUBSET (Enrichers \X Keys)]

\* What a cached answer says, a failure included, was true less than
\* TTL + Jitter - 1 + ApiTimeout ago, whichever tasks raced to cache it: a failed API call
\* cannot suppress enrichment, nor a changed object keep its old name, for longer
\* (attribute_enricher.rs 115-140).
ServedFresh ==
    [][\A t \in Tasks :
          Hit(t) => Cached(t).age < TTL + (Jitter - 1) + ApiTimeout]_vars

\* A slow lookup that overtakes a faster one sets an entry back, but never by more
\* than the API timeout (attribute_enricher.rs 126-137).
SetBackBounded ==
    [][\A e \in Enrichers, k \in Keys :
          cache[e][k] # NoAnswer /\ cache'[e][k] # NoAnswer =>
              cache'[e][k].age <= cache[e][k].age + ApiTimeout]_vars

\* No batch makes the same API call twice, even if it fails, or another task
\* overwrites the entry, or the key comes up in many resources: an entry outlives the
\* batch that made it.
OneCallPerBatch ==
    [][\A t \in Tasks : Ask(t) => <<Here(t), Key(t)>> \notin called[t]]_vars

\* A batch that times out has not wasted its time: some of the answers it asked for are
\* in the cache, so that the next batch gets further.
TimeoutMadeProgress ==
    [][\A t \in Tasks :
          Timeout(t) =>
              Cardinality({c \in called[t] : Live(cache[c[1]][c[2]])})
                  >= (EnrichTimeout - 1) \div ApiTimeout]_vars

\* intersight_poller.rs 108 and 169 log that a batch whose enrichment timed out is
\* sent un-enriched.
TimedOutUnenriched == [][\A t \in Tasks : Timeout(t) => gained[t] = {}]_vars
=============================================================================
