----------------------------- MODULE Conversion -----------------------------
(***************************************************************************)
(* What one API response turns into on its way to the collector: the       *)
(* aggregator or the timeseries conversion makes resources of it, the      *)
(* poller adds its static attributes, the enrichers append what they find, *)
(* and the merger exports resource by resource.                            *)
(*                                                                         *)
(* A HashMap of the configuration is the sequence in which the process     *)
(* iterates over it, and Configs holds several such orders; that of a      *)
(* lookup is a new one each time, and any order is taken.  The caches, the *)
(* clock and the other pollers are the business of Enrichment and Pipeline.*)
(***************************************************************************)
EXTENDS Integers, Sequences, FiniteSets, SequencesExt, Selection

CONSTANTS
    Configs,      \* the poller configurations considered
    Names,        \* attribute names
    Texts,        \* texts: attribute values, text columns
    Numbers,      \* numbers a response holds
    Null,         \* JSON's null
    Columns,      \* the columns of a timeseries result
    Absent,       \* no such column, no match, no response
    Malformed,    \* not what is expected at its place: no array, no event, no i64
    Rendered,     \* what Value::to_string makes of a number or of null
    Responses,    \* poller kind -> the responses considered
    Enrichers,    \* the configured enrichers
    SourceOf,     \* enricher -> its source_attribute
    Extract,      \* enricher -> text -> the key its regex takes from it, or Absent
    Known,        \* enricher -> key -> the attributes the API has for it
    SdkAttribute  \* the attribute the merger adds

Attribute == [key : Names, value : Texts]
Metric    == [name : Columns \cup {"count"}, value : Numbers]
Event     == [Columns -> Numbers \cup Texts \cup {Null, Absent}]
Result    == Event \cup {Malformed}

ASSUME ConversionAssumption ==
    /\ Absent \notin Numbers \cup Texts \cup {Null} /\ Malformed \notin Numbers \cup Event
    /\ Rendered \in [Numbers \cup {Null} -> Texts]
    /\ SourceOf \in [Enrichers -> Names]
    /\ Extract \in [Enrichers -> [Texts -> Texts \cup {Absent}]]
    /\ Known \in [Enrichers -> [Texts -> SUBSET Attribute]]
    /\ \A e \in Enrichers : \A k \in Texts :
          /\ IsFiniteSet(Known[e][k])
          /\ \A a, b \in Known[e][k] : a.key = b.key => a = b
    /\ SdkAttribute \in Attribute

\* The static attributes come from a HashMap, so none has the name of another.
ASSUME ConfigAssumption ==
    \A c \in Configs :
        /\ c.kind \in {"generic", "timeseries"}
        /\ c.dims \in Seq([dimension : Columns, attribute : Names]) /\ c.fields \in Seq(Columns)
        /\ c.static \in Seq(Attribute) /\ c.enrichers \in Seq(Enrichers)
        /\ \A n, m \in DOMAIN c.static : c.static[n].key = c.static[m].key => n = m

ASSUME ResponseAssumption ==
    /\ Responses["timeseries"] \subseteq Seq(Result) \cup {Malformed}
    /\ Responses["generic"] \subseteq [count : Numbers \cup {Malformed},
                                       results : Numbers \cup {Malformed}]
    /\ Absent \notin Responses["timeseries"] \cup Responses["generic"]

VARIABLES
    config,    \* the poller's configuration
    pc,        \* where the batch is
    request,   \* the HTTP method of the last request
    response,  \* what the API answered
    batch,     \* the resources made of it
    at,        \* the enricher (by position) and resource enrichment is at
    sent       \* the resources exported so far

vars == <<config, pc, request, response, batch, at, sent>>

Start == [enricher |-> 1, resource |-> 1]

Init ==
    /\ config \in Configs
    /\ pc = "idle" /\ request = "none" /\ response = Absent
    /\ batch = <<>> /\ at = Start /\ sent = <<>>

-----------------------------------------------------------------------------
(* From the response to a batch.                                           *)

Count(v) == <<[attributes |-> <<>>, metrics |-> <<[name |-> "count", value |-> v]>>]>>

\* The two aggregators read the Count field and the length of Results.
Aggregate(agg, a) ==
    LET v == IF agg = "result_count" THEN a.count ELSE a.results IN
    IF v = Malformed THEN <<>> ELSE Count(v)

\* Mutant of Text: null gives no text.
TextOrNull(v) == IF v \in Texts \cup {Null} THEN v ELSE Rendered[v]

Text(v) == IF v \in Texts THEN v ELSE Rendered[v]

\* dims pairs a dimension with the attribute it is mapped to.
DimensionAttributes(dims, event) ==
    LET found == Selected(dims, {i \in DOMAIN dims : event[dims[i].dimension] # Absent})
    IN  [i \in DOMAIN found |-> [key   |-> found[i].attribute,
                                 value |-> Text(event[found[i].dimension])]]

\* Mutant of FieldMetrics: a field that has no number ends the walk.
FieldMetricsUpToBad(fields, event) ==
    LET good == {i \in DOMAIN fields : \A j \in 1 .. i : event[fields[j]] \in Numbers}
    IN  [i \in good |-> [name |-> fields[i], value |-> event[fields[i]]]]

FieldMetrics(fields, event) ==
    LET found == Selected(fields, {i \in DOMAIN fields : event[fields[i]] \in Numbers})
    IN  [i \in DOMAIN found |-> [name |-> found[i], value |-> event[found[i]]]]

\* A result without an event is left out; one without a usable field is not.
Convert(c, a) ==
    LET events == IF a = Malformed THEN <<>>
                  ELSE Selected(a, {n \in DOMAIN a : a[n] # Malformed})
    IN  [i \in DOMAIN events |->
            [attributes |-> DimensionAttributes(c.dims, events[i]),
             metrics    |-> FieldMetrics(c.fields, events[i])]]

Appended(resource, attrs) == [resource EXCEPT !.attributes = @ \o attrs]

\* Mutant of AddOtelAttributes: the static attributes are put in front.
AddOtelAttributesInFront(c, b) ==
    [i \in DOMAIN b |-> [b[i] EXCEPT !.attributes = c.static \o @]]

AddOtelAttributes(c, b) == [i \in DOMAIN b |-> Appended(b[i], c.static)]

-----------------------------------------------------------------------------
(* The steps of a poll.                                                    *)

\* A body that is no JSON fails the poll before a request is made, every time.
GenericRequest ==
    /\ pc = "idle" /\ config.kind = "generic"
    /\ request' = CASE config.body = "broken" -> "none"
                    [] config.body # "broken" /\ config.method = "post" -> "post"
                    [] config.body # "broken" /\ config.method # "post" -> "get"
    /\ pc' = "polling"
    /\ UNCHANGED <<config, response, batch, at, sent>>

TimeseriesRequest ==
    /\ pc = "idle" /\ config.kind = "timeseries"
    /\ request' = "post"
    /\ pc' = "polling"
    /\ UNCHANGED <<config, response, batch, at, sent>>

PollFails ==
    /\ pc = "polling"
    /\ pc' = "idle" /\ request' = "none"
    /\ UNCHANGED <<config, response, batch, at, sent>>

Polled ==
    /\ pc = "polling" /\ request # "none"
    /\ \E a \in Responses[config.kind] :
          /\ response' = a
          /\ batch' = AddOtelAttributes(config, IF config.kind = "generic"
                                                THEN Aggregate(config.aggregator, a)
                                                ELSE Convert(config, a))
    /\ pc' = IF config.enrichers = <<>> THEN "sending" ELSE "enriching"
    /\ UNCHANGED <<config, request, at, sent>>

\* Mutant of Source: the last attribute of that name is taken.
SourceLast(e, resource) ==
    LET attrs == resource.attributes
        named == {i \in DOMAIN attrs : attrs[i].key = SourceOf[e]}
    IN  IF named = {} THEN Absent
        ELSE attrs[CHOOSE i \in named : \A j \in named : i >= j].value

\* The first attribute of the enricher's source name.
Source(e, resource) ==
    LET attrs == resource.attributes
        named == {i \in DOMAIN attrs : attrs[i].key = SourceOf[e]}
    IN  IF named = {} THEN Absent
        ELSE attrs[CHOOSE i \in named : \A j \in named : i <= j].value

KeyOf(e, resource) ==
    LET s == Source(e, resource) IN IF s = Absent THEN Absent ELSE Extract[e][s]

AtResource == pc = "enriching" /\ at.resource \in DOMAIN batch
Here == config.enrichers[at.enricher]

Skip ==
    /\ AtResource /\ KeyOf(Here, batch[at.resource]) = Absent
    /\ at' = [at EXCEPT !.resource = @ + 1]
    /\ UNCHANGED <<config, pc, request, response, batch, sent>>

\* Mutant of LookedUp: the attributes are put in front.
LookedUpInFront ==
    /\ AtResource /\ KeyOf(Here, batch[at.resource]) # Absent
    /\ \E found \in SetToSeqs(Known[Here][KeyOf(Here, batch[at.resource])]) :
          batch' = [batch EXCEPT ![at.resource].attributes = found \o @]
    /\ at' = [at EXCEPT !.resource = @ + 1]
    /\ UNCHANGED <<config, pc, request, response, sent>>

\* A lookup that fails adds nothing, one that succeeds its attributes in any order.
LookedUp ==
    /\ AtResource /\ KeyOf(Here, batch[at.resource]) # Absent
    /\ \E found \in {<<>>} \cup SetToSeqs(Known[Here][KeyOf(Here, batch[at.resource])]) :
          batch' = [batch EXCEPT ![at.resource] = Appended(@, found)]
    /\ at' = [at EXCEPT !.resource = @ + 1]
    /\ UNCHANGED <<config, pc, request, response, sent>>

NextEnricher ==
    /\ pc = "enriching" /\ ~AtResource /\ at.enricher < Len(config.enrichers)
    /\ at' = [enricher |-> at.enricher + 1, resource |-> 1]
    /\ UNCHANGED <<config, pc, request, response, batch, sent>>

Enriched ==
    /\ pc = "enriching" /\ ~AtResource /\ at.enricher = Len(config.enrichers)
    /\ pc' = "sending" /\ at' = Start
    /\ UNCHANGED <<config, request, response, batch, sent>>

\* The time is up during a lookup.
TimedOut ==
    /\ AtResource /\ KeyOf(Here, batch[at.resource]) # Absent
    /\ pc' = "sending" /\ at' = Start
    /\ UNCHANGED <<config, request, response, batch, sent>>

\* The merger's part.  Every metric becomes a gauge of one data point.
Export ==
    /\ pc = "sending" /\ Len(sent) < Len(batch)
    /\ sent' = Append(sent, Appended(batch[Len(sent) + 1], <<SdkAttribute>>))
    /\ UNCHANGED <<config, pc, request, response, batch, at>>

Exported ==
    /\ pc = "sending" /\ Len(sent) = Len(batch)
    /\ pc' = "idle" /\ request' = "none" /\ response' = Absent
    /\ batch' = <<>> /\ sent' = <<>>
    /\ UNCHANGED <<config, at>>

Next ==
    \/ GenericRequest \/ TimeseriesRequest \/ PollFails \/ Polled
    \/ Skip \/ LookedUp \/ NextEnricher \/ Enriched \/ TimedOut
    \/ Export \/ Exported

Spec == Init /\ [][Next]_vars

-----------------------------------------------------------------------------
(* Properties.                                                             *)

TypeOK ==
    /\ config \in Configs
    /\ pc \in {"idle", "polling", "enriching", "sending"}
    /\ request \in {"none", "get", "post"}
    /\ response \in Responses[config.kind] \cup {Absent}
    /\ \A b \in {batch, sent} : \A i \in DOMAIN b :
          /\ b[i] \in [attributes : Seq(Attribute), metrics : Seq(Metric)]
          /\ (\A n, m \in DOMAIN config.fields : config.fields[n] = config.fields[m] => n = m)
             => \A n, m \in DOMAIN b[i].metrics :
                   b[i].metrics[n].name = b[i].metrics[m].name => n = m
    /\ at \in [enricher : Nat, resource : Nat] /\ at.resource \in 1 .. Len(batch) + 1
    /\ pc = "enriching" => at.enricher \in DOMAIN config.enrichers

Timeseries == config.kind = "timeseries" /\ response # Absent
Generic == config.kind = "generic" /\ response # Absent
AllSent == pc = "sending" /\ Len(sent) = Len(batch)

\* The results that have an event, and the one the i-th resource stems from.
Good == IF response = Malformed THEN {}
        ELSE {n \in DOMAIN response : response[n] # Malformed}
Origin(i) == response[CHOOSE n \in Good : Cardinality({m \in Good : m <= n}) = i]

\* What the aggregator counts.
Counted == IF config.aggregator = "result_count" THEN response.count ELSE response.results

\* How often x occurs in s.
Times(x, s) == Cardinality({n \in DOMAIN s : s[n] = x})

\* However results and fields that cannot be used are spread over a response, the
\* collector gets every other field as often as it is configured, with its value, on the
\* resource of its own result and no other metric; and no result is forgotten.  Of a
\* generic response it gets the one count, or nothing if there is none
\* (timeseries_poller.rs 41-118, generic_poller.rs 51-123, metric_merger.rs 73-114).
ExportedFaithfully ==
    /\ Timeseries =>
          /\ \A i \in DOMAIN sent, m \in Metric :
                Times(m, sent[i].metrics) =
                    IF m.name \in Columns /\ Origin(i)[m.name] = m.value
                    THEN Times(m.name, config.fields) ELSE 0
          /\ AllSent => Len(sent) = Cardinality(Good)
    /\ Generic =>
          /\ \A i \in DOMAIN sent : sent[i].metrics = <<[name |-> "count", value |-> Counted]>>
          /\ AllSent => Len(sent) = IF Counted = Malformed THEN 0 ELSE 1

\* The value a reader of the attributes finds first.
Finds(resource, key) ==
    LET named == {i \in DOMAIN resource.attributes : resource.attributes[i].key = key}
    IN  {resource.attributes[i].value : i \in {j \in named : \A k \in named : j <= k}}

\* What describes a result, its dimensions and then the poller's static attributes,
\* reaches the collector ahead of anything of the same name, whatever the enrichers
\* add and wherever the timeout cuts them off; of dimensions mapped to one name, one
\* does (timeseries_poller.rs 47-63, intersight_poller.rs 95-112 and 196-207).
Described ==
    \A i \in DOMAIN sent :
        LET mapped == IF Timeseries
                      THEN {d \in {config.dims[n] : n \in DOMAIN config.dims} :
                               Origin(i)[d.dimension] # Absent}
                      ELSE {}
        IN  /\ \A d \in mapped : \E g \in mapped :
                  /\ g.attribute = d.attribute
                  /\ Finds(sent[i], d.attribute) = {Text(Origin(i)[g.dimension])}
            /\ \A n \in DOMAIN config.static :
                  LET a == config.static[n] IN
                  a.key \notin {d.attribute : d \in mapped} => Finds(sent[i], a.key) = {a.value}

\* Enrichment never changes what an enricher goes by: a resource is looked up by the
\* same key however many enrichers, repeated ones included, went before
\* (attribute_enricher.rs 59-69 and 93-101).
SourceStable ==
    [][\A e \in Enrichers, i \in DOMAIN batch :
          batch' # <<>> /\ Source(e, batch[i]) # Absent =>
              Source(e, batch'[i]) = Source(e, batch[i])]_vars

\* What enrichment added to an exported resource belongs to the key that can be read
\* off that very resource: nothing of a neighbour's, nor of an outdated key
\* (attribute_enricher.rs 57-106).
EnrichedByOwnKey ==
    \A i \in DOMAIN sent :
        LET attrs == sent[i].attributes
            own   == Len(config.static)
                     + (IF Timeseries THEN Len(DimensionAttributes(config.dims, Origin(i))) ELSE 0)
        IN  \A n \in own + 1 .. Len(attrs) - 1 :
               \E p \in DOMAIN config.enrichers :
                  LET e == config.enrichers[p]
                      k == KeyOf(e, sent[i])
                  IN  k # Absent /\ attrs[n] \in Known[e][k]

\* README.md 38-39: api_method is the HTTP method, GET by default, POST with a body.
MethodAsConfigured ==
    config.kind = "generic" /\ request # "none" =>
        request = IF config.method \in {"post", "POST"} THEN "post" ELSE "get"
=============================================================================
