-------------------------- MODULE ConversionProofs --------------------------
(***************************************************************************)
(* Proofs about Conversion, for any configurations, responses and          *)
(* enrichers.                                                              *)
(***************************************************************************)
EXTENDS Conversion, SelectionProofs, FunctionTheorems

-----------------------------------------------------------------------------
(* The inductive invariant.  A resource of the batch keeps the metrics and *)
(* the attributes it was made with, and what has been appended belongs to  *)
(* its key, which never changes since only the first attribute of the      *)
(* source name counts.  An exported resource has one attribute more.       *)

Dimension == [dimension : Columns, attribute : Names]
Resource  == [attributes : Seq(Attribute), metrics : Seq(Metric)]

\* The positions of the events in a response, and the i-th event.
GoodIn(a) == IF a = Malformed THEN {} ELSE {n \in DOMAIN a : a[n] # Malformed}
EventOf(a, i) == a[Nth(GoodIn(a), i)]

\* What a resource has to begin with.
DimsOf(kind, a, i) ==
    IF kind = "timeseries" THEN DimensionAttributes(config.dims, EventOf(a, i)) ELSE <<>>
Base(i) == DimsOf(config.kind, response, i) \o config.static

\* The attribute is one the API has for the key of the resource.
OwnKey(r, attr) ==
    \E p \in DOMAIN config.enrichers :
        LET e == config.enrichers[p]
            k == KeyOf(e, r)
        IN  k # Absent /\ attr \in Known[e][k]

\* The resource has been made of base by appending what belongs to it.
GrownFrom(r, base) ==
    /\ Len(base) <= Len(r.attributes)
    /\ \A n \in 1 .. Len(base) : r.attributes[n] = base[n]
    /\ \A n \in 1 .. Len(r.attributes) : n > Len(base) => OwnKey(r, r.attributes[n])

Ranges ==
    /\ config \in Configs
    /\ pc \in {"idle", "polling", "enriching", "sending"}
    /\ request \in {"none", "get", "post"}
    /\ response \in Responses[config.kind] \cup {Absent}
    /\ batch \in Seq(Resource) /\ sent \in Seq(Resource)
    /\ at \in [enricher : Nat, resource : Nat]

Phases ==
    /\ pc \in {"idle", "polling"} <=> response = Absent
    /\ response = Absent => batch = <<>>
    /\ pc # "sending" => sent = <<>>
    /\ pc # "enriching" => at = Start
    /\ pc = "enriching" => at.enricher \in DOMAIN config.enrichers
    /\ at.resource \in 1 .. Len(batch) + 1

\* What an aggregator counts.
CountOf(agg, a) == IF agg = "result_count" THEN a.count ELSE a.results

\* How many resources a response gives, and the metrics of the i-th: every result with an
\* event has one, with the metrics of its own fields, and so has a count.
ResourcesOf(kind, agg, a) ==
    IF kind = "timeseries" THEN Cardinality(GoodIn(a))
    ELSE IF CountOf(agg, a) = Malformed THEN 0 ELSE 1
MetricsOf(kind, fields, agg, a, i) ==
    IF kind = "timeseries" THEN FieldMetrics(fields, EventOf(a, i))
    ELSE <<[name |-> "count", value |-> CountOf(agg, a)]>>

Measured ==
    /\ response # Absent => Len(batch) = ResourcesOf(config.kind, config.aggregator, response)
    /\ \A i \in DOMAIN batch :
          batch[i].metrics =
              MetricsOf(config.kind, config.fields, config.aggregator, response, i)

Grown == \A i \in DOMAIN batch : GrownFrom(batch[i], Base(i))

\* What has been exported is the batch so far.
ExportedSoFar ==
    /\ Len(sent) <= Len(batch)
    /\ \A i \in DOMAIN sent : sent[i] = Appended(batch[i], <<SdkAttribute>>)

CInv == Ranges /\ Phases /\ Measured /\ Grown /\ ExportedSoFar

-----------------------------------------------------------------------------
(* Lemmas about the operators.                                             *)

\* A text stays what it is, anything else is rendered.
LEMMA TextType == \A v \in Numbers \cup Texts \cup {Null} : Text(v) \in Texts
  BY ConversionAssumption DEF Text

\* Appending leaves the metrics and the attributes that are there.
LEMMA AppendedFacts ==
    ASSUME NEW r \in Resource, NEW attrs \in Seq(Attribute)
    PROVE  /\ Appended(r, attrs) \in Resource
           /\ Appended(r, attrs).metrics = r.metrics
           /\ Len(Appended(r, attrs).attributes) = Len(r.attributes) + Len(attrs)
           /\ \A n \in 1 .. Len(r.attributes) :
                 Appended(r, attrs).attributes[n] = r.attributes[n]
           /\ \A n \in 1 .. Len(attrs) :
                 Appended(r, attrs).attributes[Len(r.attributes) + n] = attrs[n]
  <1> DEFINE old == r.attributes
             new == old \o attrs
  <1>1. old \in Seq(Attribute) /\ r.metrics \in Seq(Metric)
    BY DEF Resource
  <1>2. Appended(r, attrs) = [attributes |-> new, metrics |-> r.metrics]
    <2>1. PICK a, m : r = [attributes |-> a, metrics |-> m]
      BY DEF Resource
    <2>2. Appended(r, attrs) = [r EXCEPT !.attributes = new]
      BY DEF Appended
    <2> HIDE DEF new
    <2>3. [r EXCEPT !.attributes = new] = [attributes |-> new, metrics |-> m]
      BY <2>1
    <2> QED
      BY <2>1, <2>2, <2>3
  <1> HIDE DEF old
  <1>3. /\ new \in Seq(Attribute) /\ Len(new) = Len(old) + Len(attrs)
        /\ \A n \in 1 .. Len(old) : new[n] = old[n]
        /\ \A n \in 1 .. Len(attrs) : new[Len(old) + n] = attrs[n]
    BY <1>1
  <1> HIDE DEF new
  <1>4. Appended(r, attrs) \in Resource
    BY <1>1, <1>2, <1>3 DEF Resource
  <1> QED
    BY <1>2, <1>3, <1>4 DEF old

-----------------------------------------------------------------------------
(* The first attribute of a name.                                          *)

\* The i-th attribute is the first of that name.
FirstOf(attrs, key, i) ==
    /\ i \in 1 .. Len(attrs) /\ attrs[i].key = key
    /\ \A j \in 1 .. Len(attrs) : attrs[j].key = key => i <= j

\* If there is one of that name there is a first.
LEMMA FirstExists ==
    ASSUME NEW attrs \in Seq(Attribute), NEW key, NEW n \in 1 .. Len(attrs), attrs[n].key = key
    PROVE  \E i \in 1 .. n : FirstOf(attrs, key, i)
  <1> DEFINE T == {j \in 1 .. Len(attrs) : attrs[j].key = key}
  <1>1. T \in SUBSET Nat /\ n \in T
    OBVIOUS
  <1>2. PICK i \in T : \A j \in T : i <= j
    <2> HIDE DEF T
    <2> QED
      BY <1>1, LeastNatural
  <1>3. i <= n /\ i \in 1 .. Len(attrs)
    BY <1>1, <1>2
  <1>4. FirstOf(attrs, key, i)
    BY <1>2 DEF FirstOf
  <1> QED
    BY <1>3, <1>4

\* Only one is the first.
LEMMA FirstUnique ==
    ASSUME NEW attrs \in Seq(Attribute), NEW key, NEW i, NEW j,
           FirstOf(attrs, key, i), FirstOf(attrs, key, j)
    PROVE  i = j
  <1>1. i \in Nat /\ j \in Nat /\ i <= j /\ j <= i
    BY DEF FirstOf
  <1> QED
    BY <1>1

\* The first in a sequence is the first in any longer one.
LEMMA FirstOfLonger ==
    ASSUME NEW attrs \in Seq(Attribute), NEW longer \in Seq(Attribute), NEW key, NEW i,
           Len(attrs) <= Len(longer), \A n \in 1 .. Len(attrs) : longer[n] = attrs[n],
           FirstOf(attrs, key, i)
    PROVE  FirstOf(longer, key, i)
  <1>1. i \in 1 .. Len(longer) /\ longer[i].key = key /\ i <= Len(attrs)
    BY DEF FirstOf
  <1>2. ASSUME NEW j \in 1 .. Len(longer), longer[j].key = key PROVE i <= j
    <2>1. CASE j <= Len(attrs)
      <3>1. j \in 1 .. Len(attrs) /\ attrs[j].key = key
        BY <1>2, <2>1
      <3> QED
        BY <3>1 DEF FirstOf
    <2>2. CASE ~(j <= Len(attrs))
      BY <1>1, <2>2
    <2> QED
      BY <2>1, <2>2
  <1> QED
    BY <1>1, <1>2 DEF FirstOf

\* The source of an enricher is the value of the first attribute of its source name.
LEMMA SourceIsFirst ==
    ASSUME NEW r \in Resource, NEW e \in Enrichers, NEW i, FirstOf(r.attributes, SourceOf[e], i)
    PROVE  Source(e, r) = r.attributes[i].value /\ Source(e, r) \in Texts
  <1> DEFINE attrs == r.attributes
             named == {n \in DOMAIN attrs : attrs[n].key = SourceOf[e]}
             c == CHOOSE n \in named : \A j \in named : n <= j
  <1>1. attrs \in Seq(Attribute)
    BY DEF Resource
  <1>2. i \in named /\ \A j \in named : i <= j
    BY <1>1 DEF FirstOf
  <1>3. c \in named /\ \A j \in named : c <= j
    BY <1>2
  <1>4. FirstOf(attrs, SourceOf[e], c)
    <2>1. DOMAIN attrs = 1 .. Len(attrs)
      BY <1>1
    <2> HIDE DEF c
    <2>2. c \in 1 .. Len(attrs) /\ attrs[c].key = SourceOf[e]
      BY <1>3, <2>1
    <2>3. ASSUME NEW j \in 1 .. Len(attrs), attrs[j].key = SourceOf[e] PROVE c <= j
      BY <1>3, <2>1, <2>3
    <2> QED
      BY <2>2, <2>3 DEF FirstOf
  <1>5. c = i
    <2> HIDE DEF c
    <2> QED
      BY <1>1, <1>4, FirstUnique
  <1>6. Source(e, r) = attrs[c].value
    BY <1>2 DEF Source
  <1>7. attrs[i] \in Attribute
    BY <1>1 DEF FirstOf
  <1> QED
    BY <1>5, <1>6, <1>7 DEF Attribute

\* An enricher has a source if and only if there is an attribute of its source name.
LEMMA SourceFound ==
    ASSUME NEW r \in Resource, NEW e \in Enrichers, Source(e, r) # Absent
    PROVE  \E i : FirstOf(r.attributes, SourceOf[e], i)
  <1>1. r.attributes \in Seq(Attribute)
    BY DEF Resource
  <1>2. PICK n \in DOMAIN r.attributes : r.attributes[n].key = SourceOf[e]
    BY DEF Source
  <1>3. n \in 1 .. Len(r.attributes)
    BY <1>1
  <1> QED
    BY <1>1, <1>2, <1>3, FirstExists

\* What is appended does not change the source, nor the key.
LEMMA KeyStable ==
    ASSUME NEW r \in Resource, NEW attrs \in Seq(Attribute), NEW e \in Enrichers
    PROVE  /\ Source(e, r) # Absent => Source(e, Appended(r, attrs)) = Source(e, r)
           /\ KeyOf(e, r) # Absent => KeyOf(e, Appended(r, attrs)) = KeyOf(e, r)
  <1>1. ASSUME Source(e, r) # Absent PROVE Source(e, Appended(r, attrs)) = Source(e, r)
    <2>1. PICK i : FirstOf(r.attributes, SourceOf[e], i)
      BY <1>1, SourceFound
    <2> DEFINE q == Appended(r, attrs)
    <2>2. /\ q \in Resource /\ q.attributes \in Seq(Attribute) /\ r.attributes \in Seq(Attribute)
          /\ Len(q.attributes) = Len(r.attributes) + Len(attrs)
          /\ \A n \in 1 .. Len(r.attributes) : q.attributes[n] = r.attributes[n]
      BY AppendedFacts DEF Resource
    <2> HIDE DEF q
    <2>3. Len(r.attributes) <= Len(q.attributes)
      BY <2>2
    <2>4. FirstOf(q.attributes, SourceOf[e], i)
      BY <2>1, <2>2, <2>3, FirstOfLonger
    <2>5. q.attributes[i] = r.attributes[i]
      BY <2>1, <2>2 DEF FirstOf
    <2> QED
      BY <2>1, <2>2, <2>4, <2>5, SourceIsFirst DEF q
  <1>2. ASSUME KeyOf(e, r) # Absent PROVE KeyOf(e, Appended(r, attrs)) = KeyOf(e, r)
    <2>1. Source(e, r) # Absent
      BY <1>2 DEF KeyOf
    <2> QED
      BY <1>1, <2>1 DEF KeyOf
  <1> QED
    BY <1>1, <1>2

\* A set of attributes in some order is a sequence of them.
LEMMA OrderType ==
    ASSUME NEW S \in SUBSET Attribute, IsFiniteSet(S), NEW s \in SetToSeqs(S)
    PROVE  s \in Seq(Attribute) /\ \A n \in DOMAIN s : s[n] \in S
  <1>1. s \in [1 .. Cardinality(S) -> S] /\ Cardinality(S) \in Nat
    BY FS_CardinalityType DEF SetToSeqs
  <1>2. s \in [1 .. Cardinality(S) -> Attribute]
    BY <1>1
  <1> QED
    BY <1>1, <1>2

\* A key is a text, and the API has attributes for it, if only none.
LEMMA KeyType ==
    ASSUME NEW r \in Resource, NEW e \in Enrichers, KeyOf(e, r) # Absent
    PROVE  /\ KeyOf(e, r) \in Texts
           /\ Known[e][KeyOf(e, r)] \in SUBSET Attribute /\ IsFiniteSet(Known[e][KeyOf(e, r)])
  <1>1. Source(e, r) # Absent /\ KeyOf(e, r) = Extract[e][Source(e, r)]
    BY DEF KeyOf
  <1>2. Source(e, r) \in Texts
    BY <1>1, SourceFound, SourceIsFirst
  <1>3. KeyOf(e, r) \in Texts
    BY <1>1, <1>2, ConversionAssumption
  <1> QED
    BY <1>3, ConversionAssumption

-----------------------------------------------------------------------------
(* What is made of a response.                                             *)

\* The attributes of the dimensions an event has, each with what the event has for it.
LEMMA DimensionFacts ==
    ASSUME NEW dims \in Seq(Dimension), NEW event \in Event
    PROVE  LET made == DimensionAttributes(dims, event)
               Has(n) == event[dims[n].dimension] # Absent
           IN  /\ made \in Seq(Attribute)
               /\ \A k \in 1 .. Len(made) : \E n \in DOMAIN dims :
                     /\ Has(n) /\ made[k].key = dims[n].attribute
                     /\ made[k].value = Text(event[dims[n].dimension])
               /\ \A n \in DOMAIN dims : Has(n) =>
                     \E k \in 1 .. Len(made) : made[k].key = dims[n].attribute
  <1> DEFINE made == DimensionAttributes(dims, event)
             Has(n) == event[dims[n].dimension] # Absent
             P == {n \in DOMAIN dims : Has(n)}
             found == Selected(dims, P)
             c == Cardinality(P)
  <1>1. P \in SUBSET DOMAIN dims
    OBVIOUS
  <1>2. \A n \in P : n \in DOMAIN dims /\ Has(n)
    OBVIOUS
  <1>3. made = [k \in DOMAIN found |-> [key   |-> found[k].attribute,
                                        value |-> Text(event[found[k].dimension])]]
    BY DEF DimensionAttributes
  <1>4. ASSUME NEW n \in DOMAIN dims, Has(n) PROVE n \in P
    BY <1>4
  <1> HIDE DEF P, made
  <1>5. /\ found \in Seq(Dimension) /\ Len(found) = c /\ c \in Nat
        /\ \A k \in 1 .. c : Nth(P, k) \in P /\ found[k] = dims[Nth(P, k)]
        /\ \A n \in P : Rank(P, n) \in 1 .. c /\ found[Rank(P, n)] = dims[n]
    BY <1>1, SelectedFacts
  <1> HIDE DEF found, c
  <1>6. DOMAIN found = 1 .. c
    BY <1>5
  <1>7. ASSUME NEW k \in 1 .. c
        PROVE  /\ made[k].key = dims[Nth(P, k)].attribute
               /\ made[k].value = Text(event[dims[Nth(P, k)].dimension])
               /\ Nth(P, k) \in DOMAIN dims /\ Has(Nth(P, k))
               /\ made[k] \in Attribute
    <2>1. Nth(P, k) \in P /\ found[k] = dims[Nth(P, k)]
      BY <1>5
    <2>2. Nth(P, k) \in DOMAIN dims /\ Has(Nth(P, k))
      BY <1>2, <2>1
    <2>3. made[k] = [key   |-> dims[Nth(P, k)].attribute,
                     value |-> Text(event[dims[Nth(P, k)].dimension])]
      BY <1>3, <1>6, <2>1
    <2>4. dims[Nth(P, k)] \in Dimension
      BY <2>2
    <2>5. dims[Nth(P, k)].attribute \in Names /\ dims[Nth(P, k)].dimension \in Columns
      BY <2>4 DEF Dimension
    <2>6. event[dims[Nth(P, k)].dimension] \in Numbers \cup Texts \cup {Null}
      BY <2>2, <2>5 DEF Event
    <2>7. Text(event[dims[Nth(P, k)].dimension]) \in Texts
      BY <2>6, TextType
    <2> QED
      BY <2>2, <2>3, <2>5, <2>7 DEF Attribute
  <1>8. made \in Seq(Attribute) /\ Len(made) = c
    <2>1. made \in [1 .. c -> Attribute]
      BY <1>3, <1>6, <1>7
    <2> QED
      BY <1>5, <2>1
  <1>9. ASSUME NEW n \in DOMAIN dims, Has(n)
        PROVE  \E k \in 1 .. c : made[k].key = dims[n].attribute
    <2>1. n \in P
      BY <1>4, <1>9
    <2>2. Rank(P, n) \in 1 .. c /\ found[Rank(P, n)] = dims[n]
      BY <1>5, <2>1
    <2>3. found[Rank(P, n)] = dims[Nth(P, Rank(P, n))]
      BY <1>5, <2>2
    <2>4. made[Rank(P, n)].key = dims[n].attribute
      BY <1>7, <2>2, <2>3
    <2> QED
      BY <2>2, <2>4
  <1>10. \A k \in 1 .. c : \E n \in DOMAIN dims :
            /\ Has(n) /\ made[k].key = dims[n].attribute
            /\ made[k].value = Text(event[dims[n].dimension])
    BY <1>7
  <1> QED
    BY <1>8, <1>9, <1>10 DEF made

\* The metrics of an event are its numbers among the fields: each field that has a number
\* is there as often as it is configured, and nothing else is.
LEMMA FieldFacts ==
    ASSUME NEW fields \in Seq(Columns), NEW event \in Event
    PROVE  LET made == FieldMetrics(fields, event)
           IN  /\ made \in Seq(Metric)
               /\ \A m \in Metric :
                     Times(m, made) = IF m.name \in Columns /\ event[m.name] = m.value
                                      THEN Times(m.name, fields) ELSE 0
               /\ (\A n, m \in DOMAIN fields : fields[n] = fields[m] => n = m) =>
                     \A k, l \in 1 .. Len(made) : made[k].name = made[l].name => k = l
  <1> DEFINE made == FieldMetrics(fields, event)
             P == {n \in DOMAIN fields : event[fields[n]] \in Numbers}
             found == Selected(fields, P)
             c == Cardinality(P)
  <1>1. P \in SUBSET DOMAIN fields /\ \A n \in P : n \in DOMAIN fields
    OBVIOUS
  <1>2. \A n \in P : event[fields[n]] \in Numbers
    OBVIOUS
  <1>3. made = [k \in DOMAIN found |-> [name |-> found[k], value |-> event[found[k]]]]
    BY DEF FieldMetrics
  <1>4. ASSUME NEW n \in DOMAIN fields, event[fields[n]] \in Numbers PROVE n \in P
    BY <1>4
  <1> HIDE DEF P, made
  <1>5. /\ found \in Seq(Columns) /\ Len(found) = c /\ c \in Nat
        /\ \A k \in 1 .. c : Nth(P, k) \in P /\ found[k] = fields[Nth(P, k)]
        /\ \A n \in P : Rank(P, n) \in 1 .. c /\ found[Rank(P, n)] = fields[n]
    BY <1>1, SelectedFacts
  <1> HIDE DEF found, c
  <1>6. DOMAIN found = 1 .. c
    BY <1>5
  <1>7. ASSUME NEW k \in 1 .. c
        PROVE  /\ made[k].name = fields[Nth(P, k)]
               /\ made[k].value = event[fields[Nth(P, k)]]
               /\ Nth(P, k) \in DOMAIN fields /\ event[fields[Nth(P, k)]] \in Numbers
               /\ made[k] \in Metric
    <2>1. Nth(P, k) \in P /\ found[k] = fields[Nth(P, k)]
      BY <1>5
    <2>2. Nth(P, k) \in DOMAIN fields /\ event[fields[Nth(P, k)]] \in Numbers
      BY <1>1, <1>2, <2>1
    <2>3. made[k] = [name |-> fields[Nth(P, k)], value |-> event[fields[Nth(P, k)]]]
      BY <1>3, <1>6, <2>1
    <2>4. fields[Nth(P, k)] \in Columns
      BY <2>2
    <2> QED
      BY <2>2, <2>3, <2>4 DEF Metric
  <1>8. made \in Seq(Metric) /\ Len(made) = c
    <2>1. made \in [1 .. c -> Metric]
      BY <1>3, <1>6, <1>7
    <2> QED
      BY <1>5, <2>1
  <1>9. ASSUME NEW k \in 1 .. c
        PROVE  made[k] = [name |-> fields[Nth(P, k)], value |-> event[fields[Nth(P, k)]]]
    BY <1>3, <1>5, <1>6
  <1>10. ASSUME NEW m \in Metric
         PROVE  Times(m, made) = IF m.name \in Columns /\ event[m.name] = m.value
                                 THEN Times(m.name, fields) ELSE 0
    <2> DEFINE A == {k \in DOMAIN made : made[k] = m}
               B == {n \in DOMAIN fields : fields[n] = m.name}
    <2>1. Times(m, made) = Cardinality(A) /\ Times(m.name, fields) = Cardinality(B)
      BY DEF Times
    <2>2. m = [name |-> m.name, value |-> m.value] /\ m.value \in Numbers
      BY DEF Metric
    <2>3. A = {k \in 1 .. c : /\ fields[Nth(P, k)] = m.name
                              /\ event[fields[Nth(P, k)]] = m.value}
      <3>1. DOMAIN made = 1 .. c
        BY <1>8
      <3>2. ASSUME NEW k \in 1 .. c
            PROVE  made[k] = m <=> /\ fields[Nth(P, k)] = m.name
                                   /\ event[fields[Nth(P, k)]] = m.value
        <4> DEFINE f == fields[Nth(P, k)]
        <4>1. made[k] = [name |-> f, value |-> event[f]]
          BY <1>9
        <4>2. \A x, y : [name |-> x, value |-> y] = [name |-> m.name, value |-> m.value]
                           <=> x = m.name /\ y = m.value
          <5>1. \A x, y, u, v : [name |-> x, value |-> y] = [name |-> u, value |-> v]
                                   => x = u /\ y = v
            OBVIOUS
          <5> QED
            BY <5>1
        <4> HIDE DEF f
        <4>3. made[k] = m <=> f = m.name /\ event[f] = m.value
          BY <2>2, <4>1, <4>2, Zenon
        <4> QED
          BY <4>3 DEF f
      <3> QED
        BY <3>1, <3>2
    <2> HIDE DEF A
    <2>4. CASE m.name \in Columns /\ event[m.name] = m.value
      <3>1. B \in SUBSET P
        BY <1>4, <2>2, <2>4
      <3>2. P \in SUBSET (1 .. Len(fields)) /\ Len(fields) \in Nat
        BY <1>1
      <3>3. \A n \in B : n \in P /\ fields[n] = m.name
        BY <3>1
      <3>4. \A n \in P : fields[n] = m.name => n \in B
        BY <1>1
      <3> HIDE DEF B
      <3> DEFINE f == [k \in A |-> Nth(P, k)]
      <3>5. \A k \in A : k \in 1 .. c /\ Nth(P, k) \in B
        BY <1>5, <2>3, <3>4
      <3>6. f \in [A -> B]
        BY <3>5
      <3>7. ASSUME NEW k \in A, NEW l \in A, f[k] = f[l] PROVE k = l
        <4>1. Rank(P, Nth(P, k)) = k /\ Rank(P, Nth(P, l)) = l
          BY <3>2, <3>5, NthFacts DEF c
        <4> QED
          BY <3>7, <4>1
      <3>8. ASSUME NEW n \in B PROVE \E k \in A : f[k] = n
        <4>1. Rank(P, n) \in 1 .. c /\ Nth(P, Rank(P, n)) = n
          BY <1>5, <3>2, <3>3, NthOfRank
        <4>2. Rank(P, n) \in A
          BY <2>3, <2>4, <3>3, <4>1
        <4> QED
          BY <4>1, <4>2
      <3> HIDE DEF f
      <3>9. f \in Bijection(A, B)
        BY <3>6, <3>7, <3>8, Fun_IsBij
      <3>10. ExistsBijection(A, B)
        BY <3>9, Fun_ExistsBij
      <3>11. IsFiniteSet(A)
        <4>1. IsFiniteSet(1 .. c) /\ A \in SUBSET (1 .. c)
          BY <1>5, <3>5, FS_Interval
        <4> QED
          BY <4>1, FS_Subset
      <3>12. Cardinality(A) = Cardinality(B)
        BY <3>10, <3>11, FS_Bijection
      <3> QED
        BY <2>1, <2>4, <3>12
    <2>5. CASE ~(m.name \in Columns /\ event[m.name] = m.value)
      <3>1. \A k \in 1 .. c : fields[Nth(P, k)] \in Columns
        BY <1>7
      <3>2. A = {}
        BY <2>3, <2>5, <3>1
      <3> QED
        BY <2>1, <2>5, <3>2, FS_EmptySet
    <2> QED
      BY <2>4, <2>5
  <1>11. ASSUME \A n, m \in DOMAIN fields : fields[n] = fields[m] => n = m,
                NEW k \in 1 .. c, NEW l \in 1 .. c, made[k].name = made[l].name
         PROVE  k = l
    <2>1. Nth(P, k) = Nth(P, l)
      BY <1>7, <1>11
    <2>2. P \in SUBSET (1 .. Len(fields)) /\ Len(fields) \in Nat
      BY <1>1
    <2>3. Rank(P, Nth(P, k)) = k /\ Rank(P, Nth(P, l)) = l
      BY <2>2, NthFacts DEF c
    <2> QED
      BY <2>1, <2>3
  <1> QED
    BY <1>8, <1>10, <1>11 DEF made

\* The parts of a configuration.
LEMMA ConfigFacts ==
    ASSUME config \in Configs
    PROVE  /\ config.kind \in {"generic", "timeseries"}
           /\ config.dims \in Seq(Dimension) /\ config.fields \in Seq(Columns)
           /\ config.static \in Seq(Attribute) /\ config.enrichers \in Seq(Enrichers)
           /\ \A n, m \in DOMAIN config.static :
                 config.static[n].key = config.static[m].key => n = m
  BY ConfigAssumption DEF Dimension

\* The events of a response, one by one.
LEMMA EventFacts ==
    ASSUME NEW a \in Responses["timeseries"]
    PROVE  /\ Cardinality(GoodIn(a)) \in Nat
           /\ \A i \in 1 .. Cardinality(GoodIn(a)) : EventOf(a, i) \in Event
           /\ a # Malformed =>
                 /\ GoodIn(a) = {n \in DOMAIN a : a[n] # Malformed}
                 /\ Len(Selected(a, GoodIn(a))) = Cardinality(GoodIn(a))
                 /\ Selected(a, GoodIn(a)) \in Seq(Result)
                 /\ \A i \in 1 .. Cardinality(GoodIn(a)) :
                       Selected(a, GoodIn(a))[i] = EventOf(a, i)
           /\ a = Malformed => Cardinality(GoodIn(a)) = 0
  <1>1. CASE a = Malformed
    <2>1. GoodIn(a) = {}
      BY <1>1 DEF GoodIn
    <2>2. Cardinality(GoodIn(a)) = 0
      BY <2>1, FS_EmptySet
    <2> QED
      BY <1>1, <2>2
  <1>2. CASE a # Malformed
    <2> DEFINE P == GoodIn(a)
    <2>1. a \in Seq(Result)
      BY <1>2, ResponseAssumption
    <2>2. P = {n \in DOMAIN a : a[n] # Malformed}
      BY <1>2 DEF GoodIn
    <2>3. P \in SUBSET DOMAIN a /\ \A n \in P : a[n] \in Event
      BY <2>1, <2>2 DEF Result
    <2> HIDE DEF P
    <2>4. /\ Selected(a, P) \in Seq(Result)
          /\ Len(Selected(a, P)) = Cardinality(P) /\ Cardinality(P) \in Nat
          /\ \A k \in 1 .. Cardinality(P) : Nth(P, k) \in P /\ Selected(a, P)[k] = a[Nth(P, k)]
      BY <2>1, <2>3, SelectedFacts
    <2>5. \A i : EventOf(a, i) = a[Nth(P, i)]
      BY DEF EventOf, P
    <2>6. \A i \in 1 .. Cardinality(P) : EventOf(a, i) \in Event
      BY <2>3, <2>4, <2>5
    <2> QED
      BY <1>2, <2>2, <2>4, <2>5, <2>6 DEF P
  <1> QED
    BY <1>1, <1>2

\* Every event makes a resource of its dimensions and its fields.
LEMMA ConvertFacts ==
    ASSUME config \in Configs, NEW a \in Responses["timeseries"]
    PROVE  LET made == Convert(config, a)
           IN  /\ made \in Seq(Resource)
               /\ Len(made) = Cardinality(GoodIn(a))
               /\ \A i \in 1 .. Len(made) :
                     /\ made[i].attributes = DimensionAttributes(config.dims, EventOf(a, i))
                     /\ made[i].metrics = FieldMetrics(config.fields, EventOf(a, i))
  <1> DEFINE made == Convert(config, a)
             events == IF a = Malformed THEN <<>>
                       ELSE Selected(a, {n \in DOMAIN a : a[n] # Malformed})
             c == Cardinality(GoodIn(a))
  <1>1. made = [i \in DOMAIN events |->
                  [attributes |-> DimensionAttributes(config.dims, events[i]),
                   metrics    |-> FieldMetrics(config.fields, events[i])]]
    BY DEF Convert
  <1>2. /\ c \in Nat /\ DOMAIN events = 1 .. c
        /\ \A i \in 1 .. c : events[i] = EventOf(a, i) /\ EventOf(a, i) \in Event
    <2>1. CASE a = Malformed
      BY <2>1, EventFacts
    <2>2. CASE a # Malformed
      <3>1. events = Selected(a, GoodIn(a))
        BY <2>2, EventFacts
      <3> HIDE DEF events
      <3> QED
        BY <2>2, <3>1, EventFacts
    <2> QED
      BY <2>1, <2>2
  <1> HIDE DEF made, events, c
  <1>3. ASSUME NEW i \in 1 .. c
        PROVE  /\ made[i] \in Resource
               /\ made[i].attributes = DimensionAttributes(config.dims, EventOf(a, i))
               /\ made[i].metrics = FieldMetrics(config.fields, EventOf(a, i))
    <2>1. made[i] = [attributes |-> DimensionAttributes(config.dims, EventOf(a, i)),
                     metrics    |-> FieldMetrics(config.fields, EventOf(a, i))]
      BY <1>1, <1>2
    <2>2. DimensionAttributes(config.dims, EventOf(a, i)) \in Seq(Attribute)
      BY <1>2, ConfigFacts, DimensionFacts
    <2>3. FieldMetrics(config.fields, EventOf(a, i)) \in Seq(Metric)
      BY <1>2, ConfigFacts, FieldFacts
    <2> QED
      BY <2>1, <2>2, <2>3 DEF Resource
  <1>4. made \in Seq(Resource) /\ Len(made) = c
    <2>1. made \in [1 .. c -> Resource]
      BY <1>1, <1>2, <1>3
    <2> QED
      BY <1>2, <2>1
  <1> QED
    BY <1>3, <1>4 DEF made, c

\* A count makes one resource of one metric, anything else none.
LEMMA AggregateFacts ==
    ASSUME NEW agg, NEW a \in Responses["generic"]
    PROVE  LET made == Aggregate(agg, a)
           IN  /\ made \in Seq(Resource)
               /\ Len(made) = IF CountOf(agg, a) = Malformed THEN 0 ELSE 1
               /\ \A i \in 1 .. Len(made) :
                     /\ made[i].attributes = <<>>
                     /\ made[i].metrics = <<[name |-> "count", value |-> CountOf(agg, a)]>>
  <1> DEFINE v == CountOf(agg, a)
  <1>1. a.count \in Numbers \cup {Malformed} /\ a.results \in Numbers \cup {Malformed}
    BY ResponseAssumption
  <1>2. v \in Numbers \cup {Malformed}
    BY <1>1 DEF CountOf
  <1>3. Aggregate(agg, a) = IF v = Malformed THEN <<>> ELSE Count(v)
    BY DEF Aggregate, CountOf
  <1> HIDE DEF v
  <1>4. CASE v = Malformed
    BY <1>3, <1>4 DEF v
  <1>5. CASE v # Malformed
    <2> DEFINE m == [name |-> "count", value |-> v]
               r == [attributes |-> <<>>, metrics |-> <<m>>]
    <2>1. m \in Metric
      BY <1>2, <1>5 DEF Metric
    <2>2. Count(v) = <<r>>
      BY DEF Count
    <2>3. r.metrics = <<m>> /\ r.attributes = <<>>
      OBVIOUS
    <2> HIDE DEF m
    <2>4. <<m>> \in Seq(Metric) /\ <<>> \in Seq(Attribute)
      BY <2>1
    <2>5. r \in Resource
      BY <2>4 DEF Resource
    <2> HIDE DEF r
    <2>6. Aggregate(agg, a) = <<r>>
      BY <1>3, <1>5, <2>2
    <2>7. <<r>> \in Seq(Resource) /\ Len(<<r>>) = 1 /\ \A i \in 1 .. 1 : <<r>>[i] = r
      BY <2>5
    <2> QED
      BY <1>5, <2>3, <2>6, <2>7 DEF m, v
  <1> QED
    BY <1>4, <1>5

\* What a poll gives, the static attributes added: the resources of the response, each
\* with its base and its metrics.
LEMMA PolledFacts ==
    ASSUME config \in Configs, NEW a \in Responses[config.kind]
    PROVE  LET made == IF config.kind = "generic" THEN Aggregate(config.aggregator, a)
                                                  ELSE Convert(config, a)
               b    == AddOtelAttributes(config, made)
           IN  /\ b \in Seq(Resource)
               /\ Len(b) = ResourcesOf(config.kind, config.aggregator, a)
               /\ \A i \in 1 .. Len(b) :
                     /\ b[i].attributes = DimsOf(config.kind, a, i) \o config.static
                     /\ b[i].metrics =
                           MetricsOf(config.kind, config.fields, config.aggregator, a, i)
  <1> DEFINE made == IF config.kind = "generic" THEN Aggregate(config.aggregator, a)
                                                ELSE Convert(config, a)
             b == AddOtelAttributes(config, made)
  <1>1. /\ made \in Seq(Resource)
        /\ Len(made) = ResourcesOf(config.kind, config.aggregator, a)
        /\ \A i \in 1 .. Len(made) :
              /\ made[i].attributes = DimsOf(config.kind, a, i)
              /\ made[i].metrics = MetricsOf(config.kind, config.fields, config.aggregator, a, i)
    <2>1. CASE config.kind = "generic"
      BY <2>1, AggregateFacts DEF DimsOf, ResourcesOf, MetricsOf
    <2>2. CASE config.kind = "timeseries"
      BY <2>2, ConvertFacts DEF DimsOf, ResourcesOf, MetricsOf
    <2> QED
      BY <2>1, <2>2, ConfigFacts
  <1> HIDE DEF made
  <1>2. b = [i \in DOMAIN made |-> Appended(made[i], config.static)]
    BY DEF AddOtelAttributes
  <1> HIDE DEF b
  <1>3. ASSUME NEW i \in 1 .. Len(made)
        PROVE  /\ b[i] \in Resource /\ b[i].metrics = made[i].metrics
               /\ b[i].attributes = made[i].attributes \o config.static
    <2>1. made[i] \in Resource /\ config.static \in Seq(Attribute)
          /\ b[i] = Appended(made[i], config.static)
      BY <1>1, <1>2, ConfigFacts
    <2>2. Appended(made[i], config.static).attributes = made[i].attributes \o config.static
      <3>1. PICK x, y : made[i] = [attributes |-> x, metrics |-> y]
        BY <2>1 DEF Resource
      <3> DEFINE new == made[i].attributes \o config.static
      <3>2. Appended(made[i], config.static) = [made[i] EXCEPT !.attributes = new]
        BY DEF Appended
      <3> HIDE DEF new
      <3>3. [made[i] EXCEPT !.attributes = new].attributes = new
        BY <3>1
      <3> QED
        BY <3>2, <3>3 DEF new
    <2> QED
      BY <2>1, <2>2, AppendedFacts
  <1>4. b \in Seq(Resource) /\ Len(b) = Len(made)
    <2>1. Len(made) \in Nat /\ DOMAIN made = 1 .. Len(made)
      BY <1>1
    <2>2. b \in [1 .. Len(made) -> Resource]
      BY <1>2, <1>3, <2>1
    <2> QED
      BY <2>1, <2>2
  <1> QED
    BY <1>1, <1>3, <1>4 DEF b, made

-----------------------------------------------------------------------------
(* Init and the steps.                                                     *)

\* The poller has not polled yet.
LEMMA ConversionInit == Init => CInv
  <1> SUFFICES ASSUME Init PROVE CInv
    OBVIOUS
  <1>1. Ranges
    BY DEF Init, Ranges, Start
  <1>2. Phases
    BY DEF Init, Phases, Start
  <1>3. Measured /\ Grown /\ ExportedSoFar
    BY DEF Init, Measured, Grown, ExportedSoFar
  <1> QED
    BY <1>1, <1>2, <1>3 DEF CInv

\* What a resource has grown from depends on the configuration and the response only.
LEMMA GrownSame ==
    ASSUME config' = config, response' = response
    PROVE  /\ \A i : Base(i)' = Base(i)
           /\ \A r, base : GrownFrom(r, base)' <=> GrownFrom(r, base)
  <1>1. \A i : Base(i)' = Base(i)
    BY DEF Base, DimsOf
  <1>2. \A r, attr : OwnKey(r, attr)' <=> OwnKey(r, attr)
    BY DEF OwnKey
  <1> QED
    BY <1>1, <1>2 DEF GrownFrom

\* With the response and the batch their relation stays.
LEMMA BatchStays ==
    ASSUME CInv, UNCHANGED <<config, response, batch>>
    PROVE  Measured' /\ Grown'
  <1>1. config' = config /\ response' = response /\ batch' = batch
    OBVIOUS
  <1>2. Measured'
    BY <1>1 DEF CInv, Measured
  <1>3. Grown'
    <2>1. \A i \in DOMAIN batch : GrownFrom(batch[i], Base(i))'
      BY <1>1, GrownSame DEF CInv, Grown
    <2> QED
      BY <1>1, <2>1 DEF Grown
  <1> QED
    BY <1>2, <1>3

\* What a resource begins with is a sequence of attributes.
LEMMA BaseType ==
    ASSUME Ranges, Measured, response # Absent, NEW i \in DOMAIN batch
    PROVE  Base(i) \in Seq(Attribute) /\ DimsOf(config.kind, response, i) \in Seq(Attribute)
  <1>1. config \in Configs /\ i \in 1 .. Len(batch) /\ response \in Responses[config.kind]
    BY DEF Ranges
  <1>2. DimsOf(config.kind, response, i) \in Seq(Attribute)
    <2>1. CASE config.kind = "generic"
      BY <2>1 DEF DimsOf
    <2>2. CASE config.kind = "timeseries"
      <3>1. EventOf(response, i) \in Event
        BY <1>1, <2>2, EventFacts DEF Measured, ResourcesOf
      <3> QED
        BY <1>1, <2>2, <3>1, ConfigFacts, DimensionFacts DEF DimsOf
    <2> QED
      BY <1>1, <2>1, <2>2, ConfigFacts
  <1> HIDE DEF DimsOf
  <1>3. config.static \in Seq(Attribute)
    BY <1>1, ConfigFacts
  <1> QED
    BY <1>2, <1>3 DEF Base

\* The poller begins a poll or gives it up; there is no batch.
LEMMA RequestKeeps ==
    ASSUME CInv, GenericRequest \/ TimeseriesRequest \/ PollFails
    PROVE  CInv'
  <1>1. /\ pc \in {"idle", "polling"} /\ pc' \in {"idle", "polling"}
        /\ request' \in {"none", "get", "post"}
        /\ UNCHANGED <<config, response, batch, at, sent>>
    BY DEF GenericRequest, TimeseriesRequest, PollFails
  <1>2. Ranges' /\ Phases' /\ ExportedSoFar'
    BY <1>1 DEF CInv, Ranges, Phases, ExportedSoFar
  <1> QED
    BY <1>1, <1>2, BatchStays DEF CInv

\* The answer is in and has been made into a batch.
LEMMA PolledKeeps == ASSUME CInv, Polled PROVE CInv'
  <1>1. PICK a \in Responses[config.kind] :
           /\ response' = a
           /\ batch' = AddOtelAttributes(config, IF config.kind = "generic"
                                                 THEN Aggregate(config.aggregator, a)
                                                 ELSE Convert(config, a))
    BY DEF Polled
  <1>2. /\ pc = "polling" /\ UNCHANGED <<config, request, at, sent>>
        /\ pc' = IF config.enrichers = <<>> THEN "sending" ELSE "enriching"
    BY DEF Polled
  <1>3. config \in Configs /\ config.kind \in {"generic", "timeseries"}
        /\ config.enrichers \in Seq(Enrichers)
    BY ConfigFacts DEF CInv, Ranges
  <1>4. a # Absent
    BY <1>3, ResponseAssumption
  <1>5. /\ batch' \in Seq(Resource)
        /\ Len(batch') = ResourcesOf(config.kind, config.aggregator, a)
        /\ \A i \in 1 .. Len(batch') :
              /\ batch'[i].attributes = DimsOf(config.kind, a, i) \o config.static
              /\ batch'[i].metrics =
                    MetricsOf(config.kind, config.fields, config.aggregator, a, i)
    BY <1>1, <1>3, PolledFacts
  <1>6. at = Start /\ sent = <<>>
    BY <1>2 DEF CInv, Phases
  <1>7. Ranges'
    BY <1>1, <1>2, <1>5 DEF CInv, Ranges
  <1>8. Phases'
    <2>1. pc' = "enriching" => 1 \in DOMAIN config.enrichers
      BY <1>2, <1>3
    <2>2. Len(batch') \in Nat
      BY <1>5
    <2> QED
      BY <1>1, <1>2, <1>4, <1>6, <2>1, <2>2 DEF Phases, Start
  <1>9. DOMAIN batch' = 1 .. Len(batch')
    BY <1>5
  <1>10. Measured'
    <2>1. config' = config /\ response' = a
      BY <1>1, <1>2
    <2> QED
      BY <1>5, <1>9, <2>1 DEF Measured
  <1>11. Grown'
    <2>1. ASSUME NEW i \in DOMAIN batch' PROVE GrownFrom(batch[i], Base(i))'
      <3>1. batch'[i].attributes = Base(i)'
        BY <1>1, <1>2, <1>5, <1>9 DEF Base, DimsOf
      <3>2. Len(Base(i)') \in Nat
        <4>1. batch'[i] \in Resource
          BY <1>5, <1>9
        <4>2. batch'[i].attributes \in Seq(Attribute)
          BY <4>1 DEF Resource
        <4> QED
          BY <3>1, <4>2
      <3> QED
        BY <3>1, <3>2 DEF GrownFrom
    <2> QED
      BY <2>1 DEF Grown
  <1>12. ExportedSoFar'
    <2>1. Len(batch') \in Nat
      BY <1>5
    <2> QED
      BY <1>2, <1>6, <2>1 DEF ExportedSoFar
  <1> QED
    BY <1>7, <1>8, <1>10, <1>11, <1>12 DEF CInv

\* A resource without a key is passed over, and the next enricher begins with the first.
LEMMA SkipKeeps == ASSUME CInv, Skip \/ NextEnricher PROVE CInv'
  <1>1. /\ pc = "enriching" /\ UNCHANGED <<config, pc, request, response, batch, sent>>
    BY DEF Skip, AtResource, NextEnricher
  <1>2. /\ at' \in [enricher : Nat, resource : Nat] /\ at'.resource \in 1 .. Len(batch) + 1
        /\ at'.enricher \in DOMAIN config.enrichers
    <2>1. /\ at \in [enricher : Nat, resource : Nat] /\ at.enricher \in DOMAIN config.enrichers
          /\ Len(batch) \in Nat /\ DOMAIN batch = 1 .. Len(batch)
          /\ config.enrichers \in Seq(Enrichers)
      BY <1>1, ConfigFacts DEF CInv, Ranges, Phases
    <2>2. CASE Skip
      <3>1. at' = [at EXCEPT !.resource = @ + 1] /\ at.resource \in DOMAIN batch
        BY <2>2 DEF Skip, AtResource
      <3>2. at' = [enricher |-> at.enricher, resource |-> at.resource + 1]
        BY <2>1, <3>1
      <3> QED
        BY <2>1, <3>1, <3>2
    <2>3. CASE NextEnricher
      <3>1. at' = [enricher |-> at.enricher + 1, resource |-> 1]
            /\ at.enricher < Len(config.enrichers)
        BY <2>3 DEF NextEnricher
      <3> QED
        BY <2>1, <3>1
    <2> QED
      BY <2>2, <2>3
  <1>3. Ranges' /\ Phases' /\ ExportedSoFar'
    BY <1>1, <1>2 DEF CInv, Ranges, Phases, ExportedSoFar
  <1> QED
    BY <1>1, <1>3, BatchStays DEF CInv

\* What the API has for the key is appended to the resource, whose key stays.
LEMMA LookedUpKeeps == ASSUME CInv, LookedUp PROVE CInv'
  <1> DEFINE n == at.resource
             r == batch[n]
             k == KeyOf(Here, r)
  <1>1. PICK found \in {<<>>} \cup SetToSeqs(Known[Here][k]) :
           batch' = [batch EXCEPT ![n] = Appended(@, found)]
    BY DEF LookedUp
  <1>2. /\ pc = "enriching" /\ n \in DOMAIN batch /\ k # Absent
        /\ at' = [at EXCEPT !.resource = @ + 1]
        /\ UNCHANGED <<config, pc, request, response, sent>>
    BY DEF LookedUp, AtResource
  <1>3. /\ config \in Configs /\ config.enrichers \in Seq(Enrichers)
        /\ at \in [enricher : Nat, resource : Nat] /\ at.enricher \in DOMAIN config.enrichers
        /\ batch \in Seq(Resource) /\ Len(batch) \in Nat /\ DOMAIN batch = 1 .. Len(batch)
        /\ r \in Resource
    BY <1>2, ConfigFacts DEF CInv, Ranges, Phases
  <1>4. Here \in Enrichers /\ \E p \in DOMAIN config.enrichers : Here = config.enrichers[p]
    BY <1>3 DEF Here
  <1>5. found \in Seq(Attribute) /\ \A j \in DOMAIN found : found[j] \in Known[Here][k]
    <2>1. Known[Here][k] \in SUBSET Attribute /\ IsFiniteSet(Known[Here][k])
      BY <1>2, <1>3, <1>4, KeyType
    <2>2. CASE found = <<>>
      BY <2>2
    <2>3. CASE found \in SetToSeqs(Known[Here][k])
      <3> HIDE DEF k
      <3> QED
        BY <2>1, <2>3, OrderType
    <2> QED
      BY <1>1, <2>2, <2>3
  <1> DEFINE q == Appended(r, found)
  <1>6. /\ q \in Resource /\ q.metrics = r.metrics
        /\ Len(q.attributes) = Len(r.attributes) + Len(found)
        /\ \A j \in 1 .. Len(r.attributes) : q.attributes[j] = r.attributes[j]
        /\ \A j \in 1 .. Len(found) : q.attributes[Len(r.attributes) + j] = found[j]
    BY <1>3, <1>5, AppendedFacts
  <1>7. \A e \in Enrichers : KeyOf(e, r) # Absent => KeyOf(e, q) = KeyOf(e, r)
    BY <1>3, <1>5, KeyStable
  <1>8. batch' = [batch EXCEPT ![n] = q]
    BY <1>1
  <1> HIDE DEF q, r
  <1>9. /\ batch' \in Seq(Resource) /\ Len(batch') = Len(batch) /\ DOMAIN batch' = DOMAIN batch
        /\ batch'[n] = q /\ \A i \in DOMAIN batch : i # n => batch'[i] = batch[i]
    BY <1>2, <1>3, <1>6, <1>8
  <1>10. Ranges' /\ Phases'
    <2>1. at' = [enricher |-> at.enricher, resource |-> at.resource + 1]
      BY <1>2, <1>3
    <2>2. at' \in [enricher : Nat, resource : Nat] /\ at'.resource \in 1 .. Len(batch') + 1
          /\ at'.enricher \in DOMAIN config.enrichers
      BY <1>2, <1>3, <1>9, <2>1
    <2> QED
      BY <1>2, <1>9, <2>2 DEF CInv, Ranges, Phases
  <1>11. Measured'
    <2>1. ASSUME NEW i \in DOMAIN batch PROVE batch'[i].metrics = batch[i].metrics
      BY <1>6, <1>9 DEF r
    <2> QED
      BY <1>2, <1>9, <2>1 DEF CInv, Measured
  <1>12. Grown'
    <2>1. ASSUME NEW i \in DOMAIN batch PROVE GrownFrom(batch'[i], Base(i))
      <3>1. CASE i # n
        BY <1>9, <3>1 DEF CInv, Grown
      <3>2. CASE i = n
        <4>1. GrownFrom(r, Base(n))
          BY <1>2 DEF CInv, Grown, r
        <4>2. ASSUME NEW attr, OwnKey(r, attr) PROVE OwnKey(q, attr)
          <5>1. PICK p \in DOMAIN config.enrichers :
                   /\ KeyOf(config.enrichers[p], r) # Absent
                   /\ attr \in Known[config.enrichers[p]][KeyOf(config.enrichers[p], r)]
            BY <4>2 DEF OwnKey
          <5>2. config.enrichers[p] \in Enrichers
            BY <1>3
          <5>3. KeyOf(config.enrichers[p], q) = KeyOf(config.enrichers[p], r)
            BY <1>7, <5>1, <5>2
          <5> QED
            BY <5>1, <5>3 DEF OwnKey
        <4>3. ASSUME NEW j \in 1 .. Len(found) PROVE OwnKey(q, found[j])
          <5>1. found[j] \in Known[Here][k]
            BY <1>5
          <5>2. KeyOf(Here, q) = k
            BY <1>2, <1>4, <1>7 DEF r
          <5> HIDE DEF k
          <5> QED
            BY <1>2, <1>4, <5>1, <5>2 DEF OwnKey
        <4>4. Len(r.attributes) \in Nat /\ Len(found) \in Nat /\ Len(Base(n)) \in Int
          <5>1. r.attributes \in Seq(Attribute)
            BY <1>3 DEF Resource, r
          <5>2. Base(n) \in Seq(Attribute)
            BY <1>2, BaseType DEF CInv, Phases
          <5> QED
            BY <1>5, <5>1, <5>2
        <4>5. ASSUME NEW j \in 1 .. Len(q.attributes), j > Len(Base(n))
              PROVE  OwnKey(q, q.attributes[j])
          <5>1. CASE j <= Len(r.attributes)
            <6>1. j \in 1 .. Len(r.attributes) /\ q.attributes[j] = r.attributes[j]
              BY <1>6, <4>4, <5>1
            <6> QED
              BY <4>1, <4>2, <4>5, <6>1 DEF GrownFrom
          <5>2. CASE j > Len(r.attributes)
            <6>1. /\ j - Len(r.attributes) \in 1 .. Len(found)
                  /\ j = Len(r.attributes) + (j - Len(r.attributes))
              BY <1>6, <4>4, <5>2
            <6> QED
              BY <1>6, <4>3, <6>1
          <5> QED
            BY <4>4, <5>1, <5>2
        <4>6. /\ Len(Base(n)) <= Len(q.attributes)
              /\ \A j \in 1 .. Len(Base(n)) : q.attributes[j] = Base(n)[j]
          BY <1>6, <4>1, <4>4 DEF GrownFrom
        <4> QED
          BY <1>9, <3>2, <4>5, <4>6 DEF GrownFrom
      <3> QED
        BY <3>1, <3>2
    <2>2. config' = config /\ response' = response
      BY <1>2
    <2> QED
      BY <1>9, <2>1, <2>2, GrownSame DEF Grown
  <1>13. ExportedSoFar'
    BY <1>2, <1>3, <1>9 DEF CInv, Phases, ExportedSoFar
  <1> QED
    BY <1>10, <1>11, <1>12, <1>13 DEF CInv

\* Enrichment ends, all done or out of time.
LEMMA EnrichedKeeps == ASSUME CInv, Enriched \/ TimedOut PROVE CInv'
  <1>1. /\ pc = "enriching" /\ pc' = "sending" /\ at' = Start
        /\ UNCHANGED <<config, request, response, batch, sent>>
    BY DEF Enriched, TimedOut, AtResource
  <1>2. Len(batch) \in Nat
    BY DEF CInv, Ranges
  <1>3. Ranges' /\ Phases' /\ ExportedSoFar'
    BY <1>1, <1>2 DEF CInv, Ranges, Phases, ExportedSoFar, Start
  <1> QED
    BY <1>1, <1>3, BatchStays DEF CInv

\* The next resource is exported with the attribute of the merger.
LEMMA ExportKeeps == ASSUME CInv, Export PROVE CInv'
  <1> DEFINE q == Appended(batch[Len(sent) + 1], <<SdkAttribute>>)
  <1>1. /\ pc = "sending" /\ Len(sent) < Len(batch) /\ sent' = Append(sent, q)
        /\ UNCHANGED <<config, pc, request, response, batch, at>>
    BY DEF Export
  <1>2. /\ sent \in Seq(Resource) /\ Len(sent) \in Nat
        /\ batch \in Seq(Resource) /\ Len(batch) \in Nat
    BY DEF CInv, Ranges
  <1>3. q \in Resource
    <2>1. batch[Len(sent) + 1] \in Resource
      BY <1>1, <1>2
    <2>2. <<SdkAttribute>> \in Seq(Attribute)
      BY ConversionAssumption
    <2> QED
      BY <2>1, <2>2, AppendedFacts
  <1>4. ASSUME NEW i \in DOMAIN sent'
        PROVE  sent'[i] = Appended(batch'[i], <<SdkAttribute>>)
    <2>1. CASE i = Len(sent) + 1
      <3>1. sent'[i] = q
        <4> HIDE DEF q
        <4> QED
          BY <1>1, <1>2, <1>3, <2>1
      <3> QED
        BY <1>1, <2>1, <3>1
    <2>2. CASE i # Len(sent) + 1
      <3>1. i \in DOMAIN sent /\ sent'[i] = sent[i]
        <4> HIDE DEF q
        <4> QED
          BY <1>1, <1>2, <1>3, <1>4, <2>2
      <3> QED
        BY <1>1, <3>1 DEF CInv, ExportedSoFar
    <2> QED
      BY <2>1, <2>2
  <1> HIDE DEF q
  <1>5. sent' \in Seq(Resource) /\ Len(sent') = Len(sent) + 1
    BY <1>1, <1>2, <1>3
  <1>6. Ranges' /\ Phases'
    BY <1>1, <1>5 DEF CInv, Ranges, Phases
  <1>7. ExportedSoFar'
    BY <1>1, <1>2, <1>4, <1>5 DEF ExportedSoFar
  <1> QED
    BY <1>1, <1>6, <1>7, BatchStays DEF CInv

\* The batch is done with.
LEMMA ExportedKeeps == ASSUME CInv, Exported PROVE CInv'
  <1>1. /\ pc = "sending" /\ pc' = "idle" /\ request' = "none" /\ response' = Absent
        /\ batch' = <<>> /\ sent' = <<>> /\ UNCHANGED <<config, at>>
    BY DEF Exported
  <1>2. at = Start
    BY <1>1 DEF CInv, Phases
  <1>3. Ranges' /\ Phases'
    BY <1>1, <1>2 DEF CInv, Ranges, Phases, Start
  <1>4. Measured' /\ Grown' /\ ExportedSoFar'
    BY <1>1 DEF Measured, Grown, ExportedSoFar
  <1> QED
    BY <1>3, <1>4 DEF CInv

\* Every step preserves the invariant.
LEMMA ConversionNext == ASSUME CInv, [Next]_vars PROVE CInv'
  <1>1. CASE UNCHANGED vars
    <2>1. UNCHANGED <<config, pc, request, response, batch, at, sent>>
      BY <1>1 DEF vars
    <2>2. Ranges' /\ Phases' /\ ExportedSoFar'
      BY <2>1 DEF CInv, Ranges, Phases, ExportedSoFar
    <2> QED
      BY <2>1, <2>2, BatchStays DEF CInv
  <1> QED
    BY <1>1, RequestKeeps, PolledKeeps, SkipKeeps, LookedUpKeeps, EnrichedKeeps, ExportKeeps,
       ExportedKeeps DEF Next

-----------------------------------------------------------------------------
(* The invariant, and what follows from it.                                *)

\* Every reachable state satisfies the invariant: the batch and what has been exported
\* of it stay made of the response the poller took (timeseries_poller.rs 41-118,
\* intersight_poller.rs 95-112, attribute_enricher.rs 57-106, metric_merger.rs 73-114).
THEOREM ConversionInvariance == Spec => []CInv
  BY ConversionInit, ConversionNext, PTL DEF Spec

\* There is an event for every resource of a timeseries poll.
LEMMA OriginFacts ==
    ASSUME CInv, Timeseries, NEW i \in DOMAIN batch
    PROVE  /\ EventOf(response, i) \in Event /\ Origin(i) = EventOf(response, i)
           /\ batch[i].metrics = FieldMetrics(config.fields, EventOf(response, i))
  <1>1. /\ config.kind = "timeseries" /\ response \in Responses["timeseries"]
        /\ i \in 1 .. Len(batch)
    BY DEF CInv, Ranges, Timeseries
  <1>2. i \in 1 .. Cardinality(GoodIn(response))
    BY <1>1 DEF CInv, Measured, ResourcesOf, Timeseries
  <1>3. EventOf(response, i) \in Event
    BY <1>1, <1>2, EventFacts
  <1>4. Origin(i) = EventOf(response, i)
    BY DEF Origin, EventOf, Nth, Rank, Good, GoodIn
  <1> QED
    BY <1>1, <1>3, <1>4 DEF CInv, Measured, MetricsOf

\* An exported resource: what it has to begin with, what has been appended, and one more.
LEMMA SentFacts ==
    ASSUME CInv, NEW i \in DOMAIN sent
    PROVE  /\ i \in DOMAIN batch /\ response # Absent
           /\ batch[i] \in Resource /\ sent[i] \in Resource
           /\ sent[i] = Appended(batch[i], <<SdkAttribute>>) /\ sent[i].metrics = batch[i].metrics
           /\ batch[i].attributes \in Seq(Attribute) /\ sent[i].attributes \in Seq(Attribute)
           /\ Len(sent[i].attributes) = Len(batch[i].attributes) + 1
           /\ \A n \in 1 .. Len(batch[i].attributes) :
                 sent[i].attributes[n] = batch[i].attributes[n]
           /\ Base(i) \in Seq(Attribute) /\ DimsOf(config.kind, response, i) \in Seq(Attribute)
           /\ GrownFrom(batch[i], Base(i))
           /\ Len(Base(i)) <= Len(sent[i].attributes)
           /\ \A n \in 1 .. Len(Base(i)) : sent[i].attributes[n] = Base(i)[n]
  <1>1. /\ sent \in Seq(Resource) /\ batch \in Seq(Resource)
        /\ Len(sent) <= Len(batch) /\ sent[i] = Appended(batch[i], <<SdkAttribute>>)
    BY DEF CInv, Ranges, ExportedSoFar
  <1>2. i \in DOMAIN batch /\ batch[i] \in Resource /\ sent[i] \in Resource /\ batch # <<>>
    BY <1>1
  <1>3. response # Absent
    BY <1>2 DEF CInv, Phases
  <1> DEFINE one == <<SdkAttribute>>
  <1>4. one \in Seq(Attribute) /\ Len(one) = 1
    BY ConversionAssumption
  <1> HIDE DEF one
  <1>5. /\ sent[i].metrics = batch[i].metrics
        /\ Len(sent[i].attributes) = Len(batch[i].attributes) + 1
        /\ \A n \in 1 .. Len(batch[i].attributes) :
              sent[i].attributes[n] = batch[i].attributes[n]
    <2> DEFINE r == batch[i]
               q == Appended(r, one)
    <2>1. sent[i] = q /\ r \in Resource
      BY <1>1, <1>2 DEF one
    <2> HIDE DEF r
    <2>2. /\ q.metrics = r.metrics
          /\ Len(q.attributes) = Len(r.attributes) + Len(one)
          /\ \A n \in 1 .. Len(r.attributes) : q.attributes[n] = r.attributes[n]
      BY <1>4, <2>1, AppendedFacts
    <2> HIDE DEF q
    <2> QED
      BY <1>4, <2>1, <2>2 DEF r
  <1>6. batch[i].attributes \in Seq(Attribute) /\ sent[i].attributes \in Seq(Attribute)
    BY <1>2 DEF Resource
  <1>7. Base(i) \in Seq(Attribute) /\ DimsOf(config.kind, response, i) \in Seq(Attribute)
    BY <1>2, <1>3, BaseType DEF CInv
  <1>8. GrownFrom(batch[i], Base(i))
    BY <1>2 DEF CInv, Grown
  <1>9. /\ Len(Base(i)) <= Len(sent[i].attributes)
        /\ \A n \in 1 .. Len(Base(i)) : sent[i].attributes[n] = Base(i)[n]
    <2>1. /\ Len(Base(i)) <= Len(batch[i].attributes)
          /\ \A n \in 1 .. Len(Base(i)) : batch[i].attributes[n] = Base(i)[n]
      BY <1>8 DEF GrownFrom
    <2>2. Len(Base(i)) \in Nat /\ Len(batch[i].attributes) \in Nat
      BY <1>6, <1>7
    <2>3. ASSUME NEW n \in 1 .. Len(Base(i)) PROVE sent[i].attributes[n] = Base(i)[n]
      <3>1. n \in 1 .. Len(batch[i].attributes)
        BY <2>1, <2>2
      <3> QED
        BY <1>5, <2>1, <3>1
    <2> QED
      BY <1>5, <2>1, <2>2, <2>3
  <1> QED
    BY <1>1, <1>2, <1>3, <1>5, <1>6, <1>7, <1>8, <1>9

\* If no field is configured twice no resource has two metrics of one name.
LEMMA NamesDistinct ==
    ASSUME CInv, NEW i \in DOMAIN batch,
           \A n, m \in DOMAIN config.fields : config.fields[n] = config.fields[m] => n = m
    PROVE  \A n, m \in DOMAIN batch[i].metrics :
              batch[i].metrics[n].name = batch[i].metrics[m].name => n = m
  <1>1. /\ config \in Configs /\ batch \in Seq(Resource) /\ batch[i] \in Resource
        /\ batch # <<>>
    BY DEF CInv, Ranges
  <1>2. response # Absent /\ config.kind \in {"generic", "timeseries"}
    BY <1>1, ConfigFacts DEF CInv, Phases
  <1>3. batch[i].metrics \in Seq(Metric)
    BY <1>1 DEF Resource
  <1>4. CASE config.kind = "generic"
    <2> DEFINE m == [name |-> "count", value |-> CountOf(config.aggregator, response)]
    <2>1. batch[i].metrics = <<m>>
      BY <1>4 DEF CInv, Measured, MetricsOf
    <2> HIDE DEF m
    <2>2. DOMAIN batch[i].metrics = {1}
      BY <2>1
    <2> QED
      BY <2>2
  <1>5. CASE config.kind = "timeseries"
    <2>1. /\ EventOf(response, i) \in Event
          /\ batch[i].metrics = FieldMetrics(config.fields, EventOf(response, i))
      BY <1>2, <1>5, OriginFacts DEF Timeseries
    <2> DEFINE fields == config.fields
               made == FieldMetrics(fields, EventOf(response, i))
    <2>2. fields \in Seq(Columns)
      BY <1>1, ConfigFacts
    <2>3. \A n, m \in DOMAIN fields : fields[n] = fields[m] => n = m
      OBVIOUS
    <2> HIDE DEF fields
    <2>4. \A k, l \in 1 .. Len(made) : made[k].name = made[l].name => k = l
      BY <2>1, <2>2, <2>3, FieldFacts
    <2>5. batch[i].metrics = made
      BY <2>1 DEF fields
    <2> HIDE DEF made
    <2> QED
      BY <1>3, <2>4, <2>5
  <1> QED
    BY <1>2, <1>4, <1>5

\* The variables have their types: in particular no resource ever carries two metrics of
\* one name, as long as the configuration does not name a field twice.
THEOREM ConversionTypeCorrect == Spec => []TypeOK
  <1>1. CInv => TypeOK
    <2> SUFFICES ASSUME CInv PROVE TypeOK
      OBVIOUS
    <2> DEFINE Fine(b) == \A i \in DOMAIN b :
                  /\ b[i] \in [attributes : Seq(Attribute), metrics : Seq(Metric)]
                  /\ (\A n, m \in DOMAIN config.fields :
                         config.fields[n] = config.fields[m] => n = m)
                     => \A n, m \in DOMAIN b[i].metrics :
                           b[i].metrics[n].name = b[i].metrics[m].name => n = m
    <2>1. Fine(batch)
      <3>1. \A i \in DOMAIN batch : batch[i] \in Resource
        BY DEF CInv, Ranges
      <3> QED
        BY <3>1, NamesDistinct DEF Resource
    <2>2. Fine(sent)
      <3>1. \A i \in DOMAIN sent : /\ i \in DOMAIN batch /\ sent[i] \in Resource
                                   /\ sent[i].metrics = batch[i].metrics
        BY SentFacts
      <3> QED
        BY <2>1, <3>1 DEF Resource
    <2>3. \A b \in {batch, sent} : Fine(b)
      BY <2>1, <2>2
    <2> QED
      BY <2>3 DEF CInv, Ranges, Phases, TypeOK
  <1> QED
    BY <1>1, ConversionInvariance, PTL

\* Whatever the response, and however many of its results and fields are unusable, the
\* collector gets each usable field as often as it is configured, with the resource of its
\* own result, and a resource for every result with an event; and of a generic response
\* its count if there is one (timeseries_poller.rs 41-118, generic_poller.rs 51-123,
\* metric_merger.rs 73-114).
THEOREM AlwaysExportedFaithfully == Spec => []ExportedFaithfully
  <1>1. CInv => ExportedFaithfully
    <2> SUFFICES ASSUME CInv PROVE ExportedFaithfully
      OBVIOUS
    <2>1. config.fields \in Seq(Columns)
      BY ConfigFacts DEF CInv, Ranges
    <2>2. ASSUME Timeseries, NEW i \in DOMAIN sent, NEW m \in Metric
          PROVE  Times(m, sent[i].metrics) =
                     IF m.name \in Columns /\ Origin(i)[m.name] = m.value
                     THEN Times(m.name, config.fields) ELSE 0
      <3>1. i \in DOMAIN batch /\ sent[i].metrics = batch[i].metrics
        BY SentFacts
      <3>2. /\ Origin(i) \in Event
            /\ sent[i].metrics = FieldMetrics(config.fields, Origin(i))
        BY <2>2, <3>1, OriginFacts
      <3> DEFINE o == Origin(i)
                 fields == config.fields
      <3>3. o \in Event /\ fields \in Seq(Columns)
        BY <2>1, <3>2
      <3> HIDE DEF o, fields
      <3>4. Times(m, FieldMetrics(fields, o)) =
                IF m.name \in Columns /\ o[m.name] = m.value THEN Times(m.name, fields) ELSE 0
        BY <3>3, FieldFacts
      <3> QED
        BY <3>2, <3>4 DEF o, fields
    <2>3. Timeseries => Len(batch) = Cardinality(Good)
      BY DEF CInv, Measured, ResourcesOf, Timeseries, Good, GoodIn
    <2>4. ASSUME Generic, NEW i \in DOMAIN sent
          PROVE  sent[i].metrics = <<[name |-> "count", value |-> Counted]>>
      <3>1. i \in DOMAIN batch /\ sent[i].metrics = batch[i].metrics
        BY SentFacts
      <3> QED
        BY <2>4, <3>1 DEF CInv, Measured, MetricsOf, Generic, CountOf, Counted
    <2>5. Generic => Len(batch) = IF Counted = Malformed THEN 0 ELSE 1
      BY DEF CInv, Measured, ResourcesOf, Generic, CountOf, Counted
    <2> QED
      BY <2>2, <2>3, <2>4, <2>5 DEF ExportedFaithfully, AllSent
  <1> QED
    BY <1>1, ConversionInvariance, PTL

-----------------------------------------------------------------------------
(* What describes a result.                                                *)

\* A reader finds the value of the first attribute of the name.
LEMMA FindsFirst ==
    ASSUME NEW r \in Resource, NEW key, NEW i, FirstOf(r.attributes, key, i)
    PROVE  Finds(r, key) = {r.attributes[i].value}
  <1> DEFINE attrs == r.attributes
             named == {n \in DOMAIN attrs : attrs[n].key = key}
  <1>1. attrs \in Seq(Attribute)
    BY DEF Resource
  <1>2. i \in named /\ \A k \in named : i <= k /\ k \in Nat /\ i \in Nat
    BY <1>1 DEF FirstOf
  <1> HIDE DEF named
  <1>3. {j \in named : \A k \in named : j <= k} = {i}
    BY <1>2
  <1>4. Finds(r, key) = {attrs[j].value : j \in {j \in named : \A k \in named : j <= k}}
    BY DEF Finds, named
  <1> QED
    BY <1>3, <1>4

\* The dimensions the event of the i-th resource has.
Mapped(i) == IF Timeseries
             THEN {d \in {config.dims[n] : n \in DOMAIN config.dims} :
                      Origin(i)[d.dimension] # Absent}
             ELSE {}

\* The dimensions of a resource are those of its event, each under its attribute.
LEMMA MappedFacts ==
    ASSUME CInv, NEW i \in DOMAIN sent
    PROVE  LET made == DimsOf(config.kind, response, i)
           IN  /\ \A k \in 1 .. Len(made) : \E g \in Mapped(i) :
                     /\ made[k].key = g.attribute
                     /\ made[k].value = Text(Origin(i)[g.dimension])
               /\ \A d \in Mapped(i) : \E k \in 1 .. Len(made) : made[k].key = d.attribute
  <1> DEFINE made == DimsOf(config.kind, response, i)
             dims == config.dims
             event == Origin(i)
  <1>1. i \in DOMAIN batch /\ response # Absent /\ config \in Configs
    BY SentFacts DEF CInv, Ranges
  <1>2. dims \in Seq(Dimension) /\ config.kind \in {"generic", "timeseries"}
    BY <1>1, ConfigFacts
  <1>3. CASE config.kind = "generic"
    <2>1. Mapped(i) = {} /\ made = <<>>
      BY <1>3 DEF Mapped, Timeseries, DimsOf
    <2> HIDE DEF made
    <2>2. 1 .. Len(made) = {}
      BY <2>1
    <2> QED
      BY <2>1, <2>2 DEF made
  <1>4. CASE config.kind = "timeseries"
    <2>1. Timeseries
      BY <1>1, <1>4 DEF Timeseries
    <2>2. event \in Event /\ made = DimensionAttributes(dims, event)
      BY <1>1, <1>4, <2>1, OriginFacts DEF DimsOf
    <2>3. Mapped(i) = {d \in {dims[n] : n \in DOMAIN dims} : event[d.dimension] # Absent}
      BY <2>1 DEF Mapped
    <2> HIDE DEF made, dims, event
    <2>4. /\ \A k \in 1 .. Len(made) : \E n \in DOMAIN dims :
                /\ event[dims[n].dimension] # Absent /\ made[k].key = dims[n].attribute
                /\ made[k].value = Text(event[dims[n].dimension])
          /\ \A n \in DOMAIN dims : event[dims[n].dimension] # Absent =>
                \E k \in 1 .. Len(made) : made[k].key = dims[n].attribute
      BY <1>2, <2>2, DimensionFacts
    <2>5. ASSUME NEW k \in 1 .. Len(made)
          PROVE  \E g \in Mapped(i) : /\ made[k].key = g.attribute
                                      /\ made[k].value = Text(event[g.dimension])
      BY <2>3, <2>4
    <2>6. ASSUME NEW d \in Mapped(i)
          PROVE  \E k \in 1 .. Len(made) : made[k].key = d.attribute
      BY <2>3, <2>4
    <2> QED
      BY <2>5, <2>6 DEF made, event
  <1> QED
    BY <1>2, <1>3, <1>4

\* Whatever the enrichers append, repeated and failing lookups and the timeout included,
\* a reader finds the result's own dimensions first and then the poller's static
\* attributes (timeseries_poller.rs 47-63, intersight_poller.rs 95-112 and 196-207).
THEOREM AlwaysDescribed == Spec => []Described
  <1>1. CInv => Described
    <2> SUFFICES ASSUME CInv, NEW i \in DOMAIN sent
                 PROVE  /\ \A d \in Mapped(i) : \E g \in Mapped(i) :
                              /\ g.attribute = d.attribute
                              /\ Finds(sent[i], d.attribute) = {Text(Origin(i)[g.dimension])}
                        /\ \A n \in DOMAIN config.static :
                              config.static[n].key \notin {d.attribute : d \in Mapped(i)} =>
                                 Finds(sent[i], config.static[n].key) = {config.static[n].value}
      BY DEF Described, Mapped
    <2> DEFINE made == DimsOf(config.kind, response, i)
               static == config.static
               base == Base(i)
               attrs == sent[i].attributes
    <2>1. /\ sent[i] \in Resource /\ attrs \in Seq(Attribute)
          /\ base \in Seq(Attribute) /\ made \in Seq(Attribute) /\ base = made \o static
          /\ Len(base) <= Len(attrs) /\ \A n \in 1 .. Len(base) : attrs[n] = base[n]
      BY SentFacts DEF Base
    <2>2. /\ static \in Seq(Attribute)
          /\ \A n, m \in DOMAIN static : static[n].key = static[m].key => n = m
      BY ConfigFacts DEF CInv, Ranges
    <2>3. /\ \A k \in 1 .. Len(made) : \E g \in Mapped(i) :
                made[k].key = g.attribute /\ made[k].value = Text(Origin(i)[g.dimension])
          /\ \A d \in Mapped(i) : \E k \in 1 .. Len(made) : made[k].key = d.attribute
      BY MappedFacts
    <2> HIDE DEF made, static, base, attrs
    <2>4. /\ Len(base) = Len(made) + Len(static) /\ Len(made) \in Nat /\ Len(static) \in Nat
          /\ \A n \in 1 .. Len(made) : base[n] = made[n]
          /\ \A n \in 1 .. Len(static) : base[Len(made) + n] = static[n]
      BY <2>1, <2>2
    <2>5. ASSUME NEW key, NEW n, FirstOf(base, key, n)
          PROVE  Finds(sent[i], key) = {base[n].value}
      <3>1. FirstOf(attrs, key, n)
        <4>1. /\ base \in Seq(Attribute) /\ attrs \in Seq(Attribute)
              /\ Len(base) <= Len(attrs) /\ \A m \in 1 .. Len(base) : attrs[m] = base[m]
          BY <2>1
        <4> QED
          BY <2>5, <4>1, FirstOfLonger
      <3>2. attrs[n] = base[n]
        BY <2>1, <2>5 DEF FirstOf
      <3>3. FirstOf(sent[i].attributes, key, n) /\ sent[i].attributes[n] = base[n]
        BY <3>1, <3>2 DEF attrs
      <3>4. sent[i] \in Resource
        BY <2>1
      <3>5. Finds(sent[i], key) = {sent[i].attributes[n].value}
        BY <3>3, <3>4, FindsFirst
      <3> QED
        BY <3>3, <3>5
    <2>6. ASSUME NEW d \in Mapped(i)
          PROVE  \E g \in Mapped(i) :
                    /\ g.attribute = d.attribute
                    /\ Finds(sent[i], d.attribute) = {Text(Origin(i)[g.dimension])}
      <3>1. PICK k \in 1 .. Len(made) : made[k].key = d.attribute
        BY <2>3
      <3>2. PICK n \in 1 .. k : FirstOf(made, d.attribute, n)
        BY <2>1, <3>1, FirstExists
      <3>3. n \in 1 .. Len(made) /\ made[n].key = d.attribute /\ base[n] = made[n]
        BY <2>4, <3>2 DEF FirstOf
      <3>4. FirstOf(base, d.attribute, n)
        <4>1. /\ base \in Seq(Attribute) /\ made \in Seq(Attribute)
              /\ Len(made) <= Len(base) /\ \A m \in 1 .. Len(made) : base[m] = made[m]
          BY <2>1, <2>4
        <4> QED
          BY <3>2, <4>1, FirstOfLonger
      <3>5. PICK g \in Mapped(i) :
               made[n].key = g.attribute /\ made[n].value = Text(Origin(i)[g.dimension])
        BY <2>3, <3>3
      <3>6. Finds(sent[i], d.attribute) = {base[n].value}
        BY <2>5, <3>4
      <3> QED
        BY <3>3, <3>5, <3>6
    <2>7. ASSUME NEW n \in DOMAIN static, static[n].key \notin {d.attribute : d \in Mapped(i)}
          PROVE  Finds(sent[i], static[n].key) = {static[n].value}
      <3> DEFINE place == Len(made) + n
      <3>1. n \in 1 .. Len(static)
        BY <2>2
      <3>2. place \in 1 .. Len(base) /\ base[place] = static[n]
        BY <2>4, <3>1
      <3>3. ASSUME NEW j \in 1 .. Len(base), base[j].key = static[n].key
            PROVE  place <= j
        <4>1. CASE j <= Len(made)
          <5>1. j \in 1 .. Len(made) /\ made[j].key = static[n].key
            BY <2>4, <3>3, <4>1
          <5>2. PICK g \in Mapped(i) : made[j].key = g.attribute
            BY <2>3, <5>1
          <5> QED
            BY <2>7, <5>1, <5>2
        <4>2. CASE j > Len(made)
          <5> DEFINE m == j - Len(made)
          <5>1. m \in 1 .. Len(static) /\ j = Len(made) + m
            BY <2>4, <3>1, <4>2
          <5> HIDE DEF m
          <5>2. static[m].key = static[n].key
            BY <2>4, <3>3, <5>1
          <5>3. m = n
            BY <2>2, <5>1, <5>2
          <5> QED
            BY <2>4, <3>1, <5>1, <5>3
        <4> QED
          BY <2>4, <4>1, <4>2
      <3>4. FirstOf(base, static[n].key, place)
        BY <3>2, <3>3 DEF FirstOf
      <3>5. Finds(sent[i], static[n].key) = {base[place].value}
        BY <2>5, <3>4
      <3> QED
        BY <3>2, <3>5
    <2> QED
      BY <2>6, <2>7 DEF static
  <1> QED
    BY <1>1, ConversionInvariance, PTL

-----------------------------------------------------------------------------
(* What enrichment adds.                                                   *)

\* Whatever attributes other enrichers and other resources of the batch get, everything
\* added to a resource is what the API has for a key of that resource
\* (attribute_enricher.rs 57-106).
THEOREM AlwaysEnrichedByOwnKey == Spec => []EnrichedByOwnKey
  <1>1. CInv => EnrichedByOwnKey
    <2> SUFFICES ASSUME CInv, NEW i \in DOMAIN sent
                 PROVE  LET attrs == sent[i].attributes
                            own   == Len(config.static)
                                     + (IF Timeseries
                                        THEN Len(DimensionAttributes(config.dims, Origin(i)))
                                        ELSE 0)
                        IN  \A n \in own + 1 .. Len(attrs) - 1 : OwnKey(sent[i], attrs[n])
      BY DEF EnrichedByOwnKey, OwnKey
    <2> DEFINE attrs == sent[i].attributes
               before == batch[i].attributes
               made == DimsOf(config.kind, response, i)
               static == config.static
               own == Len(static) + (IF Timeseries
                                     THEN Len(DimensionAttributes(config.dims, Origin(i)))
                                     ELSE 0)
    <2>1. /\ i \in DOMAIN batch /\ response # Absent
          /\ batch[i] \in Resource /\ sent[i] = Appended(batch[i], <<SdkAttribute>>)
          /\ before \in Seq(Attribute) /\ Len(attrs) = Len(before) + 1
          /\ \A n \in 1 .. Len(before) : attrs[n] = before[n]
          /\ made \in Seq(Attribute) /\ Base(i) = made \o static /\ GrownFrom(batch[i], Base(i))
      BY SentFacts DEF Base
    <2>2. /\ config.kind \in {"generic", "timeseries"} /\ static \in Seq(Attribute)
          /\ config.enrichers \in Seq(Enrichers)
      BY ConfigFacts DEF CInv, Ranges
    <2>3. own = Len(Base(i)) /\ Len(Base(i)) \in Nat
      <3>1. Len(Base(i)) = Len(made) + Len(static) /\ Len(made) \in Nat /\ Len(static) \in Nat
        <4> HIDE DEF made, static
        <4> QED
          BY <2>1, <2>2
      <3>2. CASE config.kind = "generic"
        <4>1. ~Timeseries /\ Len(made) = 0
          BY <3>2 DEF Timeseries, DimsOf
        <4> HIDE DEF made, static
        <4> QED
          BY <3>1, <4>1
      <3>3. CASE config.kind = "timeseries"
        <4>1. Timeseries
          BY <2>1, <3>3 DEF Timeseries
        <4>2. made = DimensionAttributes(config.dims, Origin(i))
          BY <2>1, <3>3, <4>1, OriginFacts DEF DimsOf
        <4> HIDE DEF made, static
        <4> QED
          BY <3>1, <4>1, <4>2
      <3> QED
        BY <2>2, <3>2, <3>3
    <2>4. ASSUME NEW n \in own + 1 .. Len(attrs) - 1 PROVE OwnKey(sent[i], attrs[n])
      <3> HIDE DEF own
      <3>1. n \in 1 .. Len(before) /\ n > Len(Base(i))
        <4>1. Len(attrs) = Len(before) + 1 /\ Len(before) \in Nat
          BY <2>1
        <4>2. Len(Base(i)) \in Nat /\ own = Len(Base(i))
          BY <2>3
        <4>3. n \in Int /\ n >= own + 1 /\ n <= Len(attrs) - 1
          BY <2>4, <4>1, <4>2
        <4> QED
          BY <4>1, <4>2, <4>3
      <3>2. OwnKey(batch[i], before[n]) /\ attrs[n] = before[n]
        BY <2>1, <3>1 DEF GrownFrom
      <3>3. PICK p \in DOMAIN config.enrichers :
               /\ KeyOf(config.enrichers[p], batch[i]) # Absent
               /\ before[n] \in Known[config.enrichers[p]][KeyOf(config.enrichers[p], batch[i])]
        BY <3>2 DEF OwnKey
      <3>4. config.enrichers[p] \in Enrichers
        BY <2>2
      <3> DEFINE one == <<SdkAttribute>>
      <3>5. one \in Seq(Attribute) /\ sent[i] = Appended(batch[i], one)
        BY <2>1, ConversionAssumption
      <3> HIDE DEF one
      <3>6. KeyOf(config.enrichers[p], sent[i]) = KeyOf(config.enrichers[p], batch[i])
        <4>1. batch[i] \in Resource /\ KeyOf(config.enrichers[p], batch[i]) # Absent
          BY <2>1, <3>3
        <4>2. \A e \in Enrichers : KeyOf(e, batch[i]) # Absent =>
                 KeyOf(e, Appended(batch[i], one)) = KeyOf(e, batch[i])
          BY <3>5, <4>1, KeyStable
        <4> QED
          BY <3>4, <3>5, <4>1, <4>2
      <3> QED
        BY <3>2, <3>3, <3>6 DEF OwnKey
    <2> QED
      BY <2>4
  <1> QED
    BY <1>1, ConversionInvariance, PTL

\* However long enrichment goes on, the value an enricher reads off a resource stays what
\* it was when the resource was made (attribute_enricher.rs 59-69 and 93-101).
THEOREM SourceNeverChanges == Spec => SourceStable
  <1> DEFINE Stays == \A e \in Enrichers, i \in DOMAIN batch :
                 batch' # <<>> /\ Source(e, batch[i]) # Absent =>
                     Source(e, batch'[i]) = Source(e, batch[i])
  <1>1. CInv /\ [Next]_vars => [Stays]_vars
    <2> SUFFICES ASSUME CInv, Next PROVE Stays
      OBVIOUS
    <2>1. CASE batch' = batch
      BY <2>1
    <2>2. CASE Polled
      <3>1. batch = <<>>
        BY <2>2 DEF Polled, CInv, Phases
      <3> QED
        BY <3>1
    <2>3. CASE LookedUp
      <3> DEFINE n == at.resource
                 k == KeyOf(Here, batch[n])
      <3>1. PICK found \in {<<>>} \cup SetToSeqs(Known[Here][k]) :
               batch' = [batch EXCEPT ![n] = Appended(@, found)]
        BY <2>3 DEF LookedUp
      <3>2. /\ pc = "enriching" /\ n \in DOMAIN batch /\ k # Absent
        BY <2>3 DEF LookedUp, AtResource
      <3>3. batch \in Seq(Resource) /\ batch[n] \in Resource /\ Here \in Enrichers
        BY <3>2, ConfigFacts DEF CInv, Ranges, Phases, Here
      <3>4. found \in Seq(Attribute)
        <4>1. Known[Here][k] \in SUBSET Attribute /\ IsFiniteSet(Known[Here][k])
          BY <3>2, <3>3, KeyType
        <4> HIDE DEF k
        <4>2. CASE found = <<>>
          BY <4>2
        <4>3. CASE found \in SetToSeqs(Known[Here][k])
          BY <4>1, <4>3, OrderType
        <4> QED
          BY <3>1, <4>2, <4>3
      <3>5. /\ batch'[n] = Appended(batch[n], found)
            /\ \A i \in DOMAIN batch : i # n => batch'[i] = batch[i]
        BY <3>1, <3>2
      <3>6. \A e \in Enrichers : Source(e, batch[n]) # Absent =>
               Source(e, Appended(batch[n], found)) = Source(e, batch[n])
        BY <3>3, <3>4, KeyStable
      <3> QED
        BY <3>5, <3>6
    <2>4. CASE Exported
      BY <2>4 DEF Exported
    <2> QED
      BY <2>1, <2>2, <2>3, <2>4 DEF Next, GenericRequest, TimeseriesRequest, PollFails, Skip,
         NextEnricher, Enriched, TimedOut, Export
  <1> QED
    BY <1>1, ConversionInvariance, PTL DEF Spec, SourceStable
=============================================================================
