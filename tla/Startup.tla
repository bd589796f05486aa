------------------------------- MODULE Startup -------------------------------
(***************************************************************************)
(* What `main` does before and while it launches the pollers: the settings *)
(* are read from the file and the environment, the API client is built     *)
(* from the key file, the enrichers are made, once each, and every poller  *)
(* is given those it names.  An error on the way ends the process, with    *)
(* the pollers launched so far; an unknown enricher is left out with a     *)
(* warning.                                                                *)
(***************************************************************************)
EXTENDS Integers, Sequences, SequencesExt, Selection

CONSTANTS
    Files,      \* the settings files considered: setting -> value, or Absent
    Envs,       \* the environments considered, likewise
    PEMs,       \* path of a key file -> what can be read there, or Absent
    Names,      \* names of enrichers
    Enrichers,  \* the [[enrichers]] lists considered
    Pollers,    \* the [[pollers]] and [[tspollers]] lists considered
    Absent      \* no value

Setting == {"key_id", "key_file", "otel_collector_endpoint", "intersight_host",
            "intersight_accept_invalid_certs"}
Required == {"key_id", "key_file", "otel_collector_endpoint"}

EnricherConfig == [name : Names, regex : {"none", "valid", "invalid"}]
PollerConfig == [aggregator : {"result_count", "count_results", "other"},
                 interval : Nat \cup {Absent}, enrichers : Seq(Names)]

ASSUME StartupAssumption ==
    /\ \A s \in Files \cup Envs : DOMAIN s = Setting
    /\ Enrichers \subseteq Seq(EnricherConfig) /\ Pollers \subseteq Seq(PollerConfig)

VARIABLES
    config,     \* all that is configured
    main,       \* where `main` is
    client,     \* the API client
    map,        \* name -> the enricher made for it, by its place in the list
    made,       \* enrichers made so far
    started     \* the pollers launched so far

vars == <<config, main, client, map, made, started>>

Init ==
    /\ config \in [file : Files \cup {Absent}, env : Envs, enrichers : Enrichers,
                   pollers : Pollers, tspollers : Pollers]
    /\ main = "loading" /\ client = Absent
    /\ map = <<>> /\ made = 0 /\ started = <<>>

-----------------------------------------------------------------------------
(* Settings.                                                               *)

\* The environment is the later source and takes precedence.
Value(s) == IF config.env[s] # Absent THEN config.env[s] ELSE config.file[s]

ValueOr(s, default) == IF Value(s) = Absent THEN default ELSE Value(s)

\* key_id(): the white space around it is cut off.
Trimmed(id) == IF id = "id and newline" THEN "id" ELSE id

Fail ==
    /\ main' = "exitErr"
    /\ UNCHANGED <<config, client, map, made, started>>

Complete == config.file # Absent /\ \A s \in Required : Value(s) # Absent

Load ==
    /\ main = "loading" /\ Complete
    /\ main' = "loaded"
    /\ UNCHANGED <<config, client, map, made, started>>

LoadFails == main = "loading" /\ ~Complete /\ Fail

-----------------------------------------------------------------------------
(* The client.                                                             *)

\* Signer::from_pem: the type of key goes by the label, then the DER must parse.
Signer(pem) ==
    IF pem = Absent \/ ~pem.decodes \/ ~pem.valid THEN Absent
    ELSE IF pem.label = "RSA PRIVATE KEY" THEN "Rsa"
    ELSE IF pem.label = "EC PRIVATE KEY" THEN "Ecdsa"
    ELSE Absent

\* The merger is spawned, the channel in hand, before the enrichers are made.
BuildClient ==
    /\ main = "loaded" /\ Signer(PEMs[Value("key_file")]) # Absent
    /\ client' = [key_id |-> Trimmed(Value("key_id")),
                  signer |-> Signer(PEMs[Value("key_file")]),
                  host   |-> ValueOr("intersight_host", "intersight.com"),
                  accept_invalid_certs |-> ValueOr("intersight_accept_invalid_certs", TRUE)]
    /\ main' = "enrichers"
    /\ UNCHANGED <<config, map, made, started>>

BuildClientFails == main = "loaded" /\ Signer(PEMs[Value("key_file")]) = Absent /\ Fail

-----------------------------------------------------------------------------
(* The enrichers.                                                          *)

\* One enricher more; of two with one name the later stays in the map.
MakeEnricher ==
    /\ main = "enrichers" /\ made < Len(config.enrichers)
    /\ LET e == config.enrichers[made + 1] IN
          /\ e.regex # "invalid"
          /\ map' = [n \in DOMAIN map \cup {e.name} |-> IF n = e.name THEN made + 1 ELSE map[n]]
    /\ made' = made + 1
    /\ UNCHANGED <<config, main, client, started>>

\* Mutant of MakeEnricherPanics: only the regex of an enricher in use matters.
MakeEnricherPanicsIfUsed ==
    /\ main = "enrichers" /\ made < Len(config.enrichers)
    /\ config.enrichers[made + 1].regex = "invalid"
    /\ \/ /\ \E p \in ToSet(config.pollers \o config.tspollers) :
                config.enrichers[made + 1].name \in ToSet(p.enrichers)
          /\ Fail
       \/ /\ \A p \in ToSet(config.pollers \o config.tspollers) :
                config.enrichers[made + 1].name \notin ToSet(p.enrichers)
          /\ made' = made + 1
          /\ UNCHANGED <<config, main, client, map, started>>

\* A regex that does not compile panics, in main itself, even if no poller names it.
MakeEnricherPanics ==
    /\ main = "enrichers" /\ made < Len(config.enrichers)
    /\ config.enrichers[made + 1].regex = "invalid"
    /\ Fail

EnrichersMade ==
    /\ main = "enrichers" /\ made = Len(config.enrichers)
    /\ main' = "launching"
    /\ UNCHANGED <<config, client, map, made, started>>

-----------------------------------------------------------------------------
(* The pollers, generic ones first.                                        *)

All == config.pollers \o config.tspollers
Kind(i) == IF i <= Len(config.pollers) THEN "generic" ELSE "timeseries"

\* The position of the poller to launch next.
Turn == Len(started) + 1

\* Mutant of Resolve: the names are looked up in the order of the map.
ResolveInMapOrder(names) ==
    LET known == SetToSeq(ToSet(names) \cap DOMAIN map) IN
    [k \in DOMAIN known |-> [name |-> known[k], made |-> map[known[k]]]]

\* The enrichers named, in order, as often as they are named, unknown ones left out.
Resolve(names) ==
    LET known == Selected(names, {k \in DOMAIN names : names[k] \in DOMAIN map}) IN
    [k \in DOMAIN known |-> [name |-> known[k], made |-> map[known[k]]]]

\* The task gets its kind, its interval and its enrichers.
Task(i) == [kind |-> Kind(i), enrichers |-> Resolve(All[i].enrichers),
            interval |-> IF All[i].interval = Absent THEN 10 ELSE All[i].interval]

\* Mutant of Launch: every poller gets enrichers, hence caches, of its own.
LaunchOwnEnrichers ==
    /\ main = "launching" /\ Turn <= Len(All)
    /\ ~(Kind(Turn) = "generic" /\ All[Turn].aggregator = "other")
    /\ LET own == [k \in DOMAIN Task(Turn).enrichers |->
                      [Task(Turn).enrichers[k] EXCEPT !.made = made + 9 * Turn + k]] IN
          started' = Append(started, [Task(Turn) EXCEPT !.enrichers = own])
    /\ UNCHANGED <<config, main, client, map, made>>

Launch ==
    /\ main = "launching" /\ Turn <= Len(All)
    /\ ~(Kind(Turn) = "generic" /\ All[Turn].aggregator = "other")
    /\ started' = Append(started, Task(Turn))
    /\ UNCHANGED <<config, main, client, map, made>>

LaunchFails ==
    /\ main = "launching" /\ Turn <= Len(All)
    /\ Kind(Turn) = "generic" /\ All[Turn].aggregator = "other"
    /\ Fail

\* Mutant of Await: main goes on after the generic pollers if there are any.
AwaitEarly ==
    /\ main = "launching"
    /\ Turn > Len(config.pollers) /\ (Turn > Len(All) \/ config.pollers # <<>>)
    /\ main' = "awaiting"
    /\ UNCHANGED <<config, client, map, made, started>>

\* All are launched and main waits for the merger.
Await ==
    /\ main = "launching" /\ Turn > Len(All)
    /\ main' = "awaiting"
    /\ UNCHANGED <<config, client, map, made, started>>

Rest == main \in {"awaiting", "exitErr"} /\ UNCHANGED vars

Next ==
    \/ Load \/ LoadFails \/ BuildClient \/ BuildClientFails
    \/ MakeEnricher \/ MakeEnricherPanics \/ EnrichersMade
    \/ Launch \/ LaunchFails \/ Await \/ Rest

Spec == Init /\ [][Next]_vars

-----------------------------------------------------------------------------
(* Properties.                                                             *)

Given(s, default) == {source[s] : source \in Files \cup Envs} \cup {default}

Client == [key_id : Given("key_id", "id"), signer : {"Rsa", "Ecdsa"},
           host : Given("intersight_host", "intersight.com"),
           accept_invalid_certs : Given("intersight_accept_invalid_certs", TRUE)]

ASSUME AbsentAssumption == Absent \notin Client

Launched == [kind : {"generic", "timeseries"}, interval : Nat,
             enrichers : Seq([name : Names, made : Nat \ {0}])]

TypeOK ==
    /\ main \in {"loading", "loaded", "enrichers", "launching", "awaiting", "exitErr"}
    /\ client \in Client \cup {Absent}
    /\ main \in {"enrichers", "launching", "awaiting"} => client # Absent
    /\ made \in 0 .. Len(config.enrichers)
    /\ DOMAIN map \subseteq Names /\ \A n \in DOMAIN map : map[n] \in 1 .. made
    /\ started \in Seq(Launched) /\ Len(started) <= Len(All)
    /\ main = "awaiting" => Turn > Len(All)

\* What must end start-up with an error, in whatever order it is come across.
BadSettings == config.file = Absent \/ \E s \in Required : Value(s) = Absent
BadKey == ~BadSettings /\ Signer(PEMs[Value("key_file")]) = Absent
BadRegex == \E e \in ToSet(config.enrichers) : e.regex = "invalid"
BadAggregator == \E p \in ToSet(config.pollers) : p.aggregator = "other"

\* Start-up ends with an error exactly when there is one, be the faulty enricher used or
\* not; and no poller runs, and calls the API, before the settings, the key and all the
\* enrichers have been found good (main.rs 17-87, attribute_enricher.rs 35-43).
FaultsFound ==
    /\ main = "exitErr" => BadSettings \/ BadKey \/ BadRegex \/ BadAggregator
    /\ main = "awaiting" => ~BadAggregator
    /\ started # <<>> \/ main = "awaiting" => ~BadSettings /\ ~BadKey /\ ~BadRegex

\* Pollers that name the same enricher share one, hence its cache (main.rs 47).
OneCachePerName ==
    \A p, q \in ToSet(started) : \A e \in ToSet(p.enrichers), f \in ToSet(q.enrichers) :
        e.name = f.name <=> e.made = f.made

\* A poller applies the enrichers that it lists and that exist, in the order it lists
\* them, whether or not others are missing (attribute_enricher.rs 206-220).
AppliedAsListed ==
    \A i \in DOMAIN started :
        [k \in DOMAIN started[i].enrichers |-> started[i].enrichers[k].name]
            = Selected(All[i].enrichers,
                       {k \in DOMAIN All[i].enrichers :
                           \E e \in ToSet(config.enrichers) : e.name = All[i].enrichers[k]})

\* README.md 25 gives false as the default of accepting invalid certificates: they are
\* verified unless configured otherwise.
CertsVerifiedByDefault ==
    client # Absent /\ Value("intersight_accept_invalid_certs") = Absent
        => ~client.accept_invalid_certs
=============================================================================
