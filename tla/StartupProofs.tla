--------------------------- MODULE StartupProofs ---------------------------
(***************************************************************************)
(* Proofs about Startup, for any settings, key files, enrichers and        *)
(* pollers.                                                                *)
(***************************************************************************)
EXTENDS Startup, SelectionProofs

-----------------------------------------------------------------------------
(* The inductive invariant.  Once a poller runs main is past everything    *)
(* that could still change the map, so a task is for good what it was made *)
(* from: that is Tasks, and OneCachePerName and AppliedAsListed follow.    *)

\* Main is past the making of the client, and has not failed.
Built == main \in {"enrichers", "launching", "awaiting"}

\* Main is past the making of the enrichers, and if it has failed, in launching.
PastEnrichers == main \in {"launching", "awaiting"} \/ started # <<>>

Configured ==
    /\ config.file \in Files \cup {Absent} /\ config.env \in Envs
    /\ config.enrichers \in Seq(EnricherConfig)
    /\ config.pollers \in Seq(PollerConfig) /\ config.tspollers \in Seq(PollerConfig)

Ranges ==
    /\ main \in {"loading", "loaded", "enrichers", "launching", "awaiting", "exitErr"}
    /\ client \in Client \cup {Absent}
    /\ made \in 0 .. Len(config.enrichers)
    /\ started \in Seq(Launched) /\ Len(started) <= Len(All)

\* The client is there once it has been built.
ClientMade == Built => client # Absent

\* What has been passed has been found good.
Passed ==
    /\ main = "loaded" \/ Built \/ started # <<>> => Complete
    /\ Built \/ started # <<>> => Signer(PEMs[Value("key_file")]) # Absent
    /\ \A i \in 1 .. made : config.enrichers[i].regex # "invalid"
    /\ PastEnrichers => made = Len(config.enrichers)
    /\ started # <<>> => main \in {"launching", "awaiting", "exitErr"}
    /\ \A i \in DOMAIN started : Kind(i) # "generic" \/ All[i].aggregator # "other"
    /\ main = "awaiting" => Len(started) = Len(All)

\* Main fails for a reason only.
Faulty == main = "exitErr" => BadSettings \/ BadKey \/ BadRegex \/ BadAggregator

\* The map has a name for every enricher made, and it leads to one of that name.
MapOfMade ==
    /\ DOMAIN map = {config.enrichers[i].name : i \in 1 .. made}
    /\ \A n \in DOMAIN map : map[n] \in 1 .. made /\ config.enrichers[map[n]].name = n

\* The tasks are what would be made of the pollers now.
Tasks == \A i \in DOMAIN started : started[i] = Task(i)

SInv ==
    /\ Configured /\ Ranges /\ ClientMade /\ Passed /\ Faulty /\ MapOfMade /\ Tasks

-----------------------------------------------------------------------------
(* Lemmas about the operators.                                             *)

\* What is configured is read where main is told: Complete is the absence of BadSettings.
LEMMA CompleteIsGood == Complete <=> ~BadSettings
  BY DEF Complete, BadSettings

\* The configuration never changes, and what depends on it alone does not either.
LEMMA ConfigOnly ==
    ASSUME config' = config
    PROVE  /\ Complete' <=> Complete
           /\ BadSettings' <=> BadSettings
           /\ BadKey' <=> BadKey
           /\ BadRegex' <=> BadRegex
           /\ BadAggregator' <=> BadAggregator
           /\ Signer(PEMs[Value("key_file")])' = Signer(PEMs[Value("key_file")])
           /\ All' = All
           /\ \A i : Kind(i)' = Kind(i)
           /\ Configured' <=> Configured
  <1>1. \A s : Value(s)' = Value(s)
    BY DEF Value
  <1>2. (Complete' <=> Complete) /\ (BadSettings' <=> BadSettings)
    BY <1>1 DEF Complete, BadSettings
  <1>3. Signer(PEMs[Value("key_file")])' = Signer(PEMs[Value("key_file")])
    BY <1>1 DEF Signer
  <1>4. BadKey' <=> BadKey
    BY <1>2, <1>3 DEF BadKey
  <1>5. (BadRegex' <=> BadRegex) /\ (BadAggregator' <=> BadAggregator)
    BY DEF BadRegex, BadAggregator
  <1>6. All' = All /\ \A i : Kind(i)' = Kind(i)
    BY DEF All, Kind
  <1>7. Configured' <=> Configured
    BY DEF Configured
  <1> QED
    BY <1>2, <1>3, <1>4, <1>5, <1>6, <1>7

\* The pollers in the order of launch, the generic ones first.
LEMMA Order ==
    ASSUME Configured
    PROVE  /\ All \in Seq(PollerConfig)
           /\ Len(All) = Len(config.pollers) + Len(config.tspollers)
           /\ \A i \in 1 .. Len(config.pollers) :
                 All[i] = config.pollers[i] /\ i <= Len(All) /\ Kind(i) = "generic"
  <1> DEFINE p == config.pollers
             t == config.tspollers
  <1>1. p \in Seq(PollerConfig) /\ t \in Seq(PollerConfig) /\ All = p \o t
    BY DEF Configured, All
  <1>2. \A i \in 1 .. Len(p) : Kind(i) = "generic"
    BY <1>1 DEF Kind
  <1> HIDE DEF p, t
  <1>3. /\ All \in Seq(PollerConfig) /\ Len(All) = Len(p) + Len(t)
        /\ \A i \in 1 .. Len(p) : All[i] = p[i] /\ i <= Len(All)
    BY <1>1
  <1> QED
    BY <1>2, <1>3 DEF p, t

\* A poller gets enrichers of the map: of those names, and with what the map has for them.
LEMMA Resolved ==
    ASSUME NEW names \in Seq(Names), MapOfMade, made \in Nat
    PROVE  /\ Resolve(names) \in Seq([name : Names, made : Nat \ {0}])
           /\ \A k \in DOMAIN Resolve(names) :
                 /\ Resolve(names)[k].name \in DOMAIN map
                 /\ Resolve(names)[k].made = map[Resolve(names)[k].name]
  <1> DEFINE P == {k \in DOMAIN names : names[k] \in DOMAIN map}
             known == Selected(names, P)
  <1>1. P \in SUBSET DOMAIN names /\ \A k \in P : names[k] \in DOMAIN map /\ names[k] \in Names
    OBVIOUS
  <1> HIDE DEF P
  <1>2. /\ known \in Seq(Names) /\ Len(known) = Cardinality(P)
        /\ \A k \in 1 .. Len(known) : known[k] \in DOMAIN map
    BY <1>1, SelectedFacts
  <1> HIDE DEF known
  <1>3. Resolve(names) = [k \in DOMAIN known |-> [name |-> known[k], made |-> map[known[k]]]]
    BY DEF Resolve, known, P
  <1>4. ASSUME NEW k \in 1 .. Len(known)
        PROVE  [name |-> known[k], made |-> map[known[k]]] \in [name : Names, made : Nat \ {0}]
    <2>1. known[k] \in Names /\ known[k] \in DOMAIN map
      BY <1>2, <1>4
    <2>2. map[known[k]] \in 1 .. made
      BY <2>1 DEF MapOfMade
    <2> QED
      BY <2>1, <2>2
  <1>5. DOMAIN known = 1 .. Len(known) /\ Len(known) \in Nat
    BY <1>2
  <1>6. Resolve(names) \in Seq([name : Names, made : Nat \ {0}])
    BY <1>3, <1>4, <1>5
  <1>7. ASSUME NEW k \in DOMAIN Resolve(names)
        PROVE  /\ Resolve(names)[k].name \in DOMAIN map
               /\ Resolve(names)[k].made = map[Resolve(names)[k].name]
    BY <1>2, <1>3, <1>5
  <1> QED
    BY <1>6, <1>7

\* The task of a poller is one.
LEMMA TaskType ==
    ASSUME Configured, MapOfMade, made \in Nat, NEW i \in 1 .. Len(All)
    PROVE  Task(i) \in Launched
  <1>1. All[i] \in PollerConfig
    <2>1. All \in Seq(PollerConfig)
      BY Order
    <2> QED
      BY <2>1
  <1>2. All[i].enrichers \in Seq(Names) /\ All[i].interval \in Nat \cup {Absent}
    BY <1>1 DEF PollerConfig
  <1>3. Resolve(All[i].enrichers) \in Seq([name : Names, made : Nat \ {0}])
    BY <1>2, Resolved
  <1>4. (IF All[i].interval = Absent THEN 10 ELSE All[i].interval) \in Nat
    BY <1>2
  <1>5. Kind(i) \in {"generic", "timeseries"}
    BY DEF Kind
  <1> QED
    BY <1>3, <1>4, <1>5 DEF Task, Launched

-----------------------------------------------------------------------------
(* Init and the steps.                                                     *)

\* Nothing has been read yet.
LEMMA StartupInit == Init => SInv
  <1> SUFFICES ASSUME Init PROVE SInv
    OBVIOUS
  <1>1. Configured
    BY StartupAssumption DEF Init, Configured
  <1>2. Ranges
    BY <1>1, Order DEF Init, Ranges, Configured
  <1>3. ClientMade
    BY DEF Init, ClientMade, Built
  <1>4. Passed
    BY DEF Init, Passed, Built, PastEnrichers
  <1>5. MapOfMade
    BY DEF Init, MapOfMade
  <1> QED
    BY <1>1, <1>2, <1>3, <1>4, <1>5 DEF SInv, Init, Faulty, Tasks

\* Main goes on to l or fails, and has nothing new in hand.
LEMMA MoveKeeps ==
    ASSUME SInv, UNCHANGED <<config, client, map, made, started>>,
           main' \in {"loading", "loaded", "enrichers", "launching", "awaiting", "exitErr"},
           ClientMade', Passed', Faulty'
    PROVE  SInv'
  <1>1. Configured'
    BY ConfigOnly DEF SInv
  <1>2. Ranges'
    BY ConfigOnly DEF SInv, Ranges
  <1>3. MapOfMade'
    BY DEF SInv, MapOfMade
  <1>4. Tasks'
    <2>1. \A i : Task(i)' = Task(i)
      BY ConfigOnly DEF Task, Resolve
    <2> QED
      BY <2>1 DEF SInv, Tasks
  <1> QED
    BY <1>1, <1>2, <1>3, <1>4 DEF SInv

\* A failure with a reason.
LEMMA FailKeeps ==
    ASSUME SInv, Fail, main \notin {"awaiting", "exitErr"},
           BadSettings \/ BadKey \/ BadRegex \/ BadAggregator
    PROVE  SInv'
  <1>1. main' = "exitErr" /\ UNCHANGED <<config, client, map, made, started>>
    BY DEF Fail
  <1>2. Faulty'
    BY <1>1, ConfigOnly DEF Faulty
  <1>3. ClientMade'
    BY <1>1 DEF SInv, ClientMade, Built
  <1>4. Passed'
    BY <1>1, ConfigOnly DEF SInv, Passed, Built, PastEnrichers
  <1> QED
    BY <1>1, <1>2, <1>3, <1>4, MoveKeeps

\* The settings are complete, or main fails for that.
LEMMA LoadKeeps == ASSUME SInv, Load \/ LoadFails PROVE SInv'
  <1>1. CASE Load
    <2>1. /\ main = "loading" /\ main' = "loaded" /\ Complete
          /\ UNCHANGED <<config, client, map, made, started>>
      BY <1>1 DEF Load
    <2>2. ClientMade' /\ Faulty'
      BY <2>1 DEF SInv, ClientMade, Built, Faulty
    <2>3. Passed'
      BY <2>1, ConfigOnly DEF SInv, Passed, Built, PastEnrichers
    <2> QED
      BY <2>1, <2>2, <2>3, MoveKeeps
  <1>2. CASE LoadFails
    BY <1>2, FailKeeps, CompleteIsGood DEF LoadFails
  <1> QED
    BY <1>1, <1>2

\* The client is made of the settings in force.
LEMMA BuildClientKeeps == ASSUME SInv, BuildClient PROVE SInv'
  <1> DEFINE new == [key_id |-> Trimmed(Value("key_id")),
                     signer |-> Signer(PEMs[Value("key_file")]),
                     host   |-> ValueOr("intersight_host", "intersight.com"),
                     accept_invalid_certs |-> ValueOr("intersight_accept_invalid_certs", TRUE)]
  <1>1. /\ main = "loaded" /\ Signer(PEMs[Value("key_file")]) # Absent
        /\ main' = "enrichers" /\ client' = new
        /\ UNCHANGED <<config, map, made, started>>
    BY DEF BuildClient
  <1>2. Complete /\ started = <<>>
    BY <1>1 DEF SInv, Passed
  <1>3. config.file \in Files /\ config.env \in Envs
    BY <1>2 DEF SInv, Configured, Complete
  <1>4. \A s : Value(s) \in {config.file[s], config.env[s]}
    BY DEF Value
  <1>5. new \in Client
    <2>1. Trimmed(Value("key_id")) \in Given("key_id", "id")
      BY <1>3, <1>4 DEF Trimmed, Given
    <2>2. Signer(PEMs[Value("key_file")]) \in {"Rsa", "Ecdsa"}
      BY <1>1 DEF Signer
    <2>3. \A s, d : ValueOr(s, d) \in Given(s, d)
      BY <1>3, <1>4 DEF ValueOr, Given
    <2> QED
      BY <2>1, <2>2, <2>3 DEF Client
  <1> HIDE DEF new
  <1>6. ClientMade'
    BY <1>1, <1>5, AbsentAssumption DEF ClientMade, Built
  <1>7. Passed'
    BY <1>1, <1>2, ConfigOnly DEF SInv, Passed, Built, PastEnrichers
  <1>8. Configured' /\ Ranges' /\ Faulty' /\ MapOfMade'
    BY <1>1, <1>5, ConfigOnly DEF SInv, Ranges, Faulty, MapOfMade
  <1>9. Tasks'
    BY <1>1, <1>2 DEF Tasks
  <1> QED
    BY <1>6, <1>7, <1>8, <1>9 DEF SInv

\* No signer can be made of the key file.
LEMMA BuildClientFailsKeeps == ASSUME SInv, BuildClientFails PROVE SInv'
  <1>1. BadKey
    BY CompleteIsGood DEF BuildClientFails, SInv, Passed, BadKey
  <1> QED
    BY <1>1, FailKeeps DEF BuildClientFails

\* An enricher more, and the map leads to it.
LEMMA MakeEnricherKeeps == ASSUME SInv, MakeEnricher PROVE SInv'
  <1> DEFINE e == config.enrichers[made + 1]
  <1>1. /\ main = "enrichers" /\ made < Len(config.enrichers) /\ e.regex # "invalid"
        /\ map' = [n \in DOMAIN map \cup {e.name} |-> IF n = e.name THEN made + 1 ELSE map[n]]
        /\ made' = made + 1
        /\ UNCHANGED <<config, main, client, started>>
    BY DEF MakeEnricher
  <1> HIDE DEF e
  <1>2. started = <<>>
    BY <1>1 DEF SInv, Passed
  <1>3. made \in Nat /\ Len(config.enrichers) \in Nat
    BY DEF SInv, Ranges, Configured
  <1>4. Configured' /\ Ranges'
    BY <1>1, <1>3, ConfigOnly DEF SInv, Ranges
  <1>5. ClientMade' /\ Faulty'
    BY <1>1 DEF SInv, ClientMade, Built, Faulty
  <1>6. Passed'
    <2>1. \A i \in 1 .. made' : config.enrichers[i].regex # "invalid"
      BY <1>1, <1>3 DEF SInv, Passed, e
    <2> QED
      BY <1>1, <1>2, <2>1, ConfigOnly DEF SInv, Passed, Built, PastEnrichers
  <1>7. MapOfMade'
    <2>1. DOMAIN map' = DOMAIN map \cup {e.name}
      BY <1>1
    <2>2. {config.enrichers[i].name : i \in 1 .. made'}
             = {config.enrichers[i].name : i \in 1 .. made} \cup {e.name}
      <3>1. 1 .. made' = (1 .. made) \cup {made + 1}
        BY <1>1, <1>3
      <3> QED
        BY <3>1 DEF e
    <2>3. ASSUME NEW n \in DOMAIN map'
          PROVE  map'[n] \in 1 .. made' /\ config.enrichers[map'[n]].name = n
      <3>1. CASE n = e.name
        <4>1. map'[n] = made + 1
          BY <1>1, <2>1, <3>1
        <4> QED
          BY <1>1, <1>3, <3>1, <4>1 DEF e
      <3>2. CASE n # e.name
        <4>1. n \in DOMAIN map /\ map'[n] = map[n]
          BY <1>1, <2>1, <2>3, <3>2
        <4>2. map[n] \in 1 .. made /\ config.enrichers[map[n]].name = n
          BY <4>1 DEF SInv, MapOfMade
        <4>3. made' = made + 1 /\ config' = config
          BY <1>1
        <4>4. map'[n] \in 1 .. made'
          BY <1>3, <4>1, <4>2, <4>3
        <4> QED
          BY <4>1, <4>2, <4>4
      <3> QED
        BY <3>1, <3>2
    <2>4. DOMAIN map = {config.enrichers[i].name : i \in 1 .. made}
      BY DEF SInv, MapOfMade
    <2>5. DOMAIN map' = {config.enrichers[i].name : i \in 1 .. made'}
      BY <2>1, <2>2, <2>4
    <2>6. config' = config
      BY <1>1
    <2> QED
      BY <2>3, <2>5, <2>6 DEF MapOfMade
  <1>8. Tasks'
    BY <1>1, <1>2 DEF Tasks
  <1> QED
    BY <1>4, <1>5, <1>6, <1>7, <1>8 DEF SInv

\* The regex of an enricher, of any, does not compile.
LEMMA MakeEnricherPanicsKeeps == ASSUME SInv, MakeEnricherPanics PROVE SInv'
  <1>1. BadRegex
    <2>1. made + 1 \in DOMAIN config.enrichers
      BY DEF MakeEnricherPanics, SInv, Ranges, Configured
    <2> QED
      BY <2>1 DEF MakeEnricherPanics, BadRegex, ToSet
  <1> QED
    BY <1>1, FailKeeps DEF MakeEnricherPanics

\* All the enrichers have been made.
LEMMA EnrichersMadeKeeps == ASSUME SInv, EnrichersMade PROVE SInv'
  <1>1. /\ main = "enrichers" /\ main' = "launching" /\ made = Len(config.enrichers)
        /\ UNCHANGED <<config, client, map, made, started>>
    BY DEF EnrichersMade
  <1>2. ClientMade' /\ Faulty'
    BY <1>1 DEF SInv, ClientMade, Built, Faulty
  <1>3. Passed'
    BY <1>1, ConfigOnly DEF SInv, Passed, Built, PastEnrichers
  <1> QED
    BY <1>1, <1>2, <1>3, MoveKeeps

\* The next poller is launched with its task.
LEMMA LaunchKeeps == ASSUME SInv, Launch PROVE SInv'
  <1>1. /\ main = "launching" /\ Turn <= Len(All)
        /\ Kind(Turn) # "generic" \/ All[Turn].aggregator # "other"
        /\ started' = Append(started, Task(Turn))
        /\ UNCHANGED <<config, main, client, map, made>>
    BY DEF Launch
  <1>2. /\ Turn = Len(started) + 1 /\ Turn \in 1 .. Len(All)
        /\ Len(All) \in Nat /\ started \in Seq(Launched) /\ Len(started) \in Nat
    BY <1>1, Order DEF SInv, Ranges, Turn
  <1>3. Task(Turn) \in Launched
    BY <1>2, TaskType DEF SInv, Ranges
  <1>4. /\ started' \in Seq(Launched) /\ Len(started') = Turn /\ started' # <<>>
        /\ DOMAIN started' = DOMAIN started \cup {Turn}
        /\ started'[Turn] = Task(Turn)
        /\ \A i \in DOMAIN started : started'[i] = started[i]
    <2> DEFINE t == Task(Turn)
    <2> HIDE DEF t
    <2>1. t \in Launched /\ started' = Append(started, t)
      BY <1>1, <1>3 DEF t
    <2>2. started' \in Seq(Launched) /\ Len(started') = Len(started) + 1 /\ started' # <<>>
      BY <1>2, <2>1
    <2>3. DOMAIN started' = DOMAIN started \cup {Len(started) + 1}
      BY <1>2, <2>1, <2>2
    <2>4. /\ started'[Len(started) + 1] = t
          /\ \A i \in DOMAIN started : started'[i] = started[i]
      BY <1>2, <2>1
    <2> QED
      BY <1>2, <2>2, <2>3, <2>4 DEF t
  <1>5. Configured' /\ Ranges'
    BY <1>1, <1>2, <1>4, ConfigOnly DEF SInv, Ranges
  <1>6. ClientMade' /\ Faulty' /\ MapOfMade'
    BY <1>1 DEF SInv, ClientMade, Built, Faulty, MapOfMade
  <1>7. Passed'
    <2>1. \A i \in DOMAIN started' : Kind(i) # "generic" \/ All[i].aggregator # "other"
      BY <1>1, <1>4 DEF SInv, Passed
    <2> QED
      BY <1>1, <2>1, ConfigOnly DEF SInv, Passed, Built, PastEnrichers
  <1>8. Tasks'
    <2>1. \A i : Task(i)' = Task(i)
      BY <1>1, ConfigOnly DEF Task, Resolve
    <2>2. \A i \in DOMAIN started' : started'[i] = Task(i)
      BY <1>4 DEF SInv, Tasks
    <2> QED
      BY <2>1, <2>2 DEF Tasks
  <1> QED
    BY <1>5, <1>6, <1>7, <1>8 DEF SInv

\* The aggregator of a generic poller is none of the two.
LEMMA LaunchFailsKeeps == ASSUME SInv, LaunchFails PROVE SInv'
  <1>1. /\ main = "launching" /\ Turn <= Len(All) /\ Fail
        /\ Kind(Turn) = "generic" /\ All[Turn].aggregator = "other"
    BY DEF LaunchFails
  <1>2. Turn \in Nat \ {0} /\ Len(config.pollers) \in Nat
    BY DEF Turn, SInv, Ranges, Configured
  <1>3. Turn \in 1 .. Len(config.pollers)
    <2>1. Turn <= Len(config.pollers)
      BY <1>1 DEF Kind
    <2> QED
      BY <1>2, <2>1
  <1>4. All[Turn] = config.pollers[Turn] /\ Turn \in DOMAIN config.pollers
    <2>1. All[Turn] = config.pollers[Turn]
      BY <1>3, Order DEF SInv
    <2>2. DOMAIN config.pollers = 1 .. Len(config.pollers)
      BY DEF SInv, Configured
    <2> QED
      BY <1>3, <2>1, <2>2
  <1>5. BadAggregator
    BY <1>1, <1>4 DEF BadAggregator, ToSet
  <1> QED
    BY <1>1, <1>5, FailKeeps

\* There is no poller left to launch.
LEMMA AwaitKeeps == ASSUME SInv, Await PROVE SInv'
  <1>1. /\ main = "launching" /\ main' = "awaiting" /\ Turn > Len(All)
        /\ UNCHANGED <<config, client, map, made, started>>
    BY DEF Await
  <1>2. Len(started) = Len(All)
    <2>1. Len(All) \in Nat
      BY Order DEF SInv
    <2>2. Len(started) \in Nat /\ Len(started) <= Len(All) /\ Len(started) + 1 > Len(All)
      BY <1>1 DEF SInv, Ranges, Turn
    <2> QED
      BY <2>1, <2>2
  <1>3. ClientMade' /\ Faulty'
    BY <1>1 DEF SInv, ClientMade, Built, Faulty
  <1>4. Passed'
    BY <1>1, <1>2, ConfigOnly DEF SInv, Passed, Built, PastEnrichers
  <1> QED
    BY <1>1, <1>3, <1>4, MoveKeeps

\* Every step preserves the invariant.
LEMMA StartupNext == ASSUME SInv, [Next]_vars PROVE SInv'
  <1>1. CASE UNCHANGED vars
    <2>1. UNCHANGED <<config, client, map, made, started>> /\ main' = main
      BY <1>1 DEF vars
    <2>2. ClientMade' /\ Faulty'
      BY <2>1, ConfigOnly
         DEF SInv, ClientMade, Built, Faulty
    <2>3. Passed'
      BY <2>1, ConfigOnly DEF SInv, Passed, Built, PastEnrichers
    <2> QED
      BY <2>1, <2>2, <2>3, MoveKeeps DEF SInv, Ranges
  <1>2. CASE Rest
    BY <1>1, <1>2 DEF Rest
  <1> QED
    BY <1>1, <1>2, LoadKeeps, BuildClientKeeps, BuildClientFailsKeeps, MakeEnricherKeeps,
       MakeEnricherPanicsKeeps, EnrichersMadeKeeps, LaunchKeeps, LaunchFailsKeeps, AwaitKeeps
       DEF Next

-----------------------------------------------------------------------------
(* Theorems.                                                               *)

\* The invariant holds in every reachable state (main.rs 17-87).
THEOREM StartupInvariance == Spec => []SInv
  <1> QED
    BY StartupInit, StartupNext, PTL DEF Spec

\* Types; main has a client from the enrichers on, and awaits only when all are launched.
THEOREM StartupTypeCorrect == Spec => []TypeOK
  <1>1. ASSUME SInv PROVE TypeOK
    <2>1. DOMAIN map \subseteq Names
      <3>1. \A i \in 1 .. made : config.enrichers[i].name \in Names
        <4>1. \A i \in 1 .. made : config.enrichers[i] \in EnricherConfig
          BY <1>1 DEF SInv, Configured, Ranges
        <4> QED
          BY <4>1 DEF EnricherConfig
      <3> QED
        BY <1>1, <3>1 DEF SInv, MapOfMade
    <2>2. main = "awaiting" => Turn > Len(All)
      <3>1. Len(All) \in Nat
        BY <1>1, Order DEF SInv
      <3> QED
        BY <1>1, <3>1 DEF SInv, Passed, Turn
    <2>3. \A n \in DOMAIN map : map[n] \in 1 .. made
      BY <1>1 DEF SInv, MapOfMade
    <2> QED
      BY <1>1, <2>1, <2>2, <2>3 DEF SInv, Ranges, ClientMade, Built, TypeOK
  <1> QED
    BY <1>1, StartupInvariance, PTL

\* Start-up fails for a reason only, and no poller runs before everything before it has
\* been found good; main awaits the merger only if all pollers could be launched
\* (main.rs 17-87, attribute_enricher.rs 35-43).
THEOREM FaultsAlwaysFound == Spec => []FaultsFound
  <1>1. ASSUME SInv PROVE FaultsFound
    <2>1. main = "exitErr" => BadSettings \/ BadKey \/ BadRegex \/ BadAggregator
      BY <1>1 DEF SInv, Faulty
    <2>2. ASSUME main = "awaiting" PROVE ~BadAggregator
      <3> SUFFICES ASSUME NEW i \in DOMAIN config.pollers,
                          config.pollers[i].aggregator = "other"
                   PROVE  FALSE
        BY DEF BadAggregator, ToSet
      <3>1. i \in 1 .. Len(config.pollers)
        BY <1>1 DEF SInv, Configured
      <3>2. All[i] = config.pollers[i] /\ i <= Len(All) /\ Kind(i) = "generic"
        BY <1>1, <3>1, Order DEF SInv
      <3>3. i \in DOMAIN started
        BY <1>1, <2>2, <3>1, <3>2 DEF SInv, Ranges, Passed
      <3> QED
        BY <1>1, <3>2, <3>3 DEF SInv, Passed
    <2>3. ASSUME started # <<>> \/ main = "awaiting"
          PROVE  ~BadSettings /\ ~BadKey /\ ~BadRegex
      <3>1. Complete /\ Signer(PEMs[Value("key_file")]) # Absent
            /\ made = Len(config.enrichers)
        BY <1>1, <2>3 DEF SInv, Passed, Built, PastEnrichers
      <3>2. \A i \in 1 .. Len(config.enrichers) : config.enrichers[i].regex # "invalid"
        BY <1>1, <3>1 DEF SInv, Passed
      <3>3. DOMAIN config.enrichers = 1 .. Len(config.enrichers)
        BY <1>1 DEF SInv, Configured
      <3> QED
        BY <3>1, <3>2, <3>3, CompleteIsGood DEF BadKey, BadRegex, ToSet
    <2> QED
      BY <2>1, <2>2, <2>3 DEF FaultsFound
  <1> QED
    BY <1>1, StartupInvariance, PTL

\* Two tasks have the same enricher, hence its cache, if and only if they name the same
\* one (main.rs 47, attribute_enricher.rs 206-220).
THEOREM AlwaysOneCachePerName == Spec => []OneCachePerName
  <1>1. ASSUME SInv PROVE OneCachePerName
    <2>1. ASSUME NEW i \in DOMAIN started, NEW k \in DOMAIN started[i].enrichers
          PROVE  /\ started[i].enrichers[k].name \in DOMAIN map
                 /\ started[i].enrichers[k].made = map[started[i].enrichers[k].name]
      <3>1. i \in 1 .. Len(All)
        BY <1>1, Order DEF SInv, Ranges
      <3>2. All[i].enrichers \in Seq(Names)
        <4>1. All[i] \in PollerConfig
          <5>1. All \in Seq(PollerConfig)
            BY <1>1, Order DEF SInv
          <5> QED
            BY <3>1, <5>1
        <4> QED
          BY <4>1 DEF PollerConfig
      <3>3. started[i].enrichers = Resolve(All[i].enrichers)
        BY <1>1 DEF SInv, Tasks, Task
      <3>4. MapOfMade /\ made \in Nat
        BY <1>1 DEF SInv, Ranges
      <3> QED
        BY <2>1, <3>2, <3>3, <3>4, Resolved
    <2>2. \A m, n \in DOMAIN map : map[m] = map[n] => m = n
      BY <1>1 DEF SInv, MapOfMade
    <2>3. ASSUME NEW i \in DOMAIN started, NEW k \in DOMAIN started[i].enrichers,
                 NEW j \in DOMAIN started, NEW l \in DOMAIN started[j].enrichers
          PROVE  started[i].enrichers[k].name = started[j].enrichers[l].name
                    <=> started[i].enrichers[k].made = started[j].enrichers[l].made
      BY <2>1, <2>2
    <2> QED
      BY <2>3 DEF OneCachePerName, ToSet
  <1> QED
    BY <1>1, StartupInvariance, PTL

\* A task has the enrichers its poller lists and that exist, in that order
\* (attribute_enricher.rs 206-220).
THEOREM AlwaysAppliedAsListed == Spec => []AppliedAsListed
  <1>1. ASSUME SInv PROVE AppliedAsListed
    <2> SUFFICES ASSUME NEW i \in DOMAIN started
                 PROVE  [k \in DOMAIN started[i].enrichers |-> started[i].enrichers[k].name]
                           = Selected(All[i].enrichers,
                                      {k \in DOMAIN All[i].enrichers :
                                          \E e \in ToSet(config.enrichers) :
                                             e.name = All[i].enrichers[k]})
      BY DEF AppliedAsListed
    <2> DEFINE names == All[i].enrichers
               known == Selected(names, {k \in DOMAIN names : names[k] \in DOMAIN map})
    <2>1. started[i].enrichers =
             [k \in DOMAIN known |-> [name |-> known[k], made |-> map[known[k]]]]
      <3>1. started[i].enrichers = Resolve(names)
        BY <1>1 DEF SInv, Tasks, Task
      <3>2. Resolve(names) = [k \in DOMAIN known |-> [name |-> known[k], made |-> map[known[k]]]]
        BY DEF Resolve
      <3> QED
        BY <3>1, <3>2
    <2>2. [k \in DOMAIN started[i].enrichers |-> started[i].enrichers[k].name]
             = [k \in DOMAIN known |-> known[k]]
      <3> HIDE DEF known
      <3> QED
        BY <2>1
    <2>3. known = [k \in DOMAIN known |-> known[k]]
      BY DEF Selected
    <2>4. DOMAIN map = {e.name : e \in ToSet(config.enrichers)}
      <3>1. started # <<>>
        OBVIOUS
      <3>2. made = Len(config.enrichers)
        BY <1>1, <3>1 DEF SInv, Passed, PastEnrichers
      <3>3. DOMAIN config.enrichers = 1 .. made
        BY <1>1, <3>2 DEF SInv, Configured
      <3> QED
        BY <1>1, <3>3 DEF SInv, MapOfMade, ToSet
    <2>5. {k \in DOMAIN names : names[k] \in DOMAIN map}
             = {k \in DOMAIN names : \E e \in ToSet(config.enrichers) : e.name = names[k]}
      <3> HIDE DEF names
      <3> QED
        BY <2>4
    <2> QED
      BY <2>2, <2>3, <2>5
  <1> QED
    BY <1>1, StartupInvariance, PTL
=============================================================================
