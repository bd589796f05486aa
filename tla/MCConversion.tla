---------------------------- MODULE MCConversion ----------------------------
(* Instances of Conversion for TLC.                                        *)
EXTENDS Conversion, TLC

CONSTANTS
    host, name, profile, sdk,     \* attribute names
    t1, t2, t3, t4, null, ours,   \* texts
    d1, d2, f1, f2,               \* two dimensions and two fields
    byHost, rename                \* enrichers

Attr(k, v) == [key |-> k, value |-> v]

\* byHost goes by the host and gives a profile; rename goes by the profile and gives a
\* host name and a profile, the name of its own source.
Sources == byHost :> host @@ rename :> profile
AnyText == {t1, t2, t3, t4, null, ours}
Extracts == (byHost :> [t \in AnyText |-> IF t = null THEN Absent ELSE t])
            @@ (rename :> [t \in AnyText |-> t])
Answers ==
    (byHost :> [t \in AnyText |-> IF t = t1 THEN {Attr(profile, t3)}
                                  ELSE IF t = t2 THEN {Attr(profile, t4), Attr(name, t4)}
                                  ELSE {}])
    @@ (rename :> [t \in AnyText |-> IF t \in {t3, t4} THEN {Attr(profile, t), Attr(host, t3)}
                                     ELSE IF t = ours THEN {Attr(profile, t4)}
                                     ELSE {}])
TextOf == Null :> null @@ 0 :> t1 @@ 1 :> t2
Sdk == Attr(sdk, ours)

ToHost == [dimension |-> d1, attribute |-> host]
ToName == [dimension |-> d2, attribute |-> name]

Ts == [kind |-> "timeseries", aggregator |-> "", method |-> "", body |-> "",
       dims |-> <<ToHost, ToName>>, fields |-> <<f1, f2>>, static |-> <<>>,
       enrichers |-> <<byHost, rename>>]
Rest == [Ts EXCEPT !.kind = "generic", !.aggregator = "result_count", !.dims = <<>>,
                   !.fields = <<>>, !.static = <<Attr(host, t2)>>]

SomeConfigs ==
    {Ts,
     [Ts EXCEPT !.dims = <<ToName, ToHost>>, !.static = <<Attr(name, ours), Attr(profile, ours)>>],
     [Ts EXCEPT !.static = <<Attr(host, t1)>>, !.enrichers = <<rename, byHost, rename, byHost>>],
     [Ts EXCEPT !.dims = <<ToName, [ToHost EXCEPT !.attribute = name]>>, !.fields = <<f2, f1, f2>>],
     [Ts EXCEPT !.enrichers = <<>>],
     Rest,
     [Rest EXCEPT !.aggregator = "count_results", !.enrichers = <<>>, !.method = "post",
                  !.body = "json"],
     [Rest EXCEPT !.method = "get", !.body = "broken"]}

UpperCase == {[Rest EXCEPT !.method = m] : m \in {"get", "post", "POST"}}

SomeEvents ==
    {e \in [{d1, d2, f1, f2} -> {t1, t2, Null, Absent, 0, 1}] :
        /\ e[d1] \in {t1, t2, Null, Absent} /\ e[d2] \in {1, Absent}
        /\ e[f1] \in {0, Null, Absent, t1} /\ e[f2] \in {1, Null}}

SomeResponses ==
    "timeseries" :> ({Malformed, <<>>}
                     \cup [1 .. 2 -> SomeEvents \cup {Malformed}])
    @@ "generic" :> [count : {0, 1, Malformed}, results : {0, 1, Malformed}]
=============================================================================
