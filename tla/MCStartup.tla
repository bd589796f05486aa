------------------------------ MODULE MCStartup ------------------------------
(* Instances of Startup for TLC.                                           *)
EXTENDS Startup, TLC

CONSTANTS host, profile, ghost

Nothing == [s \in Setting |-> Absent]
Minimal == [Nothing EXCEPT !.key_id = "id", !.key_file = "rsa.pem",
                           !.otel_collector_endpoint = "http://localhost:4317"]
Full == [Minimal EXCEPT !.key_file = "ec.pem", !.intersight_host = "eu.intersight.com",
                        !.intersight_accept_invalid_certs = FALSE]

SomeFiles == {Minimal, Full, [Minimal EXCEPT !.key_file = Absent],
              [Minimal EXCEPT !.key_file = "public.pem"]}

\* Credentials from a Kubernetes secret; an override of what the file says.
Secret == [Nothing EXCEPT !.key_id = "id and newline", !.key_file = "rsa.pem"]
Override == [Nothing EXCEPT !.intersight_host = "intersight.local",
                            !.intersight_accept_invalid_certs = TRUE]
BadFile(name) == [Nothing EXCEPT !.key_file = name]
SomeEnvs == {Nothing, Secret, Override, BadFile("cut.pem"), BadFile("none.pem")}

PEM(label, decodes, valid) == [label |-> label, decodes |-> decodes, valid |-> valid]
SomePEMs == "rsa.pem" :> PEM("RSA PRIVATE KEY", TRUE, TRUE)
         @@ "ec.pem" :> PEM("EC PRIVATE KEY", TRUE, TRUE)
         @@ "public.pem" :> PEM("PUBLIC KEY", TRUE, TRUE)
         @@ "cut.pem" :> PEM("RSA PRIVATE KEY", FALSE, FALSE)
         @@ "none.pem" :> Absent

Enricher(n, regex) == [name |-> n, regex |-> regex]
SomeEnrichers == {<<>>,
                  <<Enricher(host, "none"), Enricher(profile, "valid")>>,
                  <<Enricher(host, "none"), Enricher(profile, "none"), Enricher(host, "valid")>>,
                  <<Enricher(host, "valid"), Enricher(ghost, "invalid")>>}

Poller(aggregator, interval, enrichers) ==
    [aggregator |-> aggregator, interval |-> interval, enrichers |-> enrichers]
SomePollers == {<<>>,
                <<Poller("result_count", 60, <<profile, host, profile>>)>>,
                <<Poller("count_results", Absent, <<ghost, host>>),
                  Poller("other", 0, <<host>>)>>}
=============================================================================
