----------------------------- MODULE MCPipeline -----------------------------
(* Instances of Pipeline for TLC.                                          *)
EXTENDS Pipeline

Plain    == [kind |-> "generic", aggregator |-> "valid", interval |-> "positive",
             enrichers |-> FALSE]
BadAggr  == [Plain EXCEPT !.aggregator = "invalid"]
Enriched == [Plain EXCEPT !.kind = "timeseries", !.enrichers = TRUE]
ZeroTs   == [Enriched EXCEPT !.interval = "zero"]

TwoConfigs   == {Plain, ZeroTs}
AllConfigs   == {Plain, BadAggr, Enriched, ZeroTs}
=============================================================================
