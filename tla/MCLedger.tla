------------------------------ MODULE MCLedger ------------------------------
(* Instances of Ledger for TLC.                                            *)
EXTENDS Ledger

Plain    == [kind |-> "generic", aggregator |-> "valid", interval |-> "positive",
             enrichers |-> FALSE]
Series   == [Plain EXCEPT !.kind = "timeseries"]

ZeroTs   == [Series EXCEPT !.interval = "zero", !.enrichers = TRUE]
Enriched == [Series EXCEPT !.enrichers = TRUE]
BadAggr  == [Plain EXCEPT !.aggregator = "invalid"]

AllConfigs == {Plain, BadAggr, Enriched, ZeroTs}
=============================================================================
