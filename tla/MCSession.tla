----------------------------- MODULE MCSession -----------------------------
(* A sink of each kind, stopped in the order of teardown().                 *)
EXTENDS Session

MCSinks     == <<"pagerduty", "otlp">>
MCExporters == {"otlp"}
=============================================================================
