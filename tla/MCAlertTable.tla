---------------------------- MODULE MCAlertTable ----------------------------
(* Three alerts for TLC, two of them of one flow. *)
EXTENDS AlertTable

CONSTANTS f1, f2

Flow     == <<f1, f2, f1>>
Severity == <<"critical", "high", "low">>
=============================================================================
