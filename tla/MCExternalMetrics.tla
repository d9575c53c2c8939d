------------------------- MODULE MCExternalMetrics -------------------------
(***************************************************************************)
(* Instance of ExternalMetrics for TLC: one request beside the relister    *)
(* (requests do not influence each other), a metric of an Alibaba Cloud    *)
(* source, one that both providers list and one of Prometheus alone.       *)
(***************************************************************************)
EXTENDS ExternalMetrics

CONSTANTS a, b, m, k, r1

MCRequests == {r1}
MCSeries == {a, b}
MCMetrics == {m, k}
MCAlibabaMetrics == {k}

\* m comes from a by namer 1 or from b by namer 2.
MCMetricsOf == [n \in 1..2 |-> IF n = 1
                  THEN [s \in MCSeries |-> IF s = a THEN {m} ELSE {}]
                  ELSE [s \in MCSeries |-> IF s = a THEN {} ELSE {m, k}]]
=============================================================================
