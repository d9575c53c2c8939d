-------------------------- MODULE MCCustomMetrics --------------------------
(***************************************************************************)
(* Instance of CustomMetrics for TLC: one request (requests do not         *)
(* influence each other), two resources, and a metric that changes hands   *)
(* between two namers with different labels.  Samples have both labels,    *)
(* with the same name in both or not, or only one of them; two of them are *)
(* of the same resource.                                                   *)
(***************************************************************************)
EXTENDS CustomMetrics, TLC

CONSTANTS a, b, m, r1, x, y, pod, podName, none

MCRequests == {r1}
MCSeries == {a, b}
MCMetrics == {m}
MCNames == {x, y}
MCMetricsOf == [n \in 1..2 |-> [s \in MCSeries |-> IF (s = a) <=> (n = 1) THEN {m} ELSE {}]]
MCLabelOf == <<pod, podName>>

Sample(inPod, inPodName) == (pod :> inPod) @@ (podName :> inPodName)
MCSamples == {Sample(x, y), Sample(x, none), Sample(y, y)}
=============================================================================
