--------------------------- MODULE MCCloudSources ---------------------------
(***************************************************************************)
(* Instance of CloudSources for TLC: numbers on both sides of every bound  *)
(* the code compares with, and of the 100 seconds of SLS that it does not; *)
(* a time.Duration of 2^11 half seconds, which five times 300 seconds, and *)
(* once 600 or 1100, overflow to either side; lists of up to three         *)
(* deployments with every combination of annotations.                      *)
(***************************************************************************)
EXTENDS CloudSources

MCIntervals == {0, 1, 14, 15, 59, 60, 61, 90, 91, 300, 600, 1100}
MCDelays == {-5, 0, 1, 10, 40}
MCRetries == {-1, 0, 1, 2}

AllSources == {"sls", "slb", "cms", "ahas", "none"}
OnlySls == {"sls"}

MCNames == {"x", "y"}
Deployment == [app : MCNames \cup {Absent}, space : MCNames \cup {Absent}]
MCDeployments == UNION {[1..n -> Deployment] : n \in 0..3}
NoDeployments == {<<>>}
=============================================================================
