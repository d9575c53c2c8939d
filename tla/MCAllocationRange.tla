------------------------- MODULE MCAllocationRange -------------------------
(***************************************************************************)
(* Instance of AllocationRange for TLC.  A day is two units; the windows   *)
(* are negative, empty, shorter than a day, and up to three steps of a day *)
(* long; the steps do and do not divide them.  Either workload may be a    *)
(* deployment or not, at any time.                                         *)
(***************************************************************************)
EXTENDS AllocationRange

CONSTANTS d, w, r1, r2

MCDay == 2
MCWindowEnds == {-1, 0, 1, 5}
MCSteps == {-1, 0, 2, 6}
MCWorkloads == {d, w}
MCReplicaSets == {r1, r2}
=============================================================================
