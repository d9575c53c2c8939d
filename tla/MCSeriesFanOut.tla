--------------------------- MODULE MCSeriesFanOut ---------------------------
(***************************************************************************)
(* Instance of SeriesFanOut for TLC.  Three namers over three selectors    *)
(* give every pattern of duplicates; one series is enough to tell a nil    *)
(* list, an empty one, a list that is filtered out and one that is kept    *)
(* apart.                                                                  *)
(***************************************************************************)
EXTENDS SeriesFanOut

CONSTANTS s1, s2, s3, up

MCSelectors == {s1, s2, s3}
MCSeries == {up}
=============================================================================
