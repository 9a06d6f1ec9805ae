-------------------------------- MODULE KListMC --------------------------------
(* Five nodes: two ends, and three in between. *)
EXTENDS KList

CONSTANTS a, b, c, d, e

MCNodes == {a, b, c, d, e}
=============================================================================
