--------------------------- MODULE MCEdgePresence ---------------------------
(* One worker and two API threads for its heartbeats, one of which may have  *)
(* been given up on; three timestamps, two of them less than a cooldown apart.*)
EXTENDS EdgePresence, TLC

CONSTANTS t1, t2

Symmetry == Permutations({t1, t2})
=============================================================================
