----------------------------- MODULE MCLiveView -----------------------------
(* One browser, a queue of two, one thread more than the worker waits for.   *)
EXTENDS LiveView, TLC

CONSTANTS t1, t2

Symmetry == Permutations({t1, t2})
=============================================================================
