--------------------------- MODULE MCEdgeDelivery ---------------------------
(* Small instances of EdgeDelivery.  Events are interchangeable, and so are *)
(* threads.                                                                 *)
EXTENDS EdgeDelivery, TLC

CONSTANTS e1, e2, t1, t2

TwoEvents == {e1, e2}
TwoThreads == {t1, t2}

Symmetry == Permutations(Events) \cup Permutations(Threads)
=============================================================================
