---------------------------- MODULE MCEdgeToStore ----------------------------
(* Small instances of EdgeToStore.  Threads, incident ids and notification  *)
(* ids are interchangeable; the liveness run uses no symmetry.              *)
EXTENDS EdgeToStore, TLC

CONSTANTS e1, e2, t1, t2, i1, i2, n1, n2

OneEvent == {e1}
TwoEvents == {e1, e2}
TwoHandlers == {t1, t2}
TwoIds == {i1, i2}
TwoRows == {n1, n2}

Symmetry == Permutations(Handlers) \cup Permutations(Incidents)
              \cup Permutations(Notifications)
=============================================================================
