--------------------------- MODULE MCIncidentStore ---------------------------
(* Small instances of IncidentStore.  Requests of one kind, events, incident *)
(* ids and notification ids are interchangeable.                             *)
EXTENDS IncidentStore, TLC

CONSTANTS d1, d2, o1, o2, e1, e2, i1, i2, n1, n2

TwoDetectors == {d1, d2}
OneDetector == {d1}
TwoOperators == {o1, o2}
OneOperator == {o1}
TwoEvents == {e1, e2}
OneEvent == {e1}
TwoIds == {i1, i2}
TwoRows == {n1, n2}

Symmetry == Permutations(Detectors) \cup Permutations(Operators)
              \cup Permutations(Incidents) \cup Permutations(Notifications)
=============================================================================
