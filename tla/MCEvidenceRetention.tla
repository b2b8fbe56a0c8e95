------------------------- MODULE MCEvidenceRetention -------------------------
(* Small instances of EvidenceRetention.  No symmetry: one file comes from  *)
(* an edge worker and one from a user, and the run checks liveness.         *)
EXTENDS EvidenceRetention

CONSTANTS frame, photo

TwoFiles == {frame, photo}
OneFrame == {frame}
ShortAndLong == {0, 2}
Long == {2}
=============================================================================
