-------------------------- MODULE MCNotificationJobs --------------------------
(* Small instances of NotificationJobs.                                     *)
EXTENDS NotificationJobs

CONSTANTS s1, s2, r1, a, n1, t1, t2, t3

TwoSchedulers == {s1, s2}
OneRunner == {r1}
OneOrganization == {a}
OneRow == {n1}
RowsOfA == [n \in Notifications |-> a]
ThreeTokens == {t1, t2, t3}
Sending == {[enabled |-> TRUE, mode |-> "resend", configured |-> TRUE]}
Both == {"email", "mock"}
AnyPing == BOOLEAN
=============================================================================
