------------------------ MODULE EdgeDelivery_proofs ------------------------
(***************************************************************************)
(* Machine-checked theorems about EdgeDelivery, for every set of events    *)
(* and threads, every number of attempts, and any number of failures,      *)
(* deaths of the worker and disk errors.                                   *)
(***************************************************************************)
EXTENDS EdgeDelivery, TLAPS

(* The steps at which the worker holds a record. *)
Busy == {"post", "await", "unlink", "write_sent", "fail", "drop"}

(* The record the worker holds, and what its step says about it: marked as  *)
(* sent only once the API has it, dropped only once failed/ has it.         *)
HeldInv ==
  /\ cur # None <=> pc \in Busy
  /\ cur # None => cur \in emitted /\ cur \notin sent
  /\ pc = "post" => cur \notin waiting
  /\ pc \in {"unlink", "write_sent"} => cur \in ingested
  /\ pc = "write_sent" => pending[cur] = None
  /\ pc = "drop" => cur \in failed

(* What due() listed is still what the files say.  This is why a listed     *)
(* record may be posted without looking at its file again.                  *)
BatchInv ==
  \A r \in batch :
    /\ pending[r.event] = r.attempts
    /\ r.event # cur
    /\ r.event \notin waiting

(* The request of the worker is about the record it holds, and a thread     *)
(* succeeds only with an incident.                                          *)
CallInv ==
  /\ call # None <=> pc = "await"
  /\ call # None => serving[call] = cur
  /\ \A t \in Threads : done[t] => serving[t] \in ingested

(* Nothing is known of an event that was not emitted. *)
HistoryInv ==
  /\ HasFile \cup sent \cup failed \cup ingested \subseteq emitted
  /\ \A t \in Threads : serving[t] # None => serving[t] \in emitted
  /\ \A e \in Events \ emitted : tries[e] = 0

(* The attempts the worker counts for the record it holds. *)
CountInv ==
  /\ pc = "post" =>
       /\ pending[cur] = attempts - 1
       /\ attempts <= tries[cur] + 1
       /\ tries[cur] + 1 <= attempts + faults.crashes
  /\ pc \in Busy \ {"post"} =>
       /\ attempts <= tries[cur]
       /\ tries[cur] <= attempts + faults.crashes

Links == HeldInv /\ BatchInv /\ CallInv /\ HistoryInv /\ CountInv
Goals == NothingLost /\ SentIsIngested /\ GivesUpLate /\ AttemptsCount

IInv == TypeOK /\ Links /\ Goals

-----------------------------------------------------------------------------
LEMMA InitInv == Init => IInv
  BY EdgeAssumption
  DEF Init, NoFaults, IInv, TypeOK, Links, HeldInv, BatchInv, CallInv, HistoryInv,
      CountInv, Goals, NothingLost, SentIsIngested, GivesUpLate, AttemptsCount,
      HasFile, Busy

(* Every step keeps the types of files, locals and counters.               *)
LEMMA TypeStep ==
  ASSUME IInv, [Next]_vars
  PROVE  TypeOK'
<1> USE EdgeAssumption DEF IInv, TypeOK, Links, HeldInv, BatchInv, CallInv,
        HistoryInv, CountInv, Goals, NothingLost, SentIsIngested, GivesUpLate,
        AttemptsCount, HasFile, Busy, spool, worker, api
<1>1. CASE ListDue
  BY <1>1 DEF ListDue, Due
<1>2. CASE TakeDue
  BY <1>2 DEF TakeDue, NextAttempt
<1>3. CASE DrainDone \/ PipelineEnds \/ Restart
  BY <1>3 DEF DrainDone, PipelineEnds, Restart
<1>4. ASSUME NEW t \in Threads, Post(t) PROVE TypeOK'
  BY <1>4 DEF Post, Tried
<1>5. CASE Unreachable
  BY <1>5 DEF Unreachable, Tried, ToWorker, Failure
<1>6. CASE LoseAnswer
  BY <1>6 DEF LoseAnswer, ToWorker, Failure
<1>7. ASSUME NEW t \in Threads, Ingest(t) PROVE TypeOK'
  BY <1>7 DEF Ingest
<1>8. ASSUME NEW t \in Threads, Complete(t) PROVE TypeOK'
  BY <1>8 DEF Complete
<1>9. ASSUME NEW t \in Threads, Refuse(t) PROVE TypeOK'
  BY <1>9 DEF Refuse, Free, ToWorker, Failure
<1>10. ASSUME NEW t \in Threads, Answer(t) PROVE TypeOK'
  BY <1>10 DEF Answer, Succeeded, Free, ToWorker
<1>11. ASSUME NEW t \in Threads, Unheard(t) PROVE TypeOK'
  BY <1>11 DEF Unheard, Free
<1>12. ASSUME NEW e \in Events, Emit(e) PROVE TypeOK'
  BY <1>12 DEF Emit
<1>13. CASE Unlink
  BY <1>13 DEF Unlink, RemovePending
<1>14. CASE WriteSent
  BY <1>14 DEF WriteSent, Return
<1>15. CASE MarkSentRaises
  BY <1>15 DEF MarkSentRaises, DiskError
<1>16. CASE Retry
  BY <1>16 DEF Retry, LastAttempt, Return
<1>17. CASE GiveUp
  BY <1>17 DEF GiveUp, LastAttempt
<1>18. CASE Drop
  BY <1>18 DEF Drop, RemovePending, Return
<1>19. ASSUME NEW e \in Events, BackoffEnds(e) PROVE TypeOK'
  BY <1>19 DEF BackoffEnds
<1>20. CASE Crash
  BY <1>20 DEF Crash, ToWorker
<1>21. CASE QuietFrame \/ UNCHANGED vars
  BY <1>21 DEF QuietFrame, vars
<1> HIDE DEF IInv, TypeOK, Links, Goals
<1> QED
  BY <1>1, <1>2, <1>3, <1>4, <1>5, <1>6, <1>7, <1>8, <1>9, <1>10, <1>11,
     <1>12, <1>13, <1>14, <1>15, <1>16, <1>17, <1>18, <1>19, <1>20, <1>21
  DEF Next, WorkerStep, ServerStep, FileStep

(* Every step keeps what ties the worker's record to files and requests.    *)
LEMMA LinksStep ==
  ASSUME IInv, [Next]_vars
  PROVE  Links'
<1> USE EdgeAssumption DEF IInv, TypeOK, Links, HeldInv, BatchInv, CallInv,
        HistoryInv, CountInv, Goals, NothingLost, SentIsIngested, GivesUpLate,
        AttemptsCount, HasFile, Busy, spool, worker, api
<1>1. CASE ListDue
  BY <1>1 DEF ListDue, Due
<1>2. CASE TakeDue
  BY <1>2 DEF TakeDue, NextAttempt
<1>3. CASE DrainDone \/ PipelineEnds \/ Restart
  BY <1>3 DEF DrainDone, PipelineEnds, Restart
<1>4. ASSUME NEW t \in Threads, Post(t) PROVE Links'
  BY <1>4 DEF Post, Tried
<1>5. CASE Unreachable
  BY <1>5 DEF Unreachable, Tried, ToWorker, Failure
<1>6. CASE LoseAnswer
  BY <1>6 DEF LoseAnswer, ToWorker, Failure
<1>7. ASSUME NEW t \in Threads, Ingest(t) PROVE Links'
  BY <1>7 DEF Ingest
<1>8. ASSUME NEW t \in Threads, Complete(t) PROVE Links'
  BY <1>8 DEF Complete
<1>9. ASSUME NEW t \in Threads, Refuse(t) PROVE Links'
  BY <1>9 DEF Refuse, Free, ToWorker, Failure
<1>10. ASSUME NEW t \in Threads, Answer(t) PROVE Links'
  BY <1>10 DEF Answer, Succeeded, Free, ToWorker
<1>11. ASSUME NEW t \in Threads, Unheard(t) PROVE Links'
  BY <1>11 DEF Unheard, Free
<1>12. ASSUME NEW e \in Events, Emit(e) PROVE Links'
  BY <1>12 DEF Emit
<1>13. CASE Unlink
  BY <1>13 DEF Unlink, RemovePending
<1>14. CASE WriteSent
  BY <1>14 DEF WriteSent, Return
<1>15. CASE MarkSentRaises
  BY <1>15 DEF MarkSentRaises, DiskError
<1>16. CASE Retry
  BY <1>16 DEF Retry, LastAttempt, Return
<1>17. CASE GiveUp
  BY <1>17 DEF GiveUp, LastAttempt
<1>18. CASE Drop
  BY <1>18 DEF Drop, RemovePending, Return
<1>19. ASSUME NEW e \in Events, BackoffEnds(e) PROVE Links'
  BY <1>19 DEF BackoffEnds
<1>20. CASE Crash
  BY <1>20 DEF Crash, ToWorker
<1>21. CASE QuietFrame \/ UNCHANGED vars
  BY <1>21 DEF QuietFrame, vars
<1> HIDE DEF IInv, TypeOK, Links, Goals
<1> QED
  BY <1>1, <1>2, <1>3, <1>4, <1>5, <1>6, <1>7, <1>8, <1>9, <1>10, <1>11,
     <1>12, <1>13, <1>14, <1>15, <1>16, <1>17, <1>18, <1>19, <1>20, <1>21
  DEF Next, WorkerStep, ServerStep, FileStep

(* Every step keeps the four safety properties.                            *)
LEMMA GoalsStep ==
  ASSUME IInv, [Next]_vars
  PROVE  Goals'
<1> USE EdgeAssumption DEF IInv, TypeOK, Links, HeldInv, BatchInv, CallInv,
        HistoryInv, CountInv, Goals, NothingLost, SentIsIngested, GivesUpLate,
        AttemptsCount, HasFile, Busy, spool, worker, api
<1>1. CASE ListDue
  BY <1>1 DEF ListDue, Due
<1>2. CASE TakeDue
  BY <1>2 DEF TakeDue, NextAttempt
<1>3. CASE DrainDone \/ PipelineEnds \/ Restart
  BY <1>3 DEF DrainDone, PipelineEnds, Restart
<1>4. ASSUME NEW t \in Threads, Post(t) PROVE Goals'
  BY <1>4 DEF Post, Tried
<1>5. CASE Unreachable
  BY <1>5 DEF Unreachable, Tried, ToWorker, Failure
<1>6. CASE LoseAnswer
  BY <1>6 DEF LoseAnswer, ToWorker, Failure
<1>7. ASSUME NEW t \in Threads, Ingest(t) PROVE Goals'
  BY <1>7 DEF Ingest
<1>8. ASSUME NEW t \in Threads, Complete(t) PROVE Goals'
  BY <1>8 DEF Complete
<1>9. ASSUME NEW t \in Threads, Refuse(t) PROVE Goals'
  BY <1>9 DEF Refuse, Free, ToWorker, Failure
<1>10. ASSUME NEW t \in Threads, Answer(t) PROVE Goals'
  BY <1>10 DEF Answer, Succeeded, Free, ToWorker
<1>11. ASSUME NEW t \in Threads, Unheard(t) PROVE Goals'
  BY <1>11 DEF Unheard, Free
<1>12. ASSUME NEW e \in Events, Emit(e) PROVE Goals'
  BY <1>12 DEF Emit
<1>13. CASE Unlink
  BY <1>13 DEF Unlink, RemovePending
<1>14. CASE WriteSent
  BY <1>14 DEF WriteSent, Return
<1>15. CASE MarkSentRaises
  BY <1>15 DEF MarkSentRaises, DiskError
<1>16. CASE Retry
  BY <1>16 DEF Retry, LastAttempt, Return
<1>17. CASE GiveUp
  BY <1>17 DEF GiveUp, LastAttempt
<1>18. CASE Drop
  BY <1>18 DEF Drop, RemovePending, Return
<1>19. ASSUME NEW e \in Events, BackoffEnds(e) PROVE Goals'
  BY <1>19 DEF BackoffEnds
<1>20. CASE Crash
  BY <1>20 DEF Crash, ToWorker
<1>21. CASE QuietFrame \/ UNCHANGED vars
  BY <1>21 DEF QuietFrame, vars
<1> HIDE DEF IInv, TypeOK, Links, Goals
<1> QED
  BY <1>1, <1>2, <1>3, <1>4, <1>5, <1>6, <1>7, <1>8, <1>9, <1>10, <1>11,
     <1>12, <1>13, <1>14, <1>15, <1>16, <1>17, <1>18, <1>19, <1>20, <1>21
  DEF Next, WorkerStep, ServerStep, FileStep

LEMMA StepInv == IInv /\ [Next]_vars => IInv'
  BY TypeStep, LinksStep, GoalsStep DEF IInv

(* The inductive invariant holds in every reachable state. *)
THEOREM EdgeInvariant == Spec => []IInv
  BY InitInv, StepInv, PTL DEF Spec

(* TypeOK, the typing of files, worker and API threads, is an invariant.    *)
THEOREM EdgeTypeCorrect == Spec => []TypeOK
<1>1. IInv => TypeOK
  BY DEF IInv
<1> QED
  BY <1>1, EdgeInvariant, PTL

(* However often the worker dies, a POST is lost or a write fails, a        *)
(* detection is at the API, in pending/ or in failed/.                      *)
THEOREM EdgeLosesNothing == Spec => []NothingLost
<1>1. IInv => NothingLost
  BY DEF IInv, Goals
<1> QED
  BY <1>1, EdgeInvariant, PTL

(* What mark_sent files under sent/ has its incident and is not pending.    *)
THEOREM EdgeSentIsIngested == Spec => []SentIsIngested
<1>1. IInv => SentIsIngested
  BY DEF IInv, Goals
<1> QED
  BY <1>1, EdgeInvariant, PTL

(* mark_failed gives a record up only after MaxAttempts POSTs.              *)
THEOREM EdgeGivesUpLate == Spec => []GivesUpLate
<1>1. IInv => GivesUpLate
  BY DEF IInv, Goals
<1> QED
  BY <1>1, EdgeInvariant, PTL

(* The attempts on file and the POSTs made differ by at most the POST under *)
(* way and the deaths of the worker.                                        *)
THEOREM EdgeCountsAttempts == Spec => []AttemptsCount
<1>1. IInv => AttemptsCount
  BY DEF IInv, Goals
<1> QED
  BY <1>1, EdgeInvariant, PTL

-----------------------------------------------------------------------------
(* Only a POST counts as a try, and it is one of the record held.           *)
LEMMA OnlyPostsTry ==
  ASSUME IInv, [Next]_vars
  PROVE  tries' = tries \/ (pc = "post" /\ Tried)
  BY DEF Next, WorkerStep, ServerStep, FileStep, vars, ListDue, TakeDue,
     DrainDone, PipelineEnds, Restart, Post, Unreachable, LoseAnswer, Ingest,
     Complete, Refuse, Answer, Unheard, Emit, Unlink, WriteSent,
     MarkSentRaises, Retry, GiveUp, Drop, BackoffEnds, Crash, QuietFrame

(* No record is posted before its next_attempt_at, whether due() lists it   *)
(* before or after the worker was restarted.                                *)
THEOREM EdgeKeepsBackoff == Spec => BackoffKept
<1>1. IInv /\ [Next]_vars => [\A e \in Events : tries'[e] # tries[e] => e \notin waiting]_vars
  <2> SUFFICES ASSUME IInv, [Next]_vars, NEW e \in Events, tries'[e] # tries[e]
               PROVE  e \notin waiting
    OBVIOUS
  <2>1. pc = "post" /\ tries' = [tries EXCEPT ![cur] = @ + 1]
    BY OnlyPostsTry DEF Tried
  <2>2. e = cur
    BY <2>1 DEF IInv, TypeOK
  <2> QED
    BY <2>1, <2>2 DEF IInv, Links, HeldInv
<1> QED
  BY <1>1, EdgeInvariant, PTL DEF Spec, BackoffKept
=============================================================================
