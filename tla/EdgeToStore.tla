----------------------------- MODULE EdgeToStore -----------------------------
(***************************************************************************)
(* A detection's way from the edge worker's spool to the notification      *)
(* queue: EdgeDelivery posts to threads that run IncidentStore's           *)
(* create_from_detection.  A POST the worker gave up on keeps running, so   *)
(* it may race the POST that repeats it.  Where EdgeDelivery has a set of   *)
(* ingested events there is now the incident table.                        *)
(***************************************************************************)
EXTENDS FiniteSets, Integers

CONSTANTS
  Events, Notifiable, Incidents, Notifications, Nothing,
  Handlers,       \* the threads of the API that serve POSTs
  MaxAttempts, MaxFailures, MaxCrashes, MaxDiskErrors,
  MaxAborts       \* bound: requests that die half way in the store

ASSUME PathAssumption ==
  /\ {MaxAttempts, MaxFailures, MaxCrashes, MaxDiskErrors, MaxAborts} \subseteq Nat
  /\ Notifiable \subseteq Events
  /\ Nothing \notin Events \cup Handlers \cup Incidents \cup Nat

VARIABLES
  pending, waiting, sent, failed, pc, batch, cur, attempts, back, call,
  serving, done, emitted, tries, faults,                  \* of EdgeDelivery
  incidents, audit, notifications, replies, dpc, dEvent, dIncident,
  aborts                                                  \* of IncidentStore

(* No operator takes part: their variables are functions with no argument. *)
Store == INSTANCE IncidentStore
  WITH Detectors <- Handlers, Operators <- {}, None <- Nothing,
       Enabled <- TRUE, Mode <- "mock", Configured <- FALSE,
       opc <- [o \in {} |-> "idle"], oIncident <- [o \in {} |-> Nothing],
       oRead <- [o \in {} |-> "absent"], oCopy <- [o \in {} |-> Nothing],
       oLoaded <- [o \in {} |-> Nothing]

ingested == {e \in Events : Store!IncidentsOf(e) # {}}

Edge == INSTANCE EdgeDelivery
  WITH Live <- FALSE, Threads <- Handlers, None <- Nothing

queueVars == <<pending, waiting, sent, failed, pc, batch, cur, attempts, back,
               call, serving, emitted, tries, faults>>
edgeVars == <<queueVars, done>>
storeVars == <<incidents, audit, notifications, replies, dpc, dEvent,
               dIncident, aborts>>
pathVars == <<edgeVars, storeVars>>

PathInit == Store!Init /\ Edge!Init

-----------------------------------------------------------------------------
(* submit_detection on thread t calls create_from_detection once; when that *)
(* returns an incident, the request is ready to be answered.                *)

Complete(t) == /\ done' = [done EXCEPT ![t] = TRUE]
               /\ UNCHANGED queueVars

LookupAccepts(t) ==     \* mutant: accepted before the incident is written
  /\ serving[t] # Nothing
  /\ ~done[t]
  /\ Store!LookupMiss(t, serving[t]) \/ Store!LookupHit(t, serving[t])
  /\ Complete(t)

Lookup(t) ==
  /\ serving[t] # Nothing
  /\ ~done[t]
  /\ \/ Store!LookupMiss(t, serving[t]) /\ UNCHANGED edgeVars
     \/ Store!LookupHit(t, serving[t]) /\ Complete(t)

Create(t) ==
  /\ Store!Insert(t) \/ Store!InsertConflict(t) \/ Store!AuditCreated(t)
  /\ UNCHANGED edgeVars

Return(t) ==
  /\ Store!Reread(t) \/ Store!EnqueueNotification(t)
  /\ Complete(t)

(* An HTTP error: outside create_from_detection, or out of the middle of it. *)
Refuse(t) ==
  \/ dpc[t] = "idle" /\ UNCHANGED storeVars /\ Edge!Refuse(t)
  \/ Store!AbortDetector(t) /\ Edge!Refuse(t)

Submit(t) == Lookup(t) \/ Create(t) \/ Return(t)

Unheard(t) == UNCHANGED storeVars /\ Edge!Unheard(t)
WorkerStep == UNCHANGED storeVars /\ Edge!WorkerStep
BackoffEnds(e) == UNCHANGED storeVars /\ Edge!BackoffEnds(e)

(* What only happens to the worker: detections, faults. *)
WorkerEvent ==
  /\ UNCHANGED storeVars
  /\ \/ \E e \in Events : Edge!Emit(e)
     \/ Edge!Unreachable
     \/ Edge!LoseAnswer
     \/ Edge!MarkSentRaises
     \/ Edge!Crash

PathNext ==
  \/ WorkerStep
  \/ WorkerEvent
  \/ \E e \in Events : BackoffEnds(e)
  \/ \E t \in Handlers : Submit(t) \/ Unheard(t) \/ Refuse(t)

PathSpec == PathInit /\ [][PathNext]_pathVars

(* The fairness of EdgeDelivery, for threads that run the store's code. *)
FairSpec ==
  /\ PathSpec
  /\ WF_pathVars(WorkerStep)
  /\ \A t \in Handlers : WF_pathVars(Submit(t) \/ Unheard(t))
  /\ \A e \in Events : WF_pathVars(BackoffEnds(e))

-----------------------------------------------------------------------------
(* Properties                                                               *)

(* The store is the API that EdgeDelivery assumes: whatever transactions a  *)
(* POST takes and wherever it dies, an event becomes ingested in one step   *)
(* and stays so, and only a POST that left an incident succeeds.            *)
ImplementsDelivery == Edge!Spec

NotificationsFor(e) ==
  {n \in Store!Enqueued : \E i \in Store!IncidentsOf(e) : notifications[n].incident = i}

(* With fewer failures than attempts, a notifiable detection of the edge    *)
(* reaches the notification queue, unless a request died in the store.      *)
AlertQueued ==
  \A e \in Notifiable : e \in emitted ~> NotificationsFor(e) # {} \/ aborts > 0

(* docs/deployment/staging-pilot.md: the offline queue goes back to 0 when  *)
(* the API is available.  It does for a source that ends.                   *)
QueueEmpties == Edge!QueueEmpties
=============================================================================
