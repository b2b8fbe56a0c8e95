------------------------ MODULE IncidentStore_proofs ------------------------
(***************************************************************************)
(* Machine-checked theorems about IncidentStore, for every set of          *)
(* requests, events and ids and every notification setting.                *)
(***************************************************************************)
EXTENDS IncidentStore, TLAPS, FiniteSetTheorems

(* The transition relation as one disjunction of request steps, which the  *)
(* proofs split by action.                                                 *)
DetectorNext(d) ==
  \/ \E e \in Events : LookupHit(d, e) \/ LookupMiss(d, e)
  \/ DetectorStep(d)
  \/ AbortDetector(d)

OperatorNext(o) ==
  \/ \E i \in Incidents, target \in Moves, hasReason \in BOOLEAN :
       Decide(o, i, target, hasReason)
  \/ OperatorStep(o)
  \/ AbortOperator(o)

(* What the locals of a request in flight hold: TypeOK alone does not       *)
(* survive a step, since it lets a request insert an incident of no event.  *)
Locals ==
  /\ \A d \in Detectors : dpc[d] # "idle" => dEvent[d] \in Events
  /\ \A d \in Detectors : dpc[d] \in {"audit", "notify"} =>
       dIncident[d] \in IncidentsOf(dEvent[d])
  /\ \A o \in Operators : opc[o] # "idle" =>
       /\ oIncident[o] \in Stored
       /\ oRead[o] \in Status
       /\ oCopy[o].status \in Moves

-----------------------------------------------------------------------------
(* Lemmas about the rows and the table.                                     *)

LEMMA NewRowType ==
  ASSUME NEW e \in Events
  PROVE  /\ NewRow(e) \in Row
         /\ NewRow(e).event = e
         /\ NewRow(e).status = "open"
  BY DEF NewRow, Row, Unstamped, Status

LEMMA NoRowType == NoRow \in Row /\ NoRow.status = "absent"
  BY DEF NoRow, Row, Unstamped

LEMMA UpdatedType ==
  ASSUME NEW current \in Row, NEW copy \in Row, NEW loaded \in Row
  PROVE  /\ Updated(current, copy, loaded) \in Row
         /\ Updated(current, copy, loaded).event = current.event
         /\ Updated(current, copy, loaded).status \in {copy.status, current.status}
  BY DEF Updated, Row

(* Only an insert and a flush write table incidents. *)
LEMMA TableWrites ==
  ASSUME TypeOK, Locals, [Next]_vars
  PROVE  \/ incidents' = incidents
         \/ \E d \in Detectors : Insert(d)
         \/ \E o \in Operators : Flush(o)
  BY DEF Next, DetectorStep, OperatorStep, LookupHit, LookupMiss,
     InsertConflict, Reread, AuditCreated, EnqueueNotification, AbortDetector,
     Decide, MergeLoad, AuditMove, AbortOperator, tables, vars

LEMMA InsertEffect ==
  ASSUME TypeOK, Locals, NEW d \in Detectors, Insert(d)
  PROVE  /\ incidents' \in [Incidents -> Row]
         /\ dIncident'[d] \in Incidents \ Stored
         /\ Stored' = Stored \cup {dIncident'[d]}
         /\ incidents'[dIncident'[d]] = NewRow(dEvent[d])
         /\ \A i \in Stored : incidents'[i] = incidents[i]
<1>1. PICK i \in Incidents \ Stored :
        /\ incidents' = [incidents EXCEPT ![i] = NewRow(dEvent[d])]
        /\ dIncident' = [dIncident EXCEPT ![d] = i]
  BY DEF Insert
<1>2. dEvent[d] \in Events
  BY DEF Insert, Locals
<1>3. dIncident'[d] = i
  BY <1>1 DEF TypeOK
<1> QED
  BY <1>1, <1>2, <1>3, NewRowType DEF TypeOK, Stored

LEMMA FlushEffect ==
  ASSUME TypeOK, Locals, NEW o \in Operators, Flush(o)
  PROVE  /\ incidents' \in [Incidents -> Row]
         /\ oIncident[o] \in Stored
         /\ Stored' = Stored
         /\ \A i \in Stored : incidents'[i].event = incidents[i].event
         /\ \A i \in Stored : i # oIncident[o] => incidents'[i] = incidents[i]
         /\ incidents'[oIncident[o]]
              = Updated(incidents[oIncident[o]], oCopy[o], oLoaded[o])
         /\ incidents'[oIncident[o]].status
              \in {oCopy[o].status, incidents[oIncident[o]].status}
<1>1. /\ oIncident[o] \in Stored
      /\ oCopy[o].status \in Moves
  BY DEF Flush, Locals
<1>2. incidents[oIncident[o]] \in Row /\ oCopy[o] \in Row /\ oLoaded[o] \in Row
  BY <1>1 DEF TypeOK, Stored
<1>3. incidents' = [incidents EXCEPT ![oIncident[o]] =
                      Updated(incidents[oIncident[o]], oCopy[o], oLoaded[o])]
  BY DEF Flush
<1> QED
  BY <1>1, <1>2, <1>3, UpdatedType DEF TypeOK, Stored, Moves

(* No step takes a row out of the table or gives it to another event. *)
LEMMA RowsStay ==
  ASSUME TypeOK, Locals, [Next]_vars
  PROVE  /\ Stored \subseteq Stored'
         /\ \A i \in Stored : incidents'[i].event = incidents[i].event
         /\ \A e : IncidentsOf(e) \subseteq IncidentsOf(e)'
<1>1. CASE incidents' = incidents
  BY <1>1 DEF Stored, IncidentsOf
<1>2. ASSUME NEW d \in Detectors, Insert(d)
      PROVE  /\ Stored \subseteq Stored'
             /\ \A i \in Stored : incidents'[i].event = incidents[i].event
  BY <1>2, InsertEffect
<1>3. ASSUME NEW o \in Operators, Flush(o)
      PROVE  /\ Stored \subseteq Stored'
             /\ \A i \in Stored : incidents'[i].event = incidents[i].event
  BY <1>3, FlushEffect
<1>4. /\ Stored \subseteq Stored'
      /\ \A i \in Stored : incidents'[i].event = incidents[i].event
  BY <1>1, <1>2, <1>3, TableWrites DEF Stored
<1> QED
  BY <1>4 DEF IncidentsOf

-----------------------------------------------------------------------------
(* Type correctness                                                         *)

LEMMA InitType == Init => TypeOK /\ Locals
  BY StoreAssumption, NoRowType
  DEF Init, TypeOK, Locals, NoNotification, NotificationRow, Status

LEMMA DetectorType ==
  ASSUME TypeOK, Locals, NEW d \in Detectors, DetectorNext(d)
  PROVE  TypeOK' /\ Locals'
<1> USE StoreAssumption DEF TypeOK, Locals
<1>1. ASSUME NEW e \in Events, LookupHit(d, e) PROVE TypeOK' /\ Locals'
  BY <1>1 DEF LookupHit, tables, operatorVars, IncidentsOf, Stored
<1>2. ASSUME NEW e \in Events, LookupMiss(d, e) PROVE TypeOK' /\ Locals'
  BY <1>2 DEF LookupMiss, tables, operatorVars, IncidentsOf, Stored
<1>3. CASE Insert(d)
  <2>1. /\ incidents' \in [Incidents -> Row]
        /\ dIncident' \in [Detectors -> Incidents \cup {None}]
        /\ dIncident'[d] \in Incidents
        /\ \A c \in Detectors \ {d} : dIncident'[c] = dIncident[c]
    BY <1>3, InsertEffect DEF Insert
  <2>2. TypeOK'
    BY <1>3, <2>1 DEF Insert, operatorVars
  <2>3. /\ \A i \in Stored : i \in Stored' /\ incidents'[i] = incidents[i]
        /\ dIncident'[d] \in Stored'
        /\ incidents'[dIncident'[d]].event = dEvent[d]
    <3>1. dEvent[d] \in Events
      BY <1>3 DEF Insert
    <3> HIDE DEF TypeOK, Locals
    <3> QED
      BY <1>3, <3>1, InsertEffect, NewRowType
  <2>4. Locals'
    BY <1>3, <2>1, <2>3 DEF Insert, operatorVars, IncidentsOf
  <2> QED
    BY <2>2, <2>4
<1>4. CASE InsertConflict(d)
  BY <1>4 DEF InsertConflict, tables, operatorVars, IncidentsOf, Stored
<1>5. CASE Reread(d)
  BY <1>5 DEF Reread, DetectorIdle, tables, operatorVars, IncidentsOf, Stored
<1>6. CASE AuditCreated(d)
  BY <1>6 DEF AuditCreated, operatorVars, AuditEntry, Status, IncidentsOf, Stored
<1>7. CASE EnqueueNotification(d)
  <2>1. dEvent[d] \in Events /\ dIncident[d] \in Incidents
    BY <1>7 DEF EnqueueNotification, IncidentsOf, Stored
  <2>2. notifications' \in [Notifications -> NotificationRow]
    BY <1>7, <2>1 DEF EnqueueNotification, NotificationRow, Channel, EnqueuedStatus
  <2> QED
    BY <1>7, <2>1, <2>2
    DEF EnqueueNotification, DetectorIdle, operatorVars, IncidentsOf, Stored
<1>8. CASE AbortDetector(d)
  BY <1>8 DEF AbortDetector, DetectorIdle, tables, operatorVars, IncidentsOf, Stored
<1> QED
  BY <1>1, <1>2, <1>3, <1>4, <1>5, <1>6, <1>7, <1>8
  DEF DetectorNext, DetectorStep

LEMMA OperatorType ==
  ASSUME TypeOK, Locals, NEW o \in Operators, OperatorNext(o)
  PROVE  TypeOK' /\ Locals'
<1> USE StoreAssumption DEF TypeOK, Locals
<1>1. ASSUME NEW i \in Incidents, NEW target \in Moves, NEW hasReason \in BOOLEAN,
             Decide(o, i, target, hasReason)
      PROVE  TypeOK' /\ Locals'
  <2>1. incidents[i] \in Row /\ incidents[i].status \in Status
    BY <1>1 DEF Decide, Stored, Row
  <2>2. [incidents[i] EXCEPT !.status = target, !.by[target] = o] \in Row
    BY <2>1 DEF Row, Status
  <2> QED
    BY <1>1, <2>1, <2>2
    DEF Decide, tables, detectorVars, IncidentsOf, Stored, Row
<1>2. CASE MergeLoad(o)
  BY <1>2 DEF MergeLoad, tables, detectorVars, IncidentsOf, Stored
<1>3. CASE Flush(o)
  <2>1. TypeOK'
    BY <1>3, FlushEffect DEF Flush, detectorVars
  <2>2. \A i \in Stored : i \in Stored' /\ incidents'[i].event = incidents[i].event
    BY <1>3, FlushEffect
  <2> QED
    BY <1>3, <2>1, <2>2 DEF Flush, detectorVars, IncidentsOf
<1>4. CASE AuditMove(o)
  <2>1. [incident |-> oIncident[o], from |-> oRead[o],
         to |-> oCopy[o].status, actor |-> o] \in AuditEntry
    BY <1>4 DEF AuditMove, AuditEntry, Status, Stored
  <2> QED
    BY <1>4, <2>1, NoRowType
    DEF AuditMove, OperatorIdle, detectorVars, IncidentsOf, Stored
<1>5. CASE AbortOperator(o)
  BY <1>5, NoRowType
  DEF AbortOperator, OperatorIdle, tables, detectorVars, IncidentsOf, Stored
<1> QED
  BY <1>1, <1>2, <1>3, <1>4, <1>5 DEF OperatorNext, OperatorStep

LEMMA NextType == TypeOK /\ Locals /\ [Next]_vars => TypeOK' /\ Locals'
<1> SUFFICES ASSUME TypeOK, Locals, [Next]_vars PROVE TypeOK' /\ Locals'
  OBVIOUS
<1>1. CASE UNCHANGED vars
  BY <1>1 DEF vars, tables, detectorVars, operatorVars, TypeOK, Locals,
     IncidentsOf, Stored
<1> QED
  BY <1>1, DetectorType, OperatorType DEF Next, DetectorNext, OperatorNext

(* Every table, local and history keeps its type, and a request in flight   *)
(* works on an event and an incident that exist.                            *)
THEOREM TypeCorrect == Spec => [](TypeOK /\ Locals)
<1>1. TypeOK /\ Locals /\ [Next]_vars => (TypeOK /\ Locals)'
  BY NextType
<1> QED
  BY InitType, <1>1, PTL DEF Spec

-----------------------------------------------------------------------------
(* One incident and one notification per event                              *)

(* The inductive invariant behind RepliesAgree and NotifiedOnceAfterAudit:  *)
(* the rows are unique per event, two requests never create the same        *)
(* incident, and a request that has still to enqueue its notification is    *)
(* the only one that ever will.                                             *)
UniqueRows == \A i, j \in Stored : incidents[i].event = incidents[j].event => i = j

Created(d) == dpc[d] \in {"audit", "notify"}

HasCreatedEntry(i) == \E a \in audit : a.incident = i /\ a.from = "absent"

CreatorsDiffer ==
  \A c, d \in Detectors : Created(c) /\ Created(d) /\ dIncident[c] = dIncident[d] => c = d

CreationInOrder ==
  \A d \in Detectors :
    /\ Created(d) => NotificationsOf(dIncident[d]) = {}
    /\ dpc[d] = "notify" => HasCreatedEntry(dIncident[d])

StoreInv ==
  /\ TypeOK
  /\ Locals
  /\ UniqueRows
  /\ CreatorsDiffer
  /\ CreationInOrder
  /\ RepliesAgree
  /\ NotifiedOnceAfterAudit

LEMMA InitInv == Init => StoreInv
<1> SUFFICES ASSUME Init PROVE StoreInv
  OBVIOUS
<1>1. Stored = {} /\ Enqueued = {}
  BY NoRowType DEF Init, Stored, Enqueued, NoNotification
<1> QED
  BY <1>1, InitType
  DEF Init, StoreInv, UniqueRows, CreatorsDiffer, CreationInOrder, Created,
      RepliesAgree, NotifiedOnceAfterAudit

LEMMA UniqueRowsStep == StoreInv /\ [Next]_vars => UniqueRows'
<1> SUFFICES ASSUME StoreInv, [Next]_vars PROVE UniqueRows'
  OBVIOUS
<1>0. TypeOK /\ Locals /\ UniqueRows
  BY DEF StoreInv
<1>1. CASE incidents' = incidents
  BY <1>0, <1>1 DEF UniqueRows, Stored
<1>2. ASSUME NEW d \in Detectors, Insert(d) PROVE UniqueRows'
  <2>1. \A i \in Stored : incidents[i].event # dEvent[d]
    BY <1>2 DEF Insert, UniqueViolation, IncidentsOf
  <2>2. incidents'[dIncident'[d]].event = dEvent[d]
    BY <1>0, <1>2, InsertEffect, NewRowType DEF Insert, Locals
  <2>3. /\ Stored' = Stored \cup {dIncident'[d]}
        /\ \A i \in Stored : incidents'[i] = incidents[i]
    BY <1>0, <1>2, InsertEffect
  <2> QED
    BY <1>0, <2>1, <2>2, <2>3 DEF UniqueRows
<1>3. ASSUME NEW o \in Operators, Flush(o) PROVE UniqueRows'
  BY <1>0, <1>3, FlushEffect DEF UniqueRows
<1> QED
  BY <1>0, <1>1, <1>2, <1>3, TableWrites

LEMMA RepliesAgreeStep == StoreInv /\ [Next]_vars => RepliesAgree'
<1> SUFFICES ASSUME StoreInv, [Next]_vars PROVE RepliesAgree'
  OBVIOUS
<1>0. TypeOK /\ Locals /\ RepliesAgree /\ UniqueRows'
  BY UniqueRowsStep DEF StoreInv
<1>1. \A e : IncidentsOf(e) \subseteq IncidentsOf(e)'
  BY <1>0, RowsStay
<1>2. \A r \in replies' : r \in replies \/ r[2] \in IncidentsOf(r[1])
  <2>1. ASSUME NEW d \in Detectors, DetectorNext(d)
        PROVE  \A r \in replies' : r \in replies \/ r[2] \in IncidentsOf(r[1])
    BY <1>0, <2>1
    DEF DetectorNext, DetectorStep, LookupHit, LookupMiss, Insert,
        InsertConflict, Reread, AuditCreated, EnqueueNotification,
        AbortDetector, Locals
  <2>2. ASSUME NEW o \in Operators, OperatorNext(o) PROVE replies' = replies
    BY <2>2
    DEF OperatorNext, OperatorStep, Decide, MergeLoad, Flush, AuditMove,
        AbortOperator, detectorVars
  <2> QED
    BY <2>1, <2>2 DEF Next, DetectorNext, OperatorNext, vars, detectorVars
<1>3. \A r \in replies' : r[2] \in IncidentsOf(r[1])'
  BY <1>0, <1>1, <1>2 DEF RepliesAgree
<1> QED
  BY <1>0, <1>3 DEF RepliesAgree, UniqueRows, IncidentsOf

(* The creation of an incident is disturbed by nothing but the requests     *)
(* that create one: the steps that touch none of its state.                 *)
CreationUntouched ==
  /\ \A d \in Detectors : Created(d)' => dpc'[d] = dpc[d] /\ dIncident'[d] = dIncident[d]
  /\ audit \subseteq audit'
  /\ notifications' = notifications

LEMMA CreationCases ==
  ASSUME StoreInv, [Next]_vars
  PROVE  \/ CreationUntouched
         \/ \E d \in Detectors : Insert(d) \/ AuditCreated(d) \/ EnqueueNotification(d)
<1> USE DEF CreationUntouched, Created
<1>0. TypeOK
  BY DEF StoreInv
<1>1. CASE UNCHANGED vars
  BY <1>1 DEF vars, tables, detectorVars
<1>2. ASSUME NEW d \in Detectors, DetectorNext(d)
      PROVE  \/ CreationUntouched
             \/ Insert(d) \/ AuditCreated(d) \/ EnqueueNotification(d)
  BY <1>0, <1>2
  DEF DetectorNext, DetectorStep, LookupHit, LookupMiss, InsertConflict,
      Reread, AbortDetector, DetectorIdle, tables, TypeOK
<1>3. ASSUME NEW o \in Operators, OperatorNext(o) PROVE CreationUntouched
  BY <1>3
  DEF OperatorNext, OperatorStep, Decide, MergeLoad, Flush, AuditMove,
      AbortOperator, detectorVars, tables
<1> QED
  BY <1>1, <1>2, <1>3 DEF Next, DetectorNext, OperatorNext

LEMMA InsertCreation ==
  ASSUME StoreInv, NEW d \in Detectors, Insert(d)
  PROVE  CreatorsDiffer' /\ CreationInOrder' /\ NotifiedOnceAfterAudit'
<1>0. TypeOK /\ Locals /\ CreatorsDiffer /\ CreationInOrder /\ NotifiedOnceAfterAudit
  BY DEF StoreInv
<1>1. /\ dIncident'[d] \in Incidents \ Stored
      /\ Stored' = Stored \cup {dIncident'[d]}
  BY <1>0, InsertEffect
<1>2. \A c \in Detectors : Created(c) => dIncident[c] \in Stored
  BY <1>0 DEF Locals, Created, IncidentsOf
<1>3. \A c \in Detectors : c # d => dpc'[c] = dpc[c] /\ dIncident'[c] = dIncident[c]
  BY <1>0 DEF Insert, TypeOK
<1>4. dpc'[d] = "audit" /\ audit' = audit /\ notifications' = notifications
  BY <1>0 DEF Insert, TypeOK
<1>5. CreatorsDiffer'
  BY <1>0, <1>1, <1>2, <1>3 DEF CreatorsDiffer, Created
<1>6. NotificationsOf(dIncident'[d]) = {}
  BY <1>0, <1>1 DEF NotifiedOnceAfterAudit, NotificationsOf
<1>7. CreationInOrder'
  BY <1>0, <1>3, <1>4, <1>6
  DEF CreationInOrder, Created, NotificationsOf, Enqueued, HasCreatedEntry
<1>8. NotifiedOnceAfterAudit'
  BY <1>0, <1>1, <1>4 DEF NotifiedOnceAfterAudit, Enqueued
<1> QED
  BY <1>5, <1>7, <1>8

LEMMA AuditCreation ==
  ASSUME StoreInv, NEW d \in Detectors, AuditCreated(d)
  PROVE  CreatorsDiffer' /\ CreationInOrder' /\ NotifiedOnceAfterAudit'
<1>0. TypeOK /\ CreatorsDiffer /\ CreationInOrder /\ NotifiedOnceAfterAudit
  BY DEF StoreInv
<1>1. /\ dpc[d] = "audit" /\ dpc' = [dpc EXCEPT ![d] = "notify"]
      /\ audit' = audit \cup {[incident |-> dIncident[d], from |-> "absent",
                               to |-> "open", actor |-> d]}
      /\ UNCHANGED <<incidents, notifications, dIncident>>
  BY DEF AuditCreated
<1>2. CreatorsDiffer'
  BY <1>0, <1>1 DEF CreatorsDiffer, Created, TypeOK
<1>3. HasCreatedEntry(dIncident[d])'
  <2> DEFINE a == [incident |-> dIncident[d], from |-> "absent",
                   to |-> "open", actor |-> d]
  <2>1. a \in audit' /\ a.incident = dIncident[d] /\ a.from = "absent"
    BY <1>1
  <2>2. dIncident' = dIncident
    BY <1>1
  <2> HIDE DEF a
  <2> QED
    BY <2>1, <2>2 DEF HasCreatedEntry
<1>4. CreationInOrder'
  <2>1. \A i : HasCreatedEntry(i) => HasCreatedEntry(i)'
    BY <1>1 DEF HasCreatedEntry
  <2>2. \A i : NotificationsOf(i)' = NotificationsOf(i)
    BY <1>1 DEF NotificationsOf, Enqueued
  <2>3. \A c \in Detectors : /\ Created(c)' => Created(c)
                             /\ dpc'[c] = "notify" => dpc[c] = "notify" \/ c = d
    BY <1>0, <1>1 DEF Created, TypeOK
  <2> QED
    BY <1>0, <1>1, <1>3, <2>1, <2>2, <2>3 DEF CreationInOrder
<1>5. NotifiedOnceAfterAudit'
  BY <1>0, <1>1 DEF NotifiedOnceAfterAudit, Enqueued, Stored
<1> QED
  BY <1>2, <1>4, <1>5

LEMMA EnqueueCreation ==
  ASSUME StoreInv, NEW d \in Detectors, EnqueueNotification(d)
  PROVE  CreatorsDiffer' /\ CreationInOrder' /\ NotifiedOnceAfterAudit'
<1>0. /\ TypeOK /\ Locals /\ CreatorsDiffer /\ CreationInOrder
      /\ NotifiedOnceAfterAudit
  BY DEF StoreInv
<1>1. /\ dpc[d] = "notify" /\ dpc' = [dpc EXCEPT ![d] = "idle"]
      /\ \A c \in Detectors : c # d => dIncident'[c] = dIncident[c]
      /\ UNCHANGED <<incidents, audit>>
  BY <1>0 DEF EnqueueNotification, DetectorIdle, TypeOK
<1>2. CreatorsDiffer'
  BY <1>0, <1>1 DEF CreatorsDiffer, Created, TypeOK
<1>3. CASE notifications' = notifications
  BY <1>0, <1>1, <1>2, <1>3
  DEF CreationInOrder, NotifiedOnceAfterAudit, Created, NotificationsOf,
      Enqueued, HasCreatedEntry, Stored, TypeOK
<1>4. ASSUME NEW n \in Notifications \ Enqueued,
             notifications' = [notifications EXCEPT ![n] =
               [incident |-> dIncident[d], channel |-> Channel,
                status |-> EnqueuedStatus]]
      PROVE  CreationInOrder' /\ NotifiedOnceAfterAudit'
  <2>1. EnqueuedStatus # "absent"
    BY DEF EnqueuedStatus
  <2>2. /\ Enqueued' = Enqueued \cup {n}
        /\ notifications'[n].incident = dIncident[d]
        /\ \A m \in Enqueued : notifications'[m] = notifications[m]
    BY <1>0, <1>4, <2>1 DEF Enqueued, TypeOK
  <2>3. /\ \A m \in Enqueued : notifications[m].incident # dIncident[d]
        /\ HasCreatedEntry(dIncident[d])
        /\ dIncident[d] \in Stored
    BY <1>0, <1>1
    DEF CreationInOrder, Created, NotificationsOf, Locals, IncidentsOf
  <2>4. NotifiedOnceAfterAudit'
    BY <1>0, <1>1, <2>2, <2>3
    DEF NotifiedOnceAfterAudit, HasCreatedEntry, Stored
  <2>5. CreationInOrder'
    BY <1>0, <1>1, <2>2
    DEF CreationInOrder, CreatorsDiffer, Created, NotificationsOf,
        HasCreatedEntry, TypeOK
  <2> QED
    BY <2>4, <2>5
<1> QED
  BY <1>2, <1>3, <1>4 DEF EnqueueNotification

LEMMA CreationStep ==
  StoreInv /\ [Next]_vars =>
    CreatorsDiffer' /\ CreationInOrder' /\ NotifiedOnceAfterAudit'
<1> SUFFICES ASSUME StoreInv, [Next]_vars
             PROVE  CreatorsDiffer' /\ CreationInOrder' /\ NotifiedOnceAfterAudit'
  OBVIOUS
<1>0. /\ TypeOK /\ Locals /\ CreatorsDiffer /\ CreationInOrder
      /\ NotifiedOnceAfterAudit
  BY DEF StoreInv
<1>1. CASE CreationUntouched
  <2>1. Stored \subseteq Stored' /\ Enqueued' = Enqueued
    BY <1>0, <1>1, RowsStay DEF CreationUntouched, Enqueued
  <2>2. \A i : HasCreatedEntry(i) => HasCreatedEntry(i)'
    BY <1>1 DEF CreationUntouched, HasCreatedEntry
  <2> QED
    BY <1>0, <1>1, <2>1, <2>2
    DEF CreationUntouched, CreatorsDiffer, CreationInOrder,
        NotifiedOnceAfterAudit, HasCreatedEntry, NotificationsOf, Created
<1> QED
  BY <1>1, CreationCases, InsertCreation, AuditCreation, EnqueueCreation

LEMMA NextInv == StoreInv /\ [Next]_vars => StoreInv'
  BY NextType, UniqueRowsStep, RepliesAgreeStep, CreationStep DEF StoreInv

(* The tables keep one incident per detection event. *)
THEOREM StoreInvariant == Spec => []StoreInv
  BY InitInv, NextInv, PTL DEF Spec

(* However detection requests race, crash and are repeated, every answer to *)
(* the same event names the same stored incident.                           *)
THEOREM IngestIsIdempotent == Spec => []RepliesAgree
<1>1. StoreInv => RepliesAgree
  BY DEF StoreInv
<1> QED
  BY <1>1, StoreInvariant, PTL

(* No incident gets two notifications, and none before its audit entry. *)
THEOREM NotifiedAtMostOnce == Spec => []NotifiedOnceAfterAudit
<1>1. StoreInv => NotifiedOnceAfterAudit
  BY DEF StoreInv
<1> QED
  BY <1>1, StoreInvariant, PTL

-----------------------------------------------------------------------------
(* No step reopens an incident                                              *)

LEMMA NeverReopenedStep ==
  ASSUME TypeOK, Locals, [Next]_vars, NEW i \in Incidents,
         incidents[i].status \in Moves
  PROVE  incidents'[i].status \in Moves
<1>0. i \in Stored
  BY DEF Stored, Moves
<1>1. ASSUME NEW d \in Detectors, Insert(d) PROVE incidents'[i] = incidents[i]
  BY <1>0, <1>1, InsertEffect
<1>2. ASSUME NEW o \in Operators, Flush(o) PROVE incidents'[i].status \in Moves
  <2>1. oCopy[o].status \in Moves
    BY <1>2 DEF Flush, Locals
  <2> QED
    BY <1>0, <1>2, <2>1, FlushEffect
<1> QED
  BY <1>1, <1>2, TableWrites

(* An incident somebody acted on is never open again, whatever stale copies *)
(* concurrent requests write.                                               *)
THEOREM NoReopening == Spec => NeverReopened
<1>1. TypeOK /\ Locals /\ [Next]_vars =>
        [\A i \in Incidents :
           incidents[i].status \in Moves => incidents'[i].status \in Moves]_vars
  BY NeverReopenedStep
<1> QED
  BY <1>1, TypeCorrect, PTL DEF Spec, NeverReopened
-----------------------------------------------------------------------------
(* Gaps cost deaths                                                         *)

(* A request names an incident only while it creates it: what a detector    *)
(* that ends leaves behind is at most the incident it had inserted.         *)
NamesOwn == \A d \in Detectors : dIncident[d] # None => Created(d)

HasMoveEntry(i) == \E a \in audit : a.incident = i /\ a.to = incidents[i].status

NoCreatedEntry(i) == ~Creating(i) /\ ~HasCreatedEntry(i)

NoMoveEntry(i) ==
  incidents[i].status # "open" /\ ~Moving(i, incidents[i].status) /\ ~HasMoveEntry(i)

GapInv ==
  /\ StoreInv
  /\ NamesOwn
  /\ IsFiniteSet(Unaudited) /\ IsFiniteSet(Unqueued)
  /\ GapsAreDeaths

LEMMA UnauditedParts ==
  Unaudited = {i \in Stored : NoCreatedEntry(i) \/ NoMoveEntry(i)}
  BY DEF Unaudited, NoCreatedEntry, NoMoveEntry, HasCreatedEntry, HasMoveEntry

LEMMA InitGaps == Init => GapInv
<1> SUFFICES ASSUME Init PROVE GapInv
  OBVIOUS
<1>1. Stored = {}
  BY NoRowType DEF Init, Stored
<1>2. Unaudited = {} /\ Unqueued = {}
  BY <1>1 DEF Unaudited, Unqueued
<1> QED
  BY <1>2, InitInv, FS_EmptySet DEF Init, GapInv, NamesOwn, GapsAreDeaths

(* The steps that create no gap: the tables, the creations and the moves in *)
(* flight stay, or more entries come.                                       *)
LEMMA QuietGaps ==
  ASSUME UNCHANGED <<incidents, notifications, dIncident>>, audit \subseteq audit',
         \A i, s : Moving(i, s) => Moving(i, s)' \/ \E a \in audit' : a.incident = i /\ a.to = s
  PROVE  Unaudited' \subseteq Unaudited /\ Unqueued' \subseteq Unqueued
<1>1. Stored' = Stored
  BY DEF Stored
<1>2. \A i : Creating(i)' <=> Creating(i)
  BY DEF Creating
<1>3. \A i : HasCreatedEntry(i) => HasCreatedEntry(i)'
  BY DEF HasCreatedEntry
<1>4. \A i : NoMoveEntry(i)' => NoMoveEntry(i)
  BY DEF NoMoveEntry, HasMoveEntry
<1>5. Unaudited' \subseteq Unaudited
  BY <1>1, <1>2, <1>3, <1>4, UnauditedParts DEF NoCreatedEntry, Unaudited
<1>6. Unqueued' \subseteq Unqueued
  BY <1>1, <1>2 DEF Unqueued, NotificationsOf, Enqueued
<1> QED
  BY <1>5, <1>6
NoNewGaps ==
  /\ Unaudited' \subseteq Unaudited /\ Unqueued' \subseteq Unqueued
  /\ aborts' = aborts
  /\ NamesOwn'

LEMMA InsertGaps ==
  ASSUME StoreInv, NamesOwn, NEW d \in Detectors, Insert(d)
  PROVE  NoNewGaps
<1>0. TypeOK /\ Locals
  BY DEF StoreInv
<1>1. PICK j \in Incidents \ Stored :
        /\ incidents' = [incidents EXCEPT ![j] = NewRow(dEvent[d])]
        /\ dIncident' = [dIncident EXCEPT ![d] = j]
  BY DEF Insert
<1>2. /\ Stored' = Stored \cup {j}
      /\ \A i \in Stored : incidents'[i] = incidents[i]
      /\ incidents'[j].status = "open"
  BY <1>0, <1>1, NewRowType DEF TypeOK, Stored, Insert, Locals
<1>3. /\ dIncident[d] = None
      /\ dIncident'[d] = j
      /\ \A c \in Detectors \ {d} : dIncident'[c] = dIncident[c] /\ dpc'[c] = dpc[c]
      /\ dpc'[d] = "audit"
      /\ UNCHANGED <<audit, notifications, operatorVars, aborts>>
  BY <1>0, <1>1 DEF Insert, NamesOwn, Created, TypeOK
<1>4. Creating(j)'
  BY <1>3 DEF Creating
<1>5. \A i \in Stored : Creating(i) => Creating(i)'
  <2>1. None \notin Stored
    BY StoreAssumption DEF Stored
  <2> QED
    BY <1>3, <2>1 DEF Creating
<1>6. \A i \in Stored : NoCreatedEntry(i)' => NoCreatedEntry(i)
  BY <1>3, <1>5 DEF NoCreatedEntry, HasCreatedEntry
<1>7. \A i \in Stored : NoMoveEntry(i)' => NoMoveEntry(i)
  BY <1>2, <1>3 DEF NoMoveEntry, HasMoveEntry, Moving, operatorVars
<1>8. ~NoCreatedEntry(j)' /\ ~NoMoveEntry(j)'
  BY <1>2, <1>4 DEF NoCreatedEntry, NoMoveEntry
<1>9. Unaudited' \subseteq Unaudited
  <2>1. \A i \in Unaudited' : i \in Stored' /\ (NoCreatedEntry(i)' \/ NoMoveEntry(i)')
    BY DEF Unaudited, NoCreatedEntry, NoMoveEntry, HasCreatedEntry, HasMoveEntry
  <2> QED
    BY <1>2, <1>6, <1>7, <1>8, <2>1, UnauditedParts
<1>10. Unqueued' \subseteq Unqueued
  <2>1. \A i : NotificationsOf(i)' = NotificationsOf(i)
    BY <1>3 DEF NotificationsOf, Enqueued
  <2> QED
    BY <1>2, <1>4, <1>5, <2>1 DEF Unqueued
<1> QED
  BY <1>3, <1>9, <1>10 DEF NoNewGaps, NamesOwn, Created

LEMMA EnqueueGaps ==
  ASSUME StoreInv, NamesOwn, NEW d \in Detectors, EnqueueNotification(d)
  PROVE  NoNewGaps
<1>0. TypeOK /\ Locals /\ CreationInOrder
  BY DEF StoreInv
<1>1. PICK j \in Stored : j = dIncident[d] /\ incidents[j].event = dEvent[d] /\ HasCreatedEntry(j)
  BY <1>0 DEF EnqueueNotification, Locals, CreationInOrder, IncidentsOf
<1>2. /\ UNCHANGED <<incidents, audit, operatorVars, aborts>>
      /\ dIncident'[d] = None
      /\ \A c \in Detectors \ {d} : dIncident'[c] = dIncident[c] /\ dpc'[c] = dpc[c]
  BY <1>0 DEF EnqueueNotification, DetectorIdle, TypeOK
<1>3. \A i : i # j => (Creating(i) => Creating(i)')
  BY <1>1, <1>2 DEF Creating
<1>4. \A i : NotificationsOf(i) \subseteq NotificationsOf(i)'
  <2>1. CASE notifications' = notifications
    BY <2>1 DEF NotificationsOf, Enqueued
  <2>2. ASSUME NEW n \in Notifications \ Enqueued, NEW row,
               notifications' = [notifications EXCEPT ![n] = row]
        PROVE  \A i : NotificationsOf(i) \subseteq NotificationsOf(i)'
    BY <1>0, <2>2 DEF NotificationsOf, Enqueued, TypeOK
  <2> QED
    BY <2>1, <2>2 DEF EnqueueNotification
<1>5. incidents[j].event \in Notifiable => NotificationsOf(j)' # {}
  <2> SUFFICES ASSUME incidents[j].event \in Notifiable
               PROVE  NotificationsOf(j)' # {}
    OBVIOUS
  <2>1. IsNotifiable(dEvent[d])
    BY <1>1 DEF IsNotifiable
  <2>2. PICK n \in Notifications \ Enqueued : notifications' = [notifications EXCEPT ![n] =
               [incident |-> j, channel |-> Channel, status |-> EnqueuedStatus]]
    BY <1>1, <2>1 DEF EnqueueNotification
  <2>3. EnqueuedStatus # "absent"
    BY DEF EnqueuedStatus
  <2>4. notifications'[n].status = EnqueuedStatus /\ notifications'[n].incident = j
    BY <1>0, <2>2 DEF TypeOK
  <2> QED
    BY <2>3, <2>4 DEF NotificationsOf, Enqueued
<1>6. Stored' = Stored /\ \A i : HasCreatedEntry(i)' = HasCreatedEntry(i)
  BY <1>2 DEF Stored, HasCreatedEntry
<1>7. \A i : NoMoveEntry(i)' => NoMoveEntry(i)
  BY <1>2 DEF NoMoveEntry, HasMoveEntry, Moving, operatorVars
<1>8. \A i : NoCreatedEntry(i)' => NoCreatedEntry(i)
  BY <1>1, <1>3, <1>6 DEF NoCreatedEntry
<1>9. Unaudited' \subseteq Unaudited
  <2>1. \A i \in Unaudited' : i \in Stored' /\ (NoCreatedEntry(i)' \/ NoMoveEntry(i)')
    BY DEF Unaudited, NoCreatedEntry, NoMoveEntry, HasCreatedEntry, HasMoveEntry
  <2> QED
    BY <1>6, <1>7, <1>8, <2>1, UnauditedParts
<1>10. Unqueued' \subseteq Unqueued
  BY <1>2, <1>3, <1>4, <1>5, <1>6 DEF Unqueued
<1> QED
  BY <1>0, <1>2, <1>9, <1>10 DEF NoNewGaps, NamesOwn, Created

LEMMA FlushGaps ==
  ASSUME StoreInv, NamesOwn, NEW o \in Operators, Flush(o)
  PROVE  NoNewGaps
<1>0. TypeOK /\ Locals
  BY DEF StoreInv
<1>1. /\ opc[o] = "flush" /\ opc'[o] = "audit"
      /\ \A p \in Operators \ {o} : opc'[p] = opc[p]
      /\ UNCHANGED <<audit, notifications, detectorVars, oIncident, oCopy, aborts>>
  BY <1>0 DEF Flush, TypeOK
<1>2. /\ Stored' = Stored
      /\ \A i \in Stored : incidents'[i].event = incidents[i].event
      /\ \A i \in Stored : i # oIncident[o] => incidents'[i] = incidents[i]
      /\ incidents'[oIncident[o]].status \in {oCopy[o].status, incidents[oIncident[o]].status}
  BY <1>0, FlushEffect
<1>3. \A i, s : Moving(i, s) => Moving(i, s)'
  BY <1>1 DEF Moving
<1>4. \A i : NoCreatedEntry(i)' => NoCreatedEntry(i)
  BY <1>1 DEF NoCreatedEntry, HasCreatedEntry, Creating, detectorVars
<1>5. ASSUME NEW i \in Stored, NoMoveEntry(i)' PROVE NoMoveEntry(i)
  <2>1. incidents'[i].status = incidents[i].status
    BY <1>1, <1>2, <1>5 DEF NoMoveEntry, Moving
  <2> QED
    BY <1>1, <1>3, <1>5, <2>1 DEF NoMoveEntry, HasMoveEntry
<1>6. Unaudited' \subseteq Unaudited
  <2>1. \A i \in Unaudited' : i \in Stored' /\ (NoCreatedEntry(i)' \/ NoMoveEntry(i)')
    BY DEF Unaudited, NoCreatedEntry, NoMoveEntry, HasCreatedEntry, HasMoveEntry
  <2> QED
    BY <1>2, <1>4, <1>5, <2>1, UnauditedParts
<1>7. Unqueued' \subseteq Unqueued
  BY <1>1, <1>2 DEF Unqueued, NotificationsOf, Enqueued, Creating, detectorVars
<1> QED
  BY <1>1, <1>6, <1>7 DEF NoNewGaps, NamesOwn, Created, detectorVars
LEMMA DetectorGaps ==
  ASSUME StoreInv, NamesOwn, NEW d \in Detectors,
         DetectorStep(d) \/ \E e \in Events : LookupHit(d, e) \/ LookupMiss(d, e)
  PROVE  NoNewGaps
<1>0. TypeOK
  BY DEF StoreInv
<1>1. ASSUME UNCHANGED <<incidents, notifications, dIncident, operatorVars>>,
             audit \subseteq audit'
      PROVE  Unaudited' \subseteq Unaudited /\ Unqueued' \subseteq Unqueued
  <2>1. \A i, s : Moving(i, s) => Moving(i, s)'
    BY <1>1 DEF Moving, operatorVars
  <2> QED
    BY <1>1, <2>1, QuietGaps
<1>2. ASSUME NEW e \in Events, LookupHit(d, e) \/ LookupMiss(d, e) PROVE NoNewGaps
  BY <1>0, <1>1, <1>2
  DEF LookupHit, LookupMiss, tables, NoNewGaps, NamesOwn, Created, TypeOK
<1>3. CASE InsertConflict(d) \/ Reread(d)
  <2>1. dIncident[d] = None
    BY <1>3 DEF InsertConflict, Reread, NamesOwn, Created
  <2>2. dIncident' = dIncident
    BY <1>0, <1>3, <2>1 DEF InsertConflict, Reread, DetectorIdle, TypeOK
  <2> QED
    BY <1>0, <1>1, <1>3, <2>1, <2>2
    DEF InsertConflict, Reread, DetectorIdle, tables, NoNewGaps, NamesOwn, Created, TypeOK
<1>4. CASE AuditCreated(d)
  BY <1>0, <1>1, <1>4 DEF AuditCreated, NoNewGaps, NamesOwn, Created, TypeOK
<1> QED
  BY <1>2, <1>3, <1>4, InsertGaps, EnqueueGaps DEF DetectorStep

LEMMA OperatorGaps ==
  ASSUME StoreInv, NamesOwn, NEW o \in Operators,
         OperatorStep(o) \/ \E i \in Incidents, target \in Moves, hasReason \in BOOLEAN :
                              Decide(o, i, target, hasReason)
  PROVE  NoNewGaps
<1>0. TypeOK
  BY DEF StoreInv
<1>1. ASSUME UNCHANGED <<incidents, notifications, detectorVars, aborts>>, audit \subseteq audit',
             \A i, s : Moving(i, s) => Moving(i, s)' \/ \E a \in audit' : a.incident = i /\ a.to = s
      PROVE  NoNewGaps
  BY <1>1, QuietGaps DEF detectorVars, NoNewGaps, NamesOwn, Created
<1>2. ASSUME opc[o] # "audit",
             \A p \in Operators \ {o} : /\ opc'[p] = opc[p] /\ oIncident'[p] = oIncident[p]
                                        /\ oCopy'[p] = oCopy[p]
      PROVE  \A i, s : Moving(i, s) => Moving(i, s)'
  BY <1>2 DEF Moving
<1>3. ASSUME NEW i \in Incidents, NEW target \in Moves, NEW hasReason \in BOOLEAN,
             Decide(o, i, target, hasReason)
      PROVE  NoNewGaps
  BY <1>0, <1>1, <1>2, <1>3 DEF Decide, tables, TypeOK
<1>4. CASE MergeLoad(o)
  BY <1>0, <1>1, <1>2, <1>4 DEF MergeLoad, tables, TypeOK
<1>5. CASE AuditMove(o)
  <2> DEFINE b == [incident |-> oIncident[o], from |-> oRead[o],
                   to |-> oCopy[o].status, actor |-> o]
  <2>1. b \in audit' /\ b.incident = oIncident[o] /\ b.to = oCopy[o].status
    BY <1>5 DEF AuditMove
  <2>2. \A p \in Operators \ {o} :
          opc'[p] = opc[p] /\ oIncident'[p] = oIncident[p] /\ oCopy'[p] = oCopy[p]
    BY <1>0, <1>5 DEF AuditMove, OperatorIdle, TypeOK
  <2> HIDE DEF b
  <2>3. \A i, s : Moving(i, s) => Moving(i, s)' \/ \E a \in audit' : a.incident = i /\ a.to = s
    BY <2>1, <2>2 DEF Moving
  <2> QED
    BY <1>1, <1>5, <2>3 DEF AuditMove
<1> QED
  BY <1>3, <1>4, <1>5, FlushGaps DEF OperatorStep

(* A death leaves at most the incident its request worked on out of step.   *)
LEMMA DeathGaps ==
  ASSUME StoreInv, NamesOwn,
         \/ \E d \in Detectors : AbortDetector(d)
         \/ \E o \in Operators : AbortOperator(o)
  PROVE  /\ aborts' = aborts + 1 /\ NamesOwn'
         /\ \E i : Unaudited' \subseteq Unaudited \cup {i} /\ Unqueued' \subseteq Unqueued \cup {i}
<1>0. TypeOK
  BY DEF StoreInv
<1> DEFINE Spares(j) == \A i : i # j => /\ Creating(i) => Creating(i)'
                                        /\ \A s : Moving(i, s) => Moving(i, s)'
<1>1. ASSUME UNCHANGED tables, NEW j, Spares(j)
      PROVE  Unaudited' \subseteq Unaudited \cup {j} /\ Unqueued' \subseteq Unqueued \cup {j}
  <2>1. \A i : i # j => /\ Creating(i) => Creating(i)'
                        /\ \A s : Moving(i, s) => Moving(i, s)'
    BY <1>1
  <2>2. /\ Stored' = Stored
        /\ \A i : /\ HasCreatedEntry(i)' = HasCreatedEntry(i)
                  /\ HasMoveEntry(i)' = HasMoveEntry(i)
                  /\ NotificationsOf(i)' = NotificationsOf(i)
    BY <1>1 DEF tables, Stored, HasCreatedEntry, HasMoveEntry, NotificationsOf, Enqueued
  <2>3. Unqueued' \subseteq Unqueued \cup {j}
    BY <1>1, <2>1, <2>2 DEF Unqueued, tables
  <2>4. \A i \in Unaudited' : i \in Stored' /\ (NoCreatedEntry(i)' \/ NoMoveEntry(i)')
    BY DEF Unaudited, NoCreatedEntry, NoMoveEntry, HasCreatedEntry, HasMoveEntry
  <2>5. Unaudited' \subseteq Unaudited \cup {j}
    BY <1>1, <2>1, <2>2, <2>4, UnauditedParts DEF NoCreatedEntry, NoMoveEntry, tables
  <2> QED
    BY <2>3, <2>5
<1>2. ASSUME NEW d \in Detectors, AbortDetector(d)
      PROVE  /\ aborts' = aborts + 1 /\ NamesOwn'
             /\ UNCHANGED tables
             /\ \E j : Spares(j)
  <2>1. \A c \in Detectors \ {d} : dIncident'[c] = dIncident[c]
    BY <1>0, <1>2 DEF AbortDetector, DetectorIdle, TypeOK
  <2>2. \A i : i # dIncident[d] => (Creating(i) => Creating(i)')
    BY <2>1 DEF Creating
  <2>3. \A i, s : Moving(i, s) => Moving(i, s)'
    BY <1>2 DEF AbortDetector, operatorVars, Moving
  <2>4. NamesOwn'
    BY <1>0, <1>2 DEF AbortDetector, DetectorIdle, NamesOwn, Created, TypeOK
  <2> QED
    BY <1>2, <2>2, <2>3, <2>4 DEF AbortDetector
<1>3. ASSUME NEW o \in Operators, AbortOperator(o)
      PROVE  /\ aborts' = aborts + 1 /\ NamesOwn'
             /\ UNCHANGED tables
             /\ \E j : Spares(j)
  <2>1. \A p \in Operators \ {o} :
          opc'[p] = opc[p] /\ oIncident'[p] = oIncident[p] /\ oCopy'[p] = oCopy[p]
    BY <1>0, <1>3 DEF AbortOperator, OperatorIdle, TypeOK
  <2>2. \A i : i # oIncident[o] => \A s : Moving(i, s) => Moving(i, s)'
    BY <2>1 DEF Moving
  <2>3. \A i : Creating(i) => Creating(i)'
    BY <1>3 DEF AbortOperator, detectorVars, Creating
  <2>4. NamesOwn'
    BY <1>3 DEF AbortOperator, detectorVars, NamesOwn, Created
  <2> QED
    BY <1>3, <2>2, <2>3, <2>4 DEF AbortOperator
<1> QED
  <2> HIDE DEF Spares
  <2> QED
    BY <1>1, <1>2, <1>3

LEMMA NextGaps == GapInv /\ [Next]_vars => GapInv'
<1> SUFFICES ASSUME GapInv, [Next]_vars PROVE GapInv'
  OBVIOUS
<1>0. /\ StoreInv /\ NamesOwn /\ StoreInv'
      /\ IsFiniteSet(Unaudited) /\ IsFiniteSet(Unqueued)
      /\ Cardinality(Unaudited) <= aborts /\ Cardinality(Unqueued) <= aborts
      /\ aborts \in Nat
  BY NextInv, StoreAssumption DEF GapInv, GapsAreDeaths, StoreInv, TypeOK
<1>1. CASE NoNewGaps
  <2>1. /\ IsFiniteSet(Unaudited') /\ Cardinality(Unaudited') <= Cardinality(Unaudited)
        /\ IsFiniteSet(Unqueued') /\ Cardinality(Unqueued') <= Cardinality(Unqueued)
    BY <1>0, <1>1, FS_Subset DEF NoNewGaps
  <2>2. /\ Cardinality(Unaudited) \in Nat /\ Cardinality(Unaudited') \in Nat
        /\ Cardinality(Unqueued) \in Nat /\ Cardinality(Unqueued') \in Nat
    BY <1>0, <2>1, FS_CardinalityType
  <2> QED
    BY <1>0, <1>1, <2>1, <2>2 DEF GapInv, GapsAreDeaths, NoNewGaps
<1>2. ASSUME \/ \E d \in Detectors : AbortDetector(d)
             \/ \E o \in Operators : AbortOperator(o)
      PROVE  GapInv'
  <2>1. PICK i : Unaudited' \subseteq Unaudited \cup {i} /\ Unqueued' \subseteq Unqueued \cup {i}
    BY <1>0, <1>2, DeathGaps
  <2>2. aborts' = aborts + 1 /\ NamesOwn'
    BY <1>0, <1>2, DeathGaps
  <2>3. /\ IsFiniteSet(Unaudited \cup {i}) /\ Cardinality(Unaudited \cup {i}) <= aborts + 1
        /\ IsFiniteSet(Unqueued \cup {i}) /\ Cardinality(Unqueued \cup {i}) <= aborts + 1
    <3>1. Cardinality(Unaudited) \in Nat /\ Cardinality(Unqueued) \in Nat
      BY <1>0, FS_CardinalityType
    <3>2. /\ IsFiniteSet(Unaudited \cup {i})
          /\ Cardinality(Unaudited \cup {i}) \in {Cardinality(Unaudited), Cardinality(Unaudited) + 1}
      BY <1>0, FS_AddElement
    <3>3. /\ IsFiniteSet(Unqueued \cup {i})
          /\ Cardinality(Unqueued \cup {i}) \in {Cardinality(Unqueued), Cardinality(Unqueued) + 1}
      BY <1>0, FS_AddElement
    <3> QED
      BY <1>0, <3>1, <3>2, <3>3
  <2>4. /\ IsFiniteSet(Unaudited') /\ Cardinality(Unaudited') <= Cardinality(Unaudited \cup {i})
        /\ IsFiniteSet(Unqueued') /\ Cardinality(Unqueued') <= Cardinality(Unqueued \cup {i})
    BY <2>1, <2>3, FS_Subset
  <2>5. /\ Cardinality(Unaudited') \in Nat /\ Cardinality(Unaudited \cup {i}) \in Nat
        /\ Cardinality(Unqueued') \in Nat /\ Cardinality(Unqueued \cup {i}) \in Nat
    BY <2>3, <2>4, FS_CardinalityType
  <2> QED
    BY <1>0, <2>2, <2>3, <2>4, <2>5 DEF GapInv, GapsAreDeaths
<1>3. CASE UNCHANGED vars
  <2>1. \A i, s : Moving(i, s) => Moving(i, s)'
    BY <1>3 DEF vars, operatorVars, Moving
  <2>2. NoNewGaps
    BY <1>0, <1>3, <2>1, QuietGaps DEF vars, tables, detectorVars, NoNewGaps, NamesOwn, Created
  <2> QED
    BY <1>1, <2>2
<1> QED
  BY <1>0, <1>1, <1>2, <1>3, DetectorGaps, OperatorGaps DEF Next

(* However detections and operators race, an incident is out of step with   *)
(* its audit trail, or missing in the notification queue, only at the price *)
(* of a request that died, and each death costs at most one incident.       *)
THEOREM GapsCostDeaths == Spec => []GapsAreDeaths
<1>1. GapInv => GapsAreDeaths
  BY DEF GapInv
<1> QED
  BY InitGaps, NextGaps, <1>1, PTL DEF Spec
-----------------------------------------------------------------------------
(* The lifecycle, while no two operators decide about one incident at once  *)

(* A request has read the incident and not yet written its decision. *)
Deciding(o) == opc[o] \in {"merge", "flush"}

(* No two requests are deciding about the same incident.  This is all that  *)
(* is asked of the operators: any number of them may be at work.            *)
Unraced ==
  \A o, p \in Operators :
    Deciding(o) /\ Deciding(p) /\ oIncident[o] = oIncident[p] => o = p

(* What a request is about to write is the row as it stands, moved along     *)
(* the transition table and stamped by the operator.                        *)
CopiesFresh ==
  \A o \in Operators : Deciding(o) =>
    LET row == incidents[oIncident[o]]
        s == oCopy[o].status
    IN /\ s \in Allowed(row.status)
       /\ oCopy[o].event = row.event
       /\ oCopy[o].by = [row.by EXCEPT ![s] = o]
       /\ opc[o] = "flush" => oLoaded[o] = row

LifecycleInv == CopiesFresh /\ RowCoherent

LEMMA AllowedMoves ==
  /\ \A s : Allowed(s) \subseteq Moves /\ s \notin Allowed(s)
  /\ Allowed("open") = Moves /\ Allowed("acknowledged") = Terminal
  /\ \A s : s \notin {"open", "acknowledged"} => Allowed(s) = {}
  BY DEF Allowed, Moves, Terminal

(* With a fresh copy, the UPDATE of the changed columns writes the copy. *)
LEMMA FlushWritesCopy ==
  ASSUME TypeOK, Locals, CopiesFresh, NEW o \in Operators, Flush(o)
  PROVE  /\ incidents'[oIncident[o]] = oCopy[o]
         /\ oCopy[o] \in Row /\ incidents[oIncident[o]] \in Row
<1> DEFINE row == incidents[oIncident[o]]
           copy == oCopy[o]
<1>1. /\ incidents'[oIncident[o]] = Updated(row, copy, oLoaded[o])
      /\ oIncident[o] \in Stored
  BY FlushEffect
<1>2. row \in Row /\ copy \in Row
  BY <1>1 DEF TypeOK, Stored
<1>3. /\ copy.status \in Allowed(row.status)
      /\ copy.event = row.event
      /\ copy.by = [row.by EXCEPT ![copy.status] = o]
      /\ oLoaded[o] = row
  BY DEF CopiesFresh, Flush, Deciding
<1>4. copy.status # row.status
  BY <1>3, AllowedMoves
<1> HIDE DEF row, copy
<1>5. Updated(row, copy, row).by = copy.by
  BY <1>2, <1>3 DEF Updated, Row
<1>6. Updated(row, copy, row) = copy
  BY <1>2, <1>3, <1>4, <1>5 DEF Updated, Row
<1> QED
  BY <1>1, <1>2, <1>3, <1>6 DEF row, copy

LEMMA InitLifecycle == Init => LifecycleInv
  BY NoRowType DEF Init, LifecycleInv, CopiesFresh, Deciding, RowCoherent, Stored

(* Unless two operators race, nobody's copy grows stale. *)
LEMMA CopiesStep ==
  ASSUME TypeOK, Locals, CopiesFresh, Unraced, [Next]_vars
  PROVE  CopiesFresh'
<1>1. CASE UNCHANGED vars
  BY <1>1 DEF vars, tables, operatorVars, CopiesFresh, Deciding
<1>2. ASSUME NEW d \in Detectors, DetectorNext(d) PROVE CopiesFresh'
  <2>1. UNCHANGED operatorVars
    BY <1>2 DEF DetectorNext, DetectorStep, LookupHit, LookupMiss, Insert,
       InsertConflict, Reread, AuditCreated, EnqueueNotification, AbortDetector
  <2>2. \A i \in Stored : incidents'[i] = incidents[i]
    <3>1. CASE Insert(d)
      BY <3>1, InsertEffect
    <3>2. CASE ~Insert(d)
      BY <1>2, <3>2 DEF DetectorNext, DetectorStep, LookupHit, LookupMiss,
         InsertConflict, Reread, AuditCreated, EnqueueNotification,
         AbortDetector, tables
    <3> QED
      BY <3>1, <3>2
  <2>3. \A o \in Operators : Deciding(o) => oIncident[o] \in Stored
    BY DEF Locals, Deciding
  <2> QED
    BY <2>1, <2>2, <2>3 DEF CopiesFresh, Deciding, operatorVars
<1>3. ASSUME NEW o \in Operators, NEW i \in Incidents, NEW target \in Moves,
             NEW hasReason \in BOOLEAN, Decide(o, i, target, hasReason)
      PROVE  CopiesFresh'
  <2>1. incidents[i] \in Row /\ target \in Allowed(incidents[i].status)
    BY <1>3 DEF Decide, TypeOK
  <2> DEFINE copy == [incidents[i] EXCEPT !.status = target, !.by[target] = o]
  <2>2. /\ copy.status = target /\ copy.event = incidents[i].event
        /\ copy.by = [incidents[i].by EXCEPT ![target] = o]
    BY <2>1 DEF Row
  <2>3. /\ oCopy'[o] = copy /\ oIncident'[o] = i /\ opc'[o] = "merge"
        /\ incidents' = incidents
        /\ \A p \in Operators : p # o =>
             /\ opc'[p] = opc[p] /\ oIncident'[p] = oIncident[p]
             /\ oCopy'[p] = oCopy[p] /\ oLoaded'[p] = oLoaded[p]
    BY <1>3 DEF Decide, TypeOK, tables
  <2> HIDE DEF copy
  <2> QED
    BY <2>1, <2>2, <2>3 DEF CopiesFresh, Deciding
<1>4. ASSUME NEW o \in Operators, MergeLoad(o) PROVE CopiesFresh'
  BY <1>4 DEF MergeLoad, CopiesFresh, Deciding, TypeOK, tables
<1>5. ASSUME NEW o \in Operators, Flush(o) PROVE CopiesFresh'
  <2>1. \A p \in Operators : p # o /\ Deciding(p) =>
          incidents'[oIncident[p]] = incidents[oIncident[p]]
    <3>1. /\ \A i \in Stored : i # oIncident[o] => incidents'[i] = incidents[i]
          /\ \A p \in Operators : Deciding(p) => oIncident[p] \in Stored
      BY <1>5, FlushEffect DEF Locals, Deciding
    <3>2. Deciding(o)
      BY <1>5 DEF Flush, Deciding
    <3> QED
      BY <3>1, <3>2 DEF Unraced
  <2>2. opc' = [opc EXCEPT ![o] = "audit"] /\ UNCHANGED <<oIncident, oCopy, oLoaded>>
    BY <1>5 DEF Flush
  <2> QED
    BY <2>1, <2>2 DEF CopiesFresh, Deciding, TypeOK
<1>6. ASSUME NEW o \in Operators, AuditMove(o) \/ AbortOperator(o) PROVE CopiesFresh'
  <2>1. /\ opc'[o] = "idle" /\ incidents' = incidents
        /\ \A p \in Operators : p # o =>
             /\ opc'[p] = opc[p] /\ oIncident'[p] = oIncident[p]
             /\ oCopy'[p] = oCopy[p] /\ oLoaded'[p] = oLoaded[p]
    BY <1>6 DEF AuditMove, AbortOperator, OperatorIdle, TypeOK, tables
  <2> QED
    BY <2>1 DEF CopiesFresh, Deciding
<1> QED
  BY <1>1, <1>2, <1>3, <1>4, <1>5, <1>6 DEF Next, DetectorNext, OperatorStep

LEMMA CoherentStep ==
  ASSUME TypeOK, Locals, LifecycleInv, [Next]_vars
  PROVE  RowCoherent'
<1>0. CopiesFresh /\ RowCoherent
  BY DEF LifecycleInv
<1>1. CASE incidents' = incidents
  BY <1>0, <1>1 DEF RowCoherent, Stored
<1>2. ASSUME NEW d \in Detectors, Insert(d) PROVE RowCoherent'
  <2>1. /\ Stored' = Stored \cup {dIncident'[d]}
        /\ incidents'[dIncident'[d]] = NewRow(dEvent[d])
        /\ \A i \in Stored : incidents'[i] = incidents[i]
    BY <1>2, InsertEffect
  <2>2. NewRow(dEvent[d]).status = "open" /\ NewRow(dEvent[d]).by = Unstamped
    BY DEF NewRow
  <2> QED
    BY <1>0, <2>1, <2>2 DEF RowCoherent, Unstamped, Moves
<1>3. ASSUME NEW o \in Operators, Flush(o) PROVE RowCoherent'
  <2> DEFINE i == oIncident[o]
             s == incidents[i].status
             target == oCopy[o].status
  <2>1. /\ i \in Stored /\ Stored' = Stored
        /\ \A j \in Stored : j # i => incidents'[j] = incidents[j]
        /\ incidents'[i] = oCopy[o] /\ incidents[i] \in Row
    BY <1>0, <1>3, FlushEffect, FlushWritesCopy
  <2>2. /\ target \in Allowed(s)
        /\ oCopy[o].by = [incidents[i].by EXCEPT ![target] = o]
    BY <1>0, <1>3 DEF CopiesFresh, Flush, Deciding
  <2>3. target \in Moves
    BY <2>2, AllowedMoves
  <2>4. oCopy[o].by[target] # None
    BY <2>1, <2>2, <2>3, StoreAssumption DEF Row
  <2>5. ASSUME NEW m \in Moves \ {target}, oCopy[o].by[m] # None
        PROVE  m = "acknowledged" /\ target \in Terminal
    <3>1. incidents[i].by[m] # None
      BY <2>1, <2>2, <2>3, <2>5 DEF Row
    <3>2. s \notin Moves => FALSE
      <4>1. s = "open" \/ s = "acknowledged"
        BY <2>2, AllowedMoves
      <4>2. s = "open" => FALSE
        BY <1>0, <2>1, <3>1 DEF RowCoherent, Moves, Terminal
      <4> QED
        BY <4>1, <4>2 DEF Moves
    <3>3. s = "acknowledged"
      BY <2>2, <3>2, AllowedMoves DEF Moves
    <3>4. m = "acknowledged"
      BY <1>0, <2>1, <3>1, <3>3 DEF RowCoherent, Terminal
    <3> QED
      BY <2>2, <3>3, <3>4, AllowedMoves
  <2> HIDE DEF i, s, target
  <2>6. incidents'[i].status = target /\ incidents'[i].by = oCopy[o].by
    BY <2>1 DEF target
  <2> QED
    BY <1>0, <2>1, <2>3, <2>4, <2>5, <2>6 DEF RowCoherent
<1> QED
  BY <1>0, <1>1, <1>2, <1>3, TableWrites

(* Unless two operators race about one incident, its stamps tell the same   *)
(* story as its status, and no request ever writes from a stale copy.       *)
THEOREM UnracedRowsCohere == Spec /\ []Unraced => [](CopiesFresh /\ RowCoherent)
<1>1. TypeOK /\ Locals /\ Unraced /\ LifecycleInv /\ [Next]_vars => LifecycleInv'
  BY CopiesStep, CoherentStep DEF LifecycleInv
<1>2. LifecycleInv => CopiesFresh /\ RowCoherent
  BY DEF LifecycleInv
<1> QED
  BY InitLifecycle, <1>1, <1>2, TypeCorrect, PTL DEF Spec

-----------------------------------------------------------------------------
(* The refinement, step by step                                             *)

(* Where the one row of an event stands is where the event stands. *)
LEMMA StatusIsRow ==
  ASSUME UniqueRows, NEW e, NEW i \in IncidentsOf(e)
  PROVE  /\ StatusOf(e) = incidents[i].status
         /\ CloserOf(e) = IF incidents[i].status \in Terminal
                          THEN incidents[i].by[incidents[i].status] ELSE None
<1>1. IncidentsOf(e) = {i}
  BY DEF UniqueRows, IncidentsOf
<1>2. (CHOOSE j \in IncidentsOf(e) : TRUE) = i
  BY <1>1
<1> QED
  BY <1>1, <1>2 DEF StatusOf, CloserOf

LEMMA StatusAbsent ==
  ASSUME NEW e, IncidentsOf(e) = {}
  PROVE  StatusOf(e) = "absent" /\ CloserOf(e) = None
  BY DEF StatusOf, CloserOf, Terminal

(* An event whose row a step leaves alone stands where it stood. *)
LEMMA StatusKept ==
  ASSUME UniqueRows, UniqueRows', NEW e,
         IncidentsOf(e)' = IncidentsOf(e),
         \A i \in IncidentsOf(e) : incidents'[i] = incidents[i]
  PROVE  StatusOf(e)' = StatusOf(e) /\ CloserOf(e)' = CloserOf(e)
<1>1. CASE IncidentsOf(e) = {}
  <2>1. IncidentsOf(e)' = {}
    BY <1>1
  <2>2. StatusOf(e)' = "absent" /\ CloserOf(e)' = None
    BY <2>1 DEF StatusOf, CloserOf, Terminal
  <2> QED
    BY <1>1, <2>2, StatusAbsent
<1>2. ASSUME NEW i \in IncidentsOf(e)
      PROVE  StatusOf(e)' = StatusOf(e) /\ CloserOf(e)' = CloserOf(e)
  <2>1. i \in IncidentsOf(e)' /\ incidents'[i] = incidents[i]
    BY <1>2
  <2>2. /\ StatusOf(e)' = incidents'[i].status
        /\ CloserOf(e)' = IF incidents'[i].status \in Terminal
                          THEN incidents'[i].by[incidents'[i].status] ELSE None
    <3>1. IncidentsOf(e)' = {i}
      BY <2>1 DEF UniqueRows, IncidentsOf
    <3>2. (CHOOSE j \in IncidentsOf(e)' : TRUE) = i
      BY <3>1
    <3> QED
      BY <3>1, <3>2 DEF StatusOf, CloserOf
  <2> QED
    BY <1>2, <2>1, <2>2, StatusIsRow
<1> QED
  BY <1>1, <1>2
LEMMA RefineInit == Init => Lifecycle!Init
<1> SUFFICES ASSUME Init PROVE Lifecycle!Init
  OBVIOUS
<1>1. \A e : IncidentsOf(e) = {}
  BY NoRowType DEF Init, IncidentsOf, Stored
<1> QED
  BY <1>1, StatusAbsent DEF Lifecycle!Init

(* A step that leaves the table of incidents alone. *)
LEMMA RefineStutter ==
  ASSUME incidents' = incidents
  PROVE  UNCHANGED Lifecycle!vars
<1>1. \A e : StatusOf(e)' = StatusOf(e) /\ CloserOf(e)' = CloserOf(e)
  BY DEF StatusOf, CloserOf, IncidentsOf, Stored
<1> QED
  BY <1>1 DEF Lifecycle!vars

(* The commit of an insert opens the incident of its event. *)
LEMMA RefineInsert ==
  ASSUME TypeOK, Locals, UniqueRows, UniqueRows', NEW d \in Detectors, Insert(d)
  PROVE  Lifecycle!Next
<1> PICK i, e : i = dIncident'[d] /\ e = dEvent[d]
  OBVIOUS
<1>1. e \in Events /\ IncidentsOf(e) = {}
  BY DEF Insert, Locals, UniqueViolation
<1>2. /\ i \notin Stored /\ Stored' = Stored \cup {i}
      /\ incidents'[i] = NewRow(e)
      /\ \A j \in Stored : incidents'[j] = incidents[j]
  BY InsertEffect
<1>3. incidents'[i].event = e /\ incidents'[i].status = "open"
  BY <1>1, <1>2, NewRowType
<1>4. StatusOf(e) = "absent" /\ CloserOf(e) = None
  BY <1>1, StatusAbsent
<1>5. StatusOf(e)' = "open" /\ CloserOf(e)' = None
  <2>1. IncidentsOf(e)' = {i}
    BY <1>1, <1>2, <1>3 DEF IncidentsOf
  <2>2. (CHOOSE j \in IncidentsOf(e)' : TRUE) = i
    BY <2>1
  <2> QED
    BY <1>3, <2>1, <2>2 DEF StatusOf, CloserOf, Terminal
<1>6. ASSUME NEW f \in Events, f # e
      PROVE  StatusOf(f)' = StatusOf(f) /\ CloserOf(f)' = CloserOf(f)
  <2>1. IncidentsOf(f)' = IncidentsOf(f)
    BY <1>2, <1>3, <1>6 DEF IncidentsOf
  <2>2. \A j \in IncidentsOf(f) : incidents'[j] = incidents[j]
    BY <1>2 DEF IncidentsOf
  <2> QED
    BY <2>1, <2>2, StatusKept
<1>7. Lifecycle!Open(e)
  BY <1>1, <1>4, <1>5, <1>6 DEF Lifecycle!Open
<1> QED
  BY <1>1, <1>7 DEF Lifecycle!Next

(* The UPDATE of a fresh copy moves the incident of its event along the      *)
(* transition table.                                                        *)
LEMMA RefineFlush ==
  ASSUME TypeOK, Locals, UniqueRows, UniqueRows', LifecycleInv,
         NEW o \in Operators, Flush(o)
  PROVE  [Lifecycle!Next]_(Lifecycle!vars)
<1> PICK i, e : i = oIncident[o] /\ e = incidents[i].event
  OBVIOUS
<1> PICK s, target : s = incidents[i].status /\ target = oCopy[o].status
  OBVIOUS
<1>0. CopiesFresh /\ RowCoherent
  BY DEF LifecycleInv
<1>1. /\ i \in Stored /\ Stored' = Stored
      /\ \A j \in Stored : incidents'[j].event = incidents[j].event
      /\ \A j \in Stored : j # i => incidents'[j] = incidents[j]
      /\ incidents'[i] = oCopy[o] /\ incidents[i] \in Row
  BY <1>0, FlushEffect, FlushWritesCopy
<1>2. /\ target \in Allowed(s)
      /\ oCopy[o].by = [incidents[i].by EXCEPT ![target] = o]
  BY <1>0 DEF CopiesFresh, Flush, Deciding
<1>3. /\ target \in Moves
      /\ s = "open" \/ s = "acknowledged"
  BY <1>2, AllowedMoves
<1>4. \A f : IncidentsOf(f)' = IncidentsOf(f)
  BY <1>1 DEF IncidentsOf
<1>5. i \in IncidentsOf(e)
  BY <1>1 DEF IncidentsOf
<1>6. incidents'[i].status = target /\ incidents'[i].by[target] = o
  BY <1>1, <1>2, <1>3 DEF Row
<1>7. ASSUME NEW f, f # e
      PROVE  StatusOf(f)' = StatusOf(f) /\ CloserOf(f)' = CloserOf(f)
  <2>1. \A j \in IncidentsOf(f) : incidents'[j] = incidents[j]
    BY <1>1, <1>7 DEF IncidentsOf
  <2> QED
    BY <1>4, <2>1, StatusKept
<1>8. StatusOf(e) = s /\ CloserOf(e) = None
  BY <1>3, <1>5, StatusIsRow DEF Terminal
<1>9. StatusOf(e)' = target /\ CloserOf(e)' = IF target \in Terminal THEN o ELSE None
  <2>1. IncidentsOf(e)' = {i}
    BY <1>4, <1>5 DEF UniqueRows, IncidentsOf
  <2>2. (CHOOSE j \in IncidentsOf(e)' : TRUE) = i
    BY <2>1
  <2> QED
    BY <1>6, <2>1, <2>2 DEF StatusOf, CloserOf
<1>10. CASE e \notin Events
  <2>1. \A f \in Events : StatusOf(f)' = StatusOf(f) /\ CloserOf(f)' = CloserOf(f)
    BY <1>7, <1>10
  <2> QED
    BY <2>1 DEF Lifecycle!vars
<1>11. CASE e \in Events
  <2>1. target \in Lifecycle!Allowed(s)
    BY <1>2 DEF Allowed, Lifecycle!Allowed, Moves, Lifecycle!Moves, Terminal,
       Lifecycle!Terminal
  <2>2. Lifecycle!Move(e, o, target)
    BY <1>7, <1>8, <1>9, <1>11, <2>1 DEF Lifecycle!Move, Terminal, Lifecycle!Terminal
  <2> QED
    BY <1>3, <1>11, <2>2 DEF Lifecycle!Next, Moves, Lifecycle!Moves
<1> QED
  BY <1>10, <1>11

LEMMA RefineNext ==
  ASSUME StoreInv, UniqueRows', LifecycleInv, [Next]_vars
  PROVE  [Lifecycle!Next]_(Lifecycle!vars)
<1>0. TypeOK /\ Locals /\ UniqueRows
  BY DEF StoreInv
<1> QED
  BY <1>0, RefineStutter, RefineInsert, RefineFlush, TableWrites

(* Unless two operators race about one incident, the SQL backend, with its  *)
(* four transactions per request and whatever dies between them, does what  *)
(* the repository in memory does in one step each.                          *)
THEOREM UnracedImplements == Spec /\ []Unraced => ImplementsLifecycle
<1>1. StoreInv /\ UniqueRows' /\ LifecycleInv /\ [Next]_vars
        => [Lifecycle!Next]_(Lifecycle!vars)
  BY RefineNext
<1>2. StoreInv => TypeOK /\ Locals /\ UniqueRows
  BY DEF StoreInv
<1>3. TypeOK /\ Locals /\ Unraced /\ LifecycleInv /\ [Next]_vars => LifecycleInv'
  BY CopiesStep, CoherentStep DEF LifecycleInv
<1> QED
  BY RefineInit, InitLifecycle, <1>1, <1>2, <1>3, StoreInvariant, PTL
  DEF Spec, ImplementsLifecycle, Lifecycle!Spec

(* One operator at a time never races: the store is coherent, ...           *)
THEOREM SerialRowsCohere ==
  ASSUME \A o, p \in Operators : o = p
  PROVE  Spec => []RowCoherent
<1>1. Unraced
  BY DEF Unraced
<1> QED
  BY <1>1, UnracedRowsCohere, PTL

(* ... and implements the lifecycle.                                        *)
THEOREM SerialImplements ==
  ASSUME \A o, p \in Operators : o = p
  PROVE  Spec => ImplementsLifecycle
<1>1. Unraced
  BY DEF Unraced
<1> QED
  BY <1>1, UnracedImplements, PTL
=============================================================================
