---------------------------- MODULE IncidentStore ----------------------------
(***************************************************************************)
(* The SQL incident backend (persistence/repositories.py,                  *)
(* SqlAlchemyIncidentRepository) under concurrent requests.                *)
(*                                                                         *)
(* FastAPI serves every request of the incident API on a thread of its     *)
(* own, and the repository opens a new session, hence a new database       *)
(* transaction, for every statement group: create_from_detection is up to  *)
(* four transactions (lookup, insert, audit entry, notification row) and   *)
(* transition is four (read, merge's own read, update, audit entry).       *)
(* Each transaction is one atomic step here; another request, or the death *)
(* of the thread (process killed, connection lost), comes between any two. *)
(***************************************************************************)
EXTENDS FiniteSets, Naturals

CONSTANTS
  Detectors,      \* threads serving a POST of a detection event
  Operators,      \* threads serving acknowledge / resolve / dismiss requests
  Events,         \* detection events: one per (organization_id, event_id)
  Notifiable,     \* the events whose severity reaches the threshold
  Incidents,      \* incident ids that new_id() may draw
  Notifications,  \* notification row ids that new_id() may draw
  Enabled,        \* settings.incident_notification_enabled
  Mode,           \* settings.incident_notification_mode
  Configured,     \* is_resend_configured(settings)
  MaxAborts,      \* bound: how many requests may die half way
  None            \* nothing, nobody

ASSUME StoreAssumption ==
  /\ Notifiable \subseteq Events
  /\ Enabled \in BOOLEAN
  /\ Configured \in BOOLEAN
  /\ Mode \in {"mock", "resend"}
  /\ MaxAborts \in Nat
  /\ None \notin Events \cup Operators \cup Incidents

VARIABLES
  incidents,      \* table incidents
  audit,          \* table incident_audit_logs
  notifications,  \* table notifications
  replies,        \* history: <<event, incident>> answered to a detection POST
  dpc, dEvent, dIncident,        \* a detector's next transaction and locals
  opc, oIncident, oRead, oCopy, oLoaded,  \* an operator's, see below
  aborts          \* requests that died so far

tables == <<incidents, audit, notifications>>
detectorVars == <<dpc, dEvent, dIncident, replies>>
operatorVars == <<opc, oIncident, oRead, oCopy, oLoaded>>
vars == <<tables, detectorVars, operatorVars, aborts>>

-----------------------------------------------------------------------------
(* Rows.  Of an incident only the columns that transition writes are kept:  *)
(* the status and, for each move, who stamped it (acknowledged_by,          *)
(* resolved_by, dismissed_by, standing for the *_at and *_reason columns    *)
(* written with them).  A row with status "absent" is not in the table.     *)

Moves == {"acknowledged", "resolved", "dismissed"}
Terminal == {"resolved", "dismissed"}
Status == {"open"} \cup Moves

Row == [event : Events \cup {None},
        status : Status \cup {"absent"},
        by : [Moves -> Operators \cup {None}]]

Unstamped == [m \in Moves |-> None]
NoRow == [event |-> None, status |-> "absent", by |-> Unstamped]
NewRow(e) == [event |-> e, status |-> "open", by |-> Unstamped]

Stored == {i \in Incidents : incidents[i].status # "absent"}
IncidentsOf(e) == {i \in Stored : incidents[i].event = e}

AuditEntry == [incident : Incidents, from : Status \cup {"absent"},
               to : Status, actor : Detectors \cup Operators]

NotificationRow == [incident : Incidents \cup {None},
                    channel : {"email", "mock"},
                    status : {"absent", "queued", "suppressed", "failed"}]
NoNotification == [incident |-> None, channel |-> "mock", status |-> "absent"]
Enqueued == {n \in Notifications : notifications[n].status # "absent"}
NotificationsOf(i) == {n \in Enqueued : notifications[n].incident = i}

(* The transition table: the statuses reachable from s. *)
AllowedFromResolved(s) ==   \* mutant: a resolved incident may be dismissed
  CASE s = "open" -> Moves
    [] s \in {"acknowledged", "resolved"} -> Terminal
    [] OTHER -> {}
Allowed(s) ==
  CASE s = "open" -> Moves
    [] s = "acknowledged" -> Terminal
    [] OTHER -> {}

-----------------------------------------------------------------------------
Init ==
  /\ incidents = [i \in Incidents |-> NoRow]
  /\ audit = {}
  /\ notifications = [n \in Notifications |-> NoNotification]
  /\ replies = {}
  /\ dpc = [d \in Detectors |-> "idle"]
  /\ dEvent = [d \in Detectors |-> None]
  /\ dIncident = [d \in Detectors |-> None]
  /\ opc = [o \in Operators |-> "idle"]
  /\ oIncident = [o \in Operators |-> None]
  /\ oRead = [o \in Operators |-> "absent"]
  /\ oCopy = [o \in Operators |-> NoRow]
  /\ oLoaded = [o \in Operators |-> NoRow]
  /\ aborts = 0

-----------------------------------------------------------------------------
(* create_from_detection                                                    *)

DetectorIdle(d) ==
  /\ dpc' = [dpc EXCEPT ![d] = "idle"]
  /\ dEvent' = [dEvent EXCEPT ![d] = None]
  /\ dIncident' = [dIncident EXCEPT ![d] = None]

(* The SELECT finds an incident for the event: it is returned as it is. *)
LookupHit(d, e) ==
  /\ dpc[d] = "idle"
  /\ \E i \in IncidentsOf(e) : replies' = replies \cup {<<e, i>>}
  /\ UNCHANGED <<tables, dpc, dEvent, dIncident, operatorVars, aborts>>

(* The SELECT finds none: the request goes on to insert one. *)
LookupMiss(d, e) ==
  /\ dpc[d] = "idle"
  /\ IncidentsOf(e) = {}
  /\ dpc' = [dpc EXCEPT ![d] = "insert"]
  /\ dEvent' = [dEvent EXCEPT ![d] = e]
  /\ UNCHANGED <<tables, dIncident, replies, operatorVars, aborts>>

(* uq_incidents_org_detection_event rejects a second incident of an event. *)
NoConstraint(e) == FALSE    \* mutant: the constraint is dropped
UniqueViolation(e) == IncidentsOf(e) # {}

(* The INSERT commits. *)
Insert(d) ==
  /\ dpc[d] = "insert"
  /\ ~UniqueViolation(dEvent[d])
  /\ \E i \in Incidents \ Stored :
       /\ incidents' = [incidents EXCEPT ![i] = NewRow(dEvent[d])]
       /\ dIncident' = [dIncident EXCEPT ![d] = i]
  /\ dpc' = [dpc EXCEPT ![d] = "audit"]
  /\ UNCHANGED <<audit, notifications, dEvent, replies, operatorVars, aborts>>

ConflictFallsThrough(d) ==  \* mutant: the conflict is taken for a success
  /\ dpc[d] = "insert"
  /\ UniqueViolation(dEvent[d])
  /\ \E i \in IncidentsOf(dEvent[d]) : dIncident' = [dIncident EXCEPT ![d] = i]
  /\ dpc' = [dpc EXCEPT ![d] = "audit"]
  /\ UNCHANGED <<tables, dEvent, replies, operatorVars, aborts>>

(* The INSERT raises IntegrityError: another request came first. *)
InsertConflict(d) ==
  /\ dpc[d] = "insert"
  /\ UniqueViolation(dEvent[d])
  /\ dpc' = [dpc EXCEPT ![d] = "reread"]
  /\ UNCHANGED <<tables, dEvent, dIncident, replies, operatorVars, aborts>>

(* After the conflict the winner's incident is read and returned.  Nothing  *)
(* deletes an incident, so the read always finds it.                        *)
Reread(d) ==
  /\ dpc[d] = "reread"
  /\ \E i \in IncidentsOf(dEvent[d]) :
       replies' = replies \cup {<<dEvent[d], i>>}
  /\ DetectorIdle(d)
  /\ UNCHANGED <<tables, operatorVars, aborts>>

(* _append_audit_log("created"), a transaction of its own. *)
AuditCreated(d) ==
  /\ dpc[d] = "audit"
  /\ audit' = audit \cup {[incident |-> dIncident[d], from |-> "absent",
                           to |-> "open", actor |-> d]}
  /\ dpc' = [dpc EXCEPT ![d] = "notify"]
  /\ UNCHANGED <<incidents, notifications, dEvent, dIncident, replies,
                 operatorVars, aborts>>

EnqueuedStatus ==
  CASE ~Enabled -> "suppressed"
    [] Enabled /\ Mode = "resend" /\ ~Configured -> "failed"
    [] OTHER -> "queued"
Channel == IF Mode = "resend" THEN "email" ELSE "mock"

(* _is_notifiable_severity: an unknown severity ranks below every threshold. *)
IsNotifiable(e) == e \in Notifiable

(* _enqueue_notification: a low severity writes nothing. *)
EnqueueNotification(d) ==
  /\ dpc[d] = "notify"
  /\ \/ /\ ~IsNotifiable(dEvent[d])
        /\ UNCHANGED notifications
     \/ /\ IsNotifiable(dEvent[d])
        /\ \E n \in Notifications \ Enqueued :
             notifications' = [notifications EXCEPT ![n] =
               [incident |-> dIncident[d], channel |-> Channel,
                status |-> EnqueuedStatus]]
  /\ replies' = replies \cup {<<dEvent[d], dIncident[d]>>}
  /\ DetectorIdle(d)
  /\ UNCHANGED <<incidents, audit, operatorVars, aborts>>

DetectorStep(d) ==
  \/ Insert(d)
  \/ InsertConflict(d)
  \/ Reread(d)
  \/ AuditCreated(d)
  \/ EnqueueNotification(d)

-----------------------------------------------------------------------------
(* transition                                                               *)

OperatorIdle(o) ==
  /\ opc' = [opc EXCEPT ![o] = "idle"]
  /\ oIncident' = [oIncident EXCEPT ![o] = None]
  /\ oRead' = [oRead EXCEPT ![o] = "absent"]
  /\ oCopy' = [oCopy EXCEPT ![o] = NoRow]
  /\ oLoaded' = [oLoaded EXCEPT ![o] = NoRow]

(* get() reads the row; the table and the reason are checked against what   *)
(* was read (a request that fails the checks changes nothing: 409), and     *)
(* the new status and stamp are put on the copy.  oRead keeps "previous".   *)
Decide(o, i, target, hasReason) ==
  /\ opc[o] = "idle"
  /\ i \in Stored
  /\ target \in Allowed(incidents[i].status)
  /\ target \in Terminal => hasReason
  /\ opc' = [opc EXCEPT ![o] = "merge"]
  /\ oIncident' = [oIncident EXCEPT ![o] = i]
  /\ oRead' = [oRead EXCEPT ![o] = incidents[i].status]
  /\ oCopy' = [oCopy EXCEPT ![o] = [incidents[i] EXCEPT
                 !.status = target, !.by[target] = o]]
  /\ UNCHANGED <<tables, detectorVars, oLoaded, aborts>>

(* session.merge in save(): the row is loaded again to be compared with the copy. *)
MergeLoad(o) ==
  /\ opc[o] = "merge"
  /\ oLoaded' = [oLoaded EXCEPT ![o] = incidents[oIncident[o]]]
  /\ opc' = [opc EXCEPT ![o] = "flush"]
  /\ UNCHANGED <<tables, detectorVars, oIncident, oRead, oCopy, aborts>>

StatusOnly(current, copy, loaded) ==    \* mutant: the stamps are not written
  [current EXCEPT !.status = copy.status]

(* The row after an UPDATE of exactly the columns in which the copy differs *)
(* from what merge loaded; the stamp of the new status carries a fresh      *)
(* timestamp, so it always differs.                                         *)
Updated(current, copy, loaded) ==
  [event |-> current.event,
   status |-> IF copy.status # loaded.status THEN copy.status ELSE current.status,
   by |-> [m \in Moves |->
             IF copy.by[m] # loaded.by[m] \/ m = copy.status
               THEN copy.by[m] ELSE current.by[m]]]

FlushUnaudited(o) ==        \* mutant: save() is the last thing done
  /\ opc[o] = "flush"
  /\ incidents' = [incidents EXCEPT ![oIncident[o]] =
                     Updated(incidents[oIncident[o]], oCopy[o], oLoaded[o])]
  /\ OperatorIdle(o)
  /\ UNCHANGED <<audit, notifications, detectorVars, aborts>>

(* commit() flushes the UPDATE, addressed by primary key alone. *)
Flush(o) ==
  /\ opc[o] = "flush"
  /\ incidents' = [incidents EXCEPT ![oIncident[o]] =
                     Updated(incidents[oIncident[o]], oCopy[o], oLoaded[o])]
  /\ opc' = [opc EXCEPT ![o] = "audit"]
  /\ UNCHANGED <<audit, notifications, detectorVars, oIncident, oRead, oCopy,
                 oLoaded, aborts>>

(* _append_audit_log("incident.<status>"), a transaction of its own. *)
AuditMove(o) ==
  /\ opc[o] = "audit"
  /\ audit' = audit \cup {[incident |-> oIncident[o], from |-> oRead[o],
                           to |-> oCopy[o].status, actor |-> o]}
  /\ OperatorIdle(o)
  /\ UNCHANGED <<incidents, notifications, detectorVars, aborts>>

OperatorStep(o) == MergeLoad(o) \/ Flush(o) \/ AuditMove(o)

-----------------------------------------------------------------------------
(* A request dies between two of its transactions: what it committed stays. *)

AbortDetector(d) ==
  /\ dpc[d] # "idle"
  /\ aborts < MaxAborts
  /\ aborts' = aborts + 1
  /\ DetectorIdle(d)
  /\ UNCHANGED <<tables, replies, operatorVars>>

AbortOperator(o) ==
  /\ opc[o] # "idle"
  /\ aborts < MaxAborts
  /\ aborts' = aborts + 1
  /\ OperatorIdle(o)
  /\ UNCHANGED <<tables, detectorVars>>

-----------------------------------------------------------------------------
Next ==
  \/ \E d \in Detectors :
       \/ \E e \in Events : LookupHit(d, e) \/ LookupMiss(d, e)
       \/ DetectorStep(d)
       \/ AbortDetector(d)
  \/ \E o \in Operators :
       \/ \E i \in Incidents, target \in Moves, hasReason \in BOOLEAN :
            Decide(o, i, target, hasReason)
       \/ OperatorStep(o)
       \/ AbortOperator(o)

Spec == Init /\ [][Next]_vars

-----------------------------------------------------------------------------
(* Properties                                                               *)

(* Types: every table, local and history stays in its set. *)
TypeOK ==
  /\ incidents \in [Incidents -> Row]
  /\ audit \subseteq AuditEntry
  /\ notifications \in [Notifications -> NotificationRow]
  /\ replies \subseteq Events \X Incidents
  /\ dpc \in [Detectors -> {"idle", "insert", "reread", "audit", "notify"}]
  /\ dEvent \in [Detectors -> Events \cup {None}]
  /\ dIncident \in [Detectors -> Incidents \cup {None}]
  /\ opc \in [Operators -> {"idle", "merge", "flush", "audit"}]
  /\ oIncident \in [Operators -> Incidents \cup {None}]
  /\ oRead \in [Operators -> Status \cup {"absent"}]
  /\ oCopy \in [Operators -> Row]
  /\ oLoaded \in [Operators -> Row]
  /\ aborts \in 0..MaxAborts

(* Ingest is idempotent for its callers: two answers to the same detection  *)
(* event, however the requests raced, crashed or were sent again, name the  *)
(* same incident, and that incident is in the table for that event.         *)
RepliesAgree ==
  /\ \A r \in replies : r[2] \in IncidentsOf(r[1])
  /\ \A r, q \in replies : r[1] = q[1] => r[2] = q[2]

(* No race and no repeated request queues a second notification for an      *)
(* incident, and none is queued before the incident and its "created" audit *)
(* entry are committed.                                                     *)
NotifiedOnceAfterAudit ==
  /\ \A n, m \in Enqueued :
        notifications[n].incident = notifications[m].incident => n = m
  /\ \A n \in Enqueued :
        /\ notifications[n].incident \in Stored
        /\ \E a \in audit : /\ a.incident = notifications[n].incident
                            /\ a.from = "absent"

(* A request is between the commit of incident i and its own end. *)
Creating(i) == \E d \in Detectors : dIncident[d] = i

(* An operator's request has written status s and not yet its audit entry. *)
Moving(i, s) ==
  \E o \in Operators :
    oIncident[o] = i /\ opc[o] = "audit" /\ oCopy[o].status = s

(* The incidents whose "created" entry, or whose present status, is missing *)
(* in the audit trail although no request is about to write it.             *)
Unaudited ==
  {i \in Stored : \/ /\ ~Creating(i)
                     /\ \A a \in audit : a.incident = i => a.from # "absent"
                  \/ /\ incidents[i].status # "open"
                     /\ ~Moving(i, incidents[i].status)
                     /\ \A a \in audit :
                          a.incident = i => a.to # incidents[i].status}

(* The notifiable incidents without a row in the notification queue.        *)
Unqueued ==
  {i \in Stored : /\ ~Creating(i)
                  /\ incidents[i].event \in Notifiable
                  /\ NotificationsOf(i) = {}}

(* docs/architecture/incident-notification-flow.md: every relevant change   *)
(* is audited.  However operators and detections race, an incident is out   *)
(* of step with its audit trail only if one of its requests died.           *)
(* An open incident is "persistido e notificado": only the death of the     *)
(* request that created it keeps it out of the queue.                       *)
GapsAreDeaths == Cardinality(Unaudited) <= aborts /\ Cardinality(Unqueued) <= aborts

(* The stamps tell the same story as the status: an open incident has none, *)
(* a resolved one is stamped resolved and not dismissed, and so on.         *)
RowCoherent ==
  \A i \in Stored :
    LET s == incidents[i].status
        by == incidents[i].by
    IN /\ s \in Moves => by[s] # None
       /\ \A m \in Moves \ {s} :
            by[m] # None => m = "acknowledged" /\ s \in Terminal

(* No step, stale copy or repeated detection turns an incident that was     *)
(* acknowledged, resolved or dismissed back to open, or removes it.         *)
NeverReopened ==
  [][\A i \in Incidents :
       incidents[i].status \in Moves => incidents'[i].status \in Moves]_vars

(* docs/architecture/incident-lifecycle.md: "resolved" and "dismissed" are  *)
(* terminal.  Two operators who both read the incident while it was open    *)
(* both write it.                                                           *)
TerminalIsFinal ==
  [][\A i \in Incidents : incidents[i].status \in Terminal =>
       incidents'[i].status = incidents[i].status]_vars

-----------------------------------------------------------------------------
(* With one operator request at a time the store implements the lifecycle.  *)

StatusOf(e) ==
  IF IncidentsOf(e) = {} THEN "absent"
  ELSE incidents[CHOOSE i \in IncidentsOf(e) : TRUE].status

CloserOf(e) ==
  IF StatusOf(e) \notin Terminal THEN None
  ELSE incidents[CHOOSE i \in IncidentsOf(e) : TRUE].by[StatusOf(e)]

Lifecycle == INSTANCE IncidentLifecycle
  WITH status <- [e \in Events |-> StatusOf(e)],
       closedBy <- [e \in Events |-> CloserOf(e)]

(* Refinement: every step of the store is a step of the lifecycle or leaves *)
(* the status and the closer of every event as they were.                   *)
ImplementsLifecycle == Lifecycle!Spec
=============================================================================
