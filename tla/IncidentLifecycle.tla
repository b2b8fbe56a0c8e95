------------------------- MODULE IncidentLifecycle -------------------------
(***************************************************************************)
(* What the incident backend promises its users: a detection event has at  *)
(* most one incident, the incident starts open, moves only along the       *)
(* documented transitions, and once resolved or dismissed it keeps both    *)
(* its outcome and the operator who closed it.                             *)
(*                                                                         *)
(* It is the incident repository whose operations are atomic, the one in   *)
(* memory; who may call them (permissions, tenants) is left out.           *)
(***************************************************************************)
CONSTANTS Events,     \* detection events, one per (organization_id, event_id)
          Operators,  \* the users who acknowledge, resolve and dismiss
          None        \* nobody, nothing

VARIABLES status,     \* status[e]: where the incident of event e stands
          closedBy    \* closedBy[e]: the operator whose closing was accepted

vars == <<status, closedBy>>

Moves == {"acknowledged", "resolved", "dismissed"}
Terminal == {"resolved", "dismissed"}
Status == {"open"} \cup Moves

(* The statuses an incident may move to from s. *)
Allowed(s) ==
  CASE s = "open" -> Moves
    [] s = "acknowledged" -> Terminal
    [] OTHER -> {}

Init ==
  /\ status = [e \in Events |-> "absent"]
  /\ closedBy = [e \in Events |-> None]

Open(e) ==
  /\ status[e] = "absent"
  /\ status' = [status EXCEPT ![e] = "open"]
  /\ UNCHANGED closedBy

Move(e, o, target) ==
  /\ target \in Allowed(status[e])
  /\ status' = [status EXCEPT ![e] = target]
  /\ closedBy' = [closedBy EXCEPT ![e] = IF target \in Terminal THEN o ELSE @]

Next ==
  \E e \in Events :
    \/ Open(e)
    \/ \E o \in Operators, target \in Moves : Move(e, o, target)

Spec == Init /\ [][Next]_vars
=============================================================================
