------------------------------- MODULE Tenancy -------------------------------
(***************************************************************************)
(* Organizations, their members and the invitations that admit them.       *)
(*                                                                         *)
(* A request is a sequence of repository calls: it checks permissions, the *)
(* owner guard or an invitation at first, and writes later.  It may die    *)
(* between two calls (Abandon).                                            *)
(***************************************************************************)
EXTENDS Naturals, FiniteSets

CONSTANTS
    Orgs, Users, Emails, Invites, \* ids that are or may come to be used
    Roles,              \* what a member may be
    Requests,           \* API threads
    None,
    Founded, Account, Membership, \* what there is to begin with
    MaxResends,         \* bound: how often an invitation is sent again
    MaxCalls            \* bound: requests ever made

Owner == "org_owner"
Member == [role : Roles, active : BOOLEAN]
InviteStatus == {"pending", "accepted", "revoked", "expired"}
OrganizationStatus == {"active", "suspended"}
Invite == [org : Orgs, email : Emails, role : Roles, gen : 0..MaxResends,
           status : InviteStatus]

ASSUME TenancyAssumption ==
    /\ Owner \in Roles /\ None \notin Users \union Emails \union Invites
    /\ None \notin Member /\ None \notin Invite /\ None \notin OrganizationStatus
    /\ Founded \subseteq Orgs
    /\ Account \in [Users -> Emails \union {None}]
    /\ \A u, v \in Users : (Account[u] = Account[v] /\ u # v) => Account[u] = None
    /\ Membership \in [Orgs -> [Users -> Member \union {None}]]
    /\ \A o \in Founded : \E u \in Users : Membership[o][u] # None
    /\ MaxResends \in Nat /\ MaxCalls \in Nat

VARIABLES
    backend,    \* "postgres" or "memory", for good
    account,    \* the address of each user that was ever added
    byEmail,    \* the user an address leads to
    member,     \* the memberships of each organization
    orgs,       \* the status of each organization
    invites,    \* the invitations
    late,       \* invitations past their expires_at
    req,        \* what each request is doing
    calls,      \* requests made so far
    grants,     \* how many memberships an invitation has given
    contested,  \* invitations two requests held, or one that died
    unfinished  \* organizations whose creation died

vars == <<backend, account, byEmail, member, orgs, invites, late, req, calls,
          grants, contested, unfinished>>

\* Saving merges the row a request has built.
Save(i, row) == invites' = [invites EXCEPT ![i] = row]
SaveStatusOf(o, status) == orgs' = [orgs EXCEPT ![o] = status]

\* The addresses that lead to a user: one user each.
Leads == [e \in Emails |-> IF \E u \in Users : Account[u] = e
                           THEN CHOOSE u \in Users : Account[u] = e ELSE None]

\* What a role lets a member do; the check does not ask whether he is active.
Inviters == {"org_owner", "org_admin", "manager"}
Managers == {"org_owner", "org_admin"}
May(roles, o) == \E a \in Users : member[o][a] # None /\ member[o][a].role \in roles
AllowedRoles(inviter) ==
    CASE inviter \in Managers -> {"org_admin", "manager", "auditor_viewer"}
      [] inviter = "manager"  -> {"auditor_viewer"}
      [] OTHER                -> {}

Idle == [pc |-> "idle", org |-> None, user |-> None, email |-> None, role |-> None,
         active |-> None, invite |-> None, status |-> None, stale |-> FALSE]
At(r, pc) == req[r].pc = pc
Start(r, q) ==
    /\ At(r, "idle") /\ calls < MaxCalls /\ calls' = calls + 1
    /\ req' = [req EXCEPT ![r] = q]
Goto(r, pc) == req' = [req EXCEPT ![r].pc = pc]
Done(r) == req' = [req EXCEPT ![r] = Idle]

-----------------------------------------------------------------------------
(* Invitations *)

CreateInvite(r, o, e, role) ==
    /\ \E a \in Users : /\ member[o][a] # None /\ member[o][a].role \in Inviters
                        /\ role \in AllowedRoles(member[o][a].role)
    /\ Start(r, [Idle EXCEPT !.pc = "invite", !.org = o, !.email = e, !.role = role])
    /\ UNCHANGED <<backend, account, byEmail, member, orgs, invites, late,
                   grants, contested, unfinished>>

SaveInvite(r) ==
    /\ At(r, "invite")
    /\ \E i \in Invites :
         /\ invites[i] = None
         /\ Save(i, [org |-> req[r].org, email |-> req[r].email, role |-> req[r].role,
                     gen |-> 0, status |-> "pending"])
    /\ Done(r)
    /\ UNCHANGED <<backend, account, byEmail, member, orgs, late, calls,
                   grants, contested, unfinished>>

\* Requests that have read the invitation as pending and not saved it yet.
Deciding == {"find", "add", "join", "accept", "expire", "revoke"}
Holding(i) == {p \in Requests : req[p].pc \in Deciding /\ req[p].invite = i}
Contest(i) == contested' = contested \union {x \in {i} : Holding(i) # {}}

Pending(i) == invites[i] # None /\ invites[i].status = "pending"

\* (Mutant: an invitation that was accepted is taken again.)
AcceptAgain(r, i) ==
    /\ invites[i] # None /\ invites[i].status \in {"pending", "accepted"} /\ i \notin late
    /\ Start(r, [Idle EXCEPT !.pc = "find", !.org = invites[i].org, !.email = invites[i].email,
                             !.role = invites[i].role, !.invite = i])
    /\ Contest(i)
    /\ UNCHANGED <<backend, account, byEmail, member, orgs, invites, late,
                   grants, unfinished>>
\* The bearer of the last token gives the address it was sent to.
Accept(r, i) ==
    /\ Pending(i)
    /\ Start(r, [Idle EXCEPT !.pc = IF i \in late THEN "expire" ELSE "find",
                             !.org = invites[i].org, !.email = invites[i].email,
                             !.role = invites[i].role, !.invite = i])
    /\ Contest(i)
    /\ UNCHANGED <<backend, account, byEmail, member, orgs, invites, late,
                   grants, unfinished>>

\* The endpoints that resend and revoke look an invitation up in a
\* dictionary that only the repository in memory has.
Change(r, i, pc, roles) ==
    /\ backend = "memory" /\ Pending(i) /\ May(roles, invites[i].org)
    /\ Start(r, [Idle EXCEPT !.pc = pc, !.org = invites[i].org, !.invite = i])
    /\ UNCHANGED <<backend, account, byEmail, member, orgs, invites, late,
                   grants, unfinished>>
Resend(r, i) == Change(r, i, "resend", Inviters) /\ UNCHANGED contested
Revoke(r, i) == Change(r, i, "revoke", Managers) /\ Contest(i)

SaveResent(r) ==
    LET i == req[r].invite IN
    /\ At(r, "resend") /\ invites[i].gen < MaxResends
    /\ Save(i, [invites[i] EXCEPT !.gen = @ + 1])
    /\ Done(r)
    /\ UNCHANGED <<backend, account, byEmail, member, orgs, late, calls,
                   grants, contested, unfinished>>

Outcome == [accept |-> "accepted", expire |-> "expired", revoke |-> "revoked"]
SaveOutcome(r) ==
    /\ req[r].pc \in DOMAIN Outcome
    /\ Save(req[r].invite, [invites[req[r].invite] EXCEPT !.status = Outcome[req[r].pc]])
    /\ Done(r)
    /\ UNCHANGED <<backend, account, byEmail, member, orgs, late, calls,
                   grants, contested, unfinished>>

-----------------------------------------------------------------------------
(* Organizations and the users they admit *)

CreateOrganization(r, o, e) ==
    /\ orgs[o] = None /\ \A p \in Requests : ~(At(p, "found") /\ req[p].org = o)
    /\ \/ /\ e \in Emails
          /\ Start(r, [Idle EXCEPT !.pc = "found", !.org = o, !.email = e, !.role = Owner])
       \/ /\ e = None
          /\ \E u \in Users : account[u] # None /\
               Start(r, [Idle EXCEPT !.pc = "found", !.org = o, !.user = u, !.role = Owner])
    /\ UNCHANGED <<backend, account, byEmail, member, orgs, invites, late,
                   grants, contested, unfinished>>

SaveOrganization(r) ==
    /\ At(r, "found")
    /\ SaveStatusOf(req[r].org, "active")
    /\ Goto(r, IF req[r].email = None THEN "join" ELSE "find")
    /\ UNCHANGED <<backend, account, byEmail, member, invites, late, calls,
                   grants, contested, unfinished>>

FindUser(r) ==
    LET u == byEmail[req[r].email] IN
    /\ At(r, "find")
    /\ req' = [req EXCEPT ![r] = IF u = None THEN [req[r] EXCEPT !.pc = "add"]
                                             ELSE [req[r] EXCEPT !.pc = "join", !.user = u]]
    /\ UNCHANGED <<backend, account, byEmail, member, orgs, invites, late, calls,
                   grants, contested, unfinished>>

\* Postgres refuses a second user with the same address; the repository in
\* memory lets the address lead to the new one.
AddUser(r) ==
    LET e == req[r].email IN
    /\ At(r, "add")
    /\ backend = "postgres" => byEmail[e] = None
    /\ \E u \in Users :
         /\ account[u] = None
         /\ account' = [account EXCEPT ![u] = e]
         /\ byEmail' = [byEmail EXCEPT ![e] = u]
         /\ req' = [req EXCEPT ![r] = [req[r] EXCEPT !.pc = "join", !.user = u]]
    /\ UNCHANGED <<backend, member, orgs, invites, late, calls,
                   grants, contested, unfinished>>

Owns(o, u) == member[o][u] # None /\ member[o][u].role = Owner /\ member[o][u].active
ActiveOwners(o) == {u \in Users : Owns(o, u)}

\* That an active owner went, or that there is a first one, is not seen by
\* the requests past their owner guard.
Unseen(o, u, row) == IF row.role = Owner /\ row.active THEN ActiveOwners(o) = {} ELSE Owns(o, u)
Changed(o, u, row) ==
    [p \in Requests |-> IF At(p, "update") /\ req[p].org = o /\ Unseen(o, u, row)
                        THEN [req[p] EXCEPT !.stale = TRUE] ELSE req[p]]

\* add_membership gives an existing member the new role and activates him.
\* (Mutant: the leader of a new organization gets no membership.)
JoinByInvite(r) ==
    LET o == req[r].org
        i == req[r].invite
        row == [role |-> req[r].role, active |-> TRUE]
    IN /\ At(r, "join")
       /\ member' = IF i = None THEN member
                    ELSE [member EXCEPT ![o][req[r].user] = row]
       /\ req' = [Changed(o, req[r].user, row) EXCEPT ![r] =
                    IF i = None THEN Idle ELSE [req[r] EXCEPT !.pc = "accept"]]
       /\ grants' = [j \in Invites |-> IF j = i THEN grants[j] + 1 ELSE grants[j]]
       /\ UNCHANGED <<backend, account, byEmail, orgs, invites, late, calls,
                      contested, unfinished>>
Join(r) ==
    LET o == req[r].org
        i == req[r].invite
        row == [role |-> req[r].role, active |-> TRUE]
    IN /\ At(r, "join")
       /\ member' = [member EXCEPT ![o] = [member[o] EXCEPT ![req[r].user] = row]]
       /\ req' = [Changed(o, req[r].user, row) EXCEPT ![r] =
                    IF i = None THEN Idle ELSE [req[r] EXCEPT !.pc = "accept"]]
       /\ grants' = [j \in Invites |-> IF j = i THEN grants[j] + 1 ELSE grants[j]]
       /\ UNCHANGED <<backend, account, byEmail, orgs, invites, late, calls,
                      contested, unfinished>>

-----------------------------------------------------------------------------
(* Changes of members *)

\* (Mutant: owners that are not active count too.)
GuardAnyOwner(o, u, role, active) ==
    /\ member[o][u] # None
    /\ (member[o][u].role = Owner /\ (role \notin {None, Owner} \/ active = FALSE)) =>
         Cardinality({v \in Users : member[o][v] # None /\ member[o][v].role = Owner}) > 1
\* The last active owner cannot be changed.
OwnerGuard(o, u, role, active) ==
    /\ member[o][u] # None
    /\ (member[o][u].role = Owner /\ (role \notin {None, Owner} \/ active = FALSE)) =>
         Cardinality(ActiveOwners(o)) > 1

\* PATCH, and DELETE (which makes the member inactive).  A change of role
\* asks for org.roles.manage too, which the same roles have.
Patch(r, o, u, role, active) ==
    /\ May(Managers, o) /\ OwnerGuard(o, u, role, active)
    /\ Start(r, [Idle EXCEPT !.pc = "update", !.org = o, !.user = u, !.role = role,
                             !.active = active])
    /\ UNCHANGED <<backend, account, byEmail, member, orgs, invites, late,
                   grants, contested, unfinished>>

\* (Mutant: what the request leaves out is cleared.)
GivenOnly(new, old) == new
Given(new, old) == IF new = None THEN old ELSE new
Update(r) ==
    LET q == req[r]
        old == member[q.org][q.user]
        row == [role |-> Given(q.role, old.role), active |-> Given(q.active, old.active)]
    IN /\ At(r, "update")
       /\ member' = [member EXCEPT ![q.org] = [member[q.org] EXCEPT ![q.user] = row]]
       /\ req' = [Changed(q.org, q.user, row) EXCEPT ![r] = Idle]
       /\ UNCHANGED <<backend, account, byEmail, orgs, invites, late, calls,
                      grants, contested, unfinished>>

\* Suspending and reactivating; nothing else reads the status.
SetStatus(r, o, status) ==
    /\ orgs[o] # None
    /\ Start(r, [Idle EXCEPT !.pc = "status", !.org = o, !.status = status])
    /\ UNCHANGED <<backend, account, byEmail, member, orgs, invites, late,
                   grants, contested, unfinished>>
SaveStatus(r) ==
    /\ At(r, "status")
    /\ SaveStatusOf(req[r].org, req[r].status)
    /\ Done(r)
    /\ UNCHANGED <<backend, account, byEmail, member, invites, late, calls,
                   grants, contested, unfinished>>

-----------------------------------------------------------------------------
Abandon(r) ==
    /\ ~At(r, "idle")
    /\ Done(r)
    /\ contested' = contested \union {i \in Invites : r \in Holding(i)}
    /\ unfinished' = unfinished \union
         {o \in {req[r].org} : req[r].invite = None /\ req[r].pc \in {"find", "add", "join"}}
    /\ UNCHANGED <<backend, account, byEmail, member, orgs, invites, late, calls,
                   grants>>

Elapse(i) ==
    /\ invites[i] # None
    /\ late' = late \union {i}
    /\ UNCHANGED <<backend, account, byEmail, member, orgs, invites, req, calls,
                   grants, contested, unfinished>>

Init ==
    /\ backend \in {"postgres", "memory"}
    /\ account = Account
    /\ byEmail = Leads
    /\ member = Membership
    /\ orgs = [o \in Orgs |-> IF o \in Founded THEN "active" ELSE None]
    /\ invites = [i \in Invites |-> None]
    /\ req = [r \in Requests |-> Idle]
    /\ calls = 0
    /\ grants = [i \in Invites |-> 0]
    /\ late = {} /\ contested = {} /\ unfinished = {}

Next ==
    \/ \E r \in Requests :
         \/ \E o \in Orgs, e \in Emails, role \in Roles : CreateInvite(r, o, e, role)
         \/ \E i \in Invites : Accept(r, i) \/ Resend(r, i) \/ Revoke(r, i)
         \/ \E o \in Orgs, e \in Emails \union {None} : CreateOrganization(r, o, e)
         \/ \E o \in Orgs, u \in Users, role \in Roles \union {None},
               active \in BOOLEAN \union {None} : Patch(r, o, u, role, active)
         \/ \E o \in Orgs, status \in OrganizationStatus : SetStatus(r, o, status)
         \/ SaveInvite(r) \/ SaveResent(r) \/ SaveOutcome(r) \/ SaveOrganization(r)
         \/ FindUser(r) \/ AddUser(r) \/ Join(r) \/ Update(r) \/ SaveStatus(r) \/ Abandon(r)
    \/ \E i \in Invites : Elapse(i)

Spec == Init /\ [][Next]_vars

-----------------------------------------------------------------------------
(* Properties *)

TypeOK ==
    /\ backend \in {"postgres", "memory"}
    /\ account \in [Users -> Emails \union {None}]
    /\ byEmail \in [Emails -> Users \union {None}]
    /\ member \in [Orgs -> [Users -> Member \union {None}]]
    /\ orgs \in [Orgs -> OrganizationStatus \union {None}]
    /\ invites \in [Invites -> Invite \union {None}]
    /\ late \subseteq Invites /\ contested \subseteq Invites
    /\ req \in [Requests -> [
         pc : {"idle", "invite", "find", "add", "join", "accept", "expire", "revoke", "resend",
               "found", "update", "status"},
         org : Orgs \union {None}, user : Users \union {None}, email : Emails \union {None},
         role : Roles \union {None}, active : BOOLEAN \union {None},
         invite : Invites \union {None}, status : OrganizationStatus \union {None},
         stale : BOOLEAN]]
    /\ calls \in 0..MaxCalls
    /\ grants \in [Invites -> Nat]
    /\ unfinished \subseteq Orgs

\* An organization loses its last active owner only to a change that was
\* checked before another owner went (or before there was one), or when that
\* owner accepts an invitation to a lower role, which nothing guards.
LastOwnerLeaves ==
    [][\A o \in Orgs : (ActiveOwners(o) # {} /\ ActiveOwners(o)' = {}) =>
         \E r \in Requests :
            /\ req[r].org = o
            /\ \/ At(r, "update") /\ req[r].stale
               \/ /\ At(r, "join") /\ req[r].invite # None /\ req[r].role # Owner
                  /\ ActiveOwners(o) = {req[r].user}]_vars

\* An organization nobody belongs to is being created, or its creation died.
FoundersBelong ==
    \A o \in Orgs : (orgs[o] # None /\ \A u \in Users : member[o][u] = None) =>
      \/ o \in unfinished
      \/ \E r \in Requests : /\ req[r].org = o /\ req[r].role = Owner /\ req[r].invite = None
                             /\ req[r].pc \in {"find", "add", "join"}

\* Unless two requests held it at once, or one died holding it, an invitation
\* gives at most one membership, and has given it exactly if it ends up
\* accepted (so none if it ends up revoked or expired).
InvitesAdmitOnce ==
    \A i \in Invites \ contested :
      /\ grants[i] <= 1
      /\ Holding(i) = {} => (grants[i] = 1 <=> invites[i] # None /\ invites[i].status = "accepted")
=============================================================================
