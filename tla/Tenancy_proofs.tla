---------------------------- MODULE Tenancy_proofs ----------------------------
(***************************************************************************)
(* Proofs about Tenancy, for any organizations, users, invitations, roles, *)
(* requests, beginnings and bounds.  The inductive invariants say what is  *)
(* still true, when a request writes, of what it checked at first.         *)
(***************************************************************************)
EXTENDS Tenancy, TLAPS, FiniteSetTheorems

Pcs == {"idle", "invite", "find", "add", "join", "accept", "expire", "revoke", "resend",
        "found", "update", "status"}
Request == [pc : Pcs, org : Orgs \union {None}, user : Users \union {None},
            email : Emails \union {None}, role : Roles \union {None},
            active : BOOLEAN \union {None}, invite : Invites \union {None},
            status : OrganizationStatus \union {None}, stale : BOOLEAN]

\* A request has what it needs for what it does next, and the rows it has
\* read are there.
LocalsOK(q) ==
    /\ q.pc \in {"invite", "find", "add", "join", "found", "update", "status"} => q.org \in Orgs
    /\ q.pc \in {"invite", "find", "add"} => q.email \in Emails
    /\ q.pc \in {"invite", "find", "add", "join"} => q.role \in Roles
    /\ q.pc = "found" => q.role = Owner /\ q.invite = None /\ (q.email = None => q.user \in Users)
    /\ q.pc \in {"find", "add", "join"} /\ q.invite = None => q.role = Owner
    /\ q.pc \in {"join", "update"} => q.user \in Users
    /\ q.pc = "update" => member[q.org][q.user] # None
    /\ q.pc \in {"accept", "expire", "revoke", "resend"} => q.invite # None
    /\ q.invite # None => q.invite \in Invites /\ invites[q.invite] # None
    /\ q.pc = "status" => q.status \in OrganizationStatus

TypeInv == TypeOK /\ \A r \in Requests : LocalsOK(req[r])

Others(r) == \A p \in Requests \ {r} : req'[p] = req[p]

\* Rows are added and changed, never taken away.
RowsStay ==
    /\ \A o \in Orgs, u \in Users : member[o][u] # None => member'[o][u] # None
    /\ \A i \in Invites : invites[i] # None => invites'[i] # None

-----------------------------------------------------------------------------
(* How a step changes the requests *)

LEMMA ReqTyped == TypeOK => req \in [Requests -> Request]
BY DEF TypeOK, Request, Pcs

LEMMA IdleTyped ==
    Idle \in Request /\ Idle.pc = "idle" /\ Idle.invite = None
BY DEF Idle, Request, Pcs

LEMMA Beginning ==
    ASSUME TypeOK, NEW r \in Requests, NEW q \in Request, req' = [req EXCEPT ![r] = q]
    PROVE  req' \in [Requests -> Request] /\ Others(r) /\ req'[r] = q
BY ReqTyped DEF Others

LEMMA Going ==
    ASSUME TypeOK, NEW r \in Requests, NEW pc \in Pcs, Goto(r, pc)
    PROVE  /\ req' \in [Requests -> Request] /\ Others(r)
           /\ req'[r] = [req[r] EXCEPT !.pc = pc]
<1> DEFINE q == [req[r] EXCEPT !.pc = pc]
<1>0. req \in [Requests -> Request]
  BY ReqTyped
<1>1. q \in Request
  BY <1>0 DEF Request
<1>2. req' = [req EXCEPT ![r] = q]
  BY DEF Goto
<1> HIDE DEF q
<1>3. req' \in [Requests -> Request] /\ Others(r) /\ req'[r] = q
  BY <1>1, <1>2, Beginning
<1> QED BY <1>3 DEF q

LEMMA Ending ==
    ASSUME TypeOK, NEW r \in Requests, Done(r)
    PROVE  req' \in [Requests -> Request] /\ Others(r) /\ req'[r] = Idle
BY IdleTyped, Beginning DEF Done

\* A request changes a membership: those past their owner guard are told if
\* an owner goes or is the first.
Told(r, o, u, m) == \A p \in Requests \ {r} :
    /\ req'[p].pc = req[p].pc /\ req'[p].org = req[p].org /\ req'[p].user = req[p].user
    /\ req'[p].email = req[p].email /\ req'[p].role = req[p].role
    /\ req'[p].active = req[p].active /\ req'[p].invite = req[p].invite
    /\ req'[p].status = req[p].status
    /\ req[p].pc = "update" /\ req[p].org = o /\ Unseen(o, u, m) => req'[p].stale
    /\ ~(req[p].pc = "update" /\ req[p].org = o /\ Unseen(o, u, m)) =>
         req'[p].stale = req[p].stale

LEMMA Telling ==
    ASSUME TypeOK, NEW r \in Requests, NEW o, NEW u, NEW m, NEW q \in Request,
           req' = [Changed(o, u, m) EXCEPT ![r] = q]
    PROVE  req' \in [Requests -> Request] /\ req'[r] = q /\ Told(r, o, u, m)
<1> DEFINE told == Changed(o, u, m)
<1>0. req \in [Requests -> Request]
  BY ReqTyped
<1>1. told \in [Requests -> Request]
  BY ZenonT(60), <1>0 DEF Changed, Request, At
<1>2. \A p \in Requests :
        /\ told[p].pc = req[p].pc /\ told[p].org = req[p].org /\ told[p].user = req[p].user
        /\ told[p].email = req[p].email /\ told[p].role = req[p].role
        /\ told[p].active = req[p].active /\ told[p].invite = req[p].invite
        /\ told[p].status = req[p].status
        /\ req[p].pc = "update" /\ req[p].org = o /\ Unseen(o, u, m) => told[p].stale
        /\ ~(req[p].pc = "update" /\ req[p].org = o /\ Unseen(o, u, m)) =>
             told[p].stale = req[p].stale
  BY <1>0 DEF Changed, Request, At
<1> HIDE DEF told
<1>3. req' \in [Requests -> Request] /\ req'[r] = q /\ \A p \in Requests \ {r} : req'[p] = told[p]
  BY <1>1 DEF told
<1> QED BY <1>2, <1>3 DEF Told

-----------------------------------------------------------------------------
(* How a request begins and goes on *)

LEMMA InviteBegins ==
    ASSUME TypeInv, TenancyAssumption, NEW r \in Requests, NEW o \in Orgs, NEW e \in Emails,
           NEW role \in Roles, CreateInvite(r, o, e, role)
    PROVE  /\ req' \in [Requests -> Request] /\ Others(r)
           /\ req'[r].pc = "invite" /\ req'[r].org = o /\ req'[r].email = e
           /\ req'[r].role = role /\ req'[r].invite = None
<1> DEFINE q == [Idle EXCEPT !.pc = "invite", !.org = o, !.email = e, !.role = role]
<1>1. /\ q \in Request /\ q.pc = "invite" /\ q.org = o /\ q.email = e
      /\ q.role = role /\ q.invite = None
  BY DEF Idle, Request, Pcs
<1>2. req' = [req EXCEPT ![r] = q]
  BY DEF CreateInvite, Start
<1> HIDE DEF q
<1> QED BY <1>1, <1>2, Beginning DEF TypeInv

LEMMA AcceptBegins ==
    ASSUME TypeInv, TenancyAssumption, NEW r \in Requests, NEW i \in Invites, Accept(r, i)
    PROVE  /\ req' \in [Requests -> Request] /\ Others(r)
           /\ req'[r].pc \in {"expire", "find"} /\ req'[r].invite = i
           /\ req'[r].org \in Orgs /\ req'[r].email \in Emails /\ req'[r].role \in Roles
           /\ invites[i] # None /\ invites[i].status = "pending"
<1> DEFINE pc == IF i \in late THEN "expire" ELSE "find"
           q == [Idle EXCEPT !.pc = pc, !.org = invites[i].org, !.email = invites[i].email,
                             !.role = invites[i].role, !.invite = i]
<1>0. invites[i] \in Invite /\ invites[i] # None /\ invites[i].status = "pending"
  BY DEF TypeInv, TypeOK, Accept, Pending
<1>1. pc \in {"expire", "find"}
  OBVIOUS
<1>2. req' = [req EXCEPT ![r] = q]
  BY DEF Accept, Start
<1> HIDE DEF pc
<1>3. /\ q \in Request /\ q.pc = pc /\ q.invite = i
      /\ q.org \in Orgs /\ q.email \in Emails /\ q.role \in Roles
  BY <1>0, <1>1 DEF Idle, Request, Pcs, Invite
<1> HIDE DEF q
<1> QED BY <1>0, <1>1, <1>2, <1>3, Beginning DEF TypeInv

LEMMA ChangeBegins ==
    ASSUME TypeInv, TenancyAssumption, NEW r \in Requests, NEW i \in Invites,
           Resend(r, i) \/ Revoke(r, i)
    PROVE  /\ req' \in [Requests -> Request] /\ Others(r)
           /\ req'[r].pc \in {"resend", "revoke"} /\ req'[r].invite = i
           /\ req'[r].pc = "revoke" <=> Revoke(r, i)
           /\ invites[i] # None /\ invites[i].status = "pending"
<1> DEFINE pc == IF Revoke(r, i) THEN "revoke" ELSE "resend"
           q == [Idle EXCEPT !.pc = pc, !.org = invites[i].org, !.invite = i]
<1>0. invites[i] \in Invite /\ invites[i] # None /\ invites[i].status = "pending"
  BY DEF TypeInv, TypeOK, Resend, Revoke, Change, Pending
<1>1. pc \in {"resend", "revoke"} /\ (pc = "revoke" <=> Revoke(r, i))
  OBVIOUS
<1>2. req' = [req EXCEPT ![r] = q]
  <2>1. CASE Revoke(r, i)
    BY <2>1 DEF Revoke, Change, Start
  <2>2. CASE ~Revoke(r, i)
    BY <2>2 DEF Resend, Change, Start
  <2> QED BY <2>1, <2>2
<1> HIDE DEF pc
<1>3. q \in Request /\ q.pc = pc /\ q.invite = i
  BY <1>0, <1>1 DEF Idle, Request, Pcs, Invite
<1> HIDE DEF q
<1> QED BY <1>0, <1>1, <1>2, <1>3, Beginning DEF TypeInv

LEMMA FoundingBegins ==
    ASSUME TypeInv, TenancyAssumption, NEW r \in Requests, NEW o \in Orgs,
           NEW e \in Emails \union {None}, CreateOrganization(r, o, e)
    PROVE  /\ req' \in [Requests -> Request] /\ Others(r)
           /\ req'[r].pc = "found" /\ req'[r].org = o /\ req'[r].role = Owner
           /\ req'[r].invite = None /\ (req'[r].email = None => req'[r].user \in Users)
<1>1. CASE e \in Emails
  <2> DEFINE q == [Idle EXCEPT !.pc = "found", !.org = o, !.email = e, !.role = Owner]
  <2>1. /\ q \in Request /\ q.pc = "found" /\ q.org = o /\ q.role = Owner /\ q.invite = None
        /\ q.email = e
    BY <1>1 DEF Idle, Request, Pcs, TenancyAssumption
  <2>2. req' = [req EXCEPT ![r] = q] /\ e # None
    BY <1>1 DEF CreateOrganization, Start, TenancyAssumption
  <2> HIDE DEF q
  <2> QED BY <2>1, <2>2, Beginning DEF TypeInv
<1>2. CASE e = None
  <2>1. PICK u \in Users :
          req' = [req EXCEPT ![r] =
                    [Idle EXCEPT !.pc = "found", !.org = o, !.user = u, !.role = Owner]]
    BY <1>2 DEF CreateOrganization, Start, TenancyAssumption
  <2> DEFINE q == [Idle EXCEPT !.pc = "found", !.org = o, !.user = u, !.role = Owner]
  <2>2. /\ q \in Request /\ q.pc = "found" /\ q.org = o /\ q.role = Owner /\ q.invite = None
        /\ q.user = u
    BY DEF Idle, Request, Pcs, TenancyAssumption
  <2> HIDE DEF q
  <2> QED BY <2>1, <2>2, Beginning DEF TypeInv, q
<1> QED BY <1>1, <1>2

LEMMA PatchBegins ==
    ASSUME TypeInv, TenancyAssumption, NEW r \in Requests, NEW o \in Orgs, NEW u \in Users,
           \E role \in Roles \union {None}, active \in BOOLEAN \union {None} :
             Patch(r, o, u, role, active)
    PROVE  /\ req' \in [Requests -> Request] /\ Others(r)
           /\ req'[r].pc = "update" /\ req'[r].org = o /\ req'[r].user = u
           /\ req'[r].invite = None
           /\ OwnerGuard(o, u, req'[r].role, req'[r].active)
<1> PICK role \in Roles \union {None}, active \in BOOLEAN \union {None} :
        Patch(r, o, u, role, active)
  OBVIOUS
<1> DEFINE q == [Idle EXCEPT !.pc = "update", !.org = o, !.user = u, !.role = role,
                             !.active = active]
<1>1. /\ q \in Request /\ q.pc = "update" /\ q.org = o /\ q.user = u
      /\ q.role = role /\ q.active = active /\ q.invite = None
  BY DEF Idle, Request, Pcs
<1>2. req' = [req EXCEPT ![r] = q] /\ OwnerGuard(o, u, role, active)
  BY DEF Patch, Start
<1> HIDE DEF q
<1>3. req' \in [Requests -> Request] /\ Others(r) /\ req'[r] = q
  BY <1>1, <1>2, Beginning DEF TypeInv
<1> QED BY <1>1, <1>2, <1>3

LEMMA StatusBegins ==
    ASSUME TypeInv, TenancyAssumption, NEW r \in Requests, NEW o \in Orgs,
           NEW status \in OrganizationStatus, SetStatus(r, o, status)
    PROVE  /\ req' \in [Requests -> Request] /\ Others(r)
           /\ req'[r].pc = "status" /\ req'[r].org = o /\ req'[r].status = status
           /\ req'[r].invite = None
<1> DEFINE q == [Idle EXCEPT !.pc = "status", !.org = o, !.status = status]
<1>1. /\ q \in Request /\ q.pc = "status" /\ q.org = o /\ q.status = status /\ q.invite = None
  BY DEF Idle, Request, Pcs
<1>2. req' = [req EXCEPT ![r] = q]
  BY DEF SetStatus, Start
<1> HIDE DEF q
<1> QED BY <1>1, <1>2, Beginning DEF TypeInv

\* What a request that admits a user keeps from one step to the next.
Kept(r) == /\ req'[r].org = req[r].org /\ req'[r].email = req[r].email
           /\ req'[r].role = req[r].role /\ req'[r].invite = req[r].invite

LEMMA FoundGoesOn ==
    ASSUME TypeInv, NEW r \in Requests, SaveOrganization(r)
    PROVE  /\ req' \in [Requests -> Request] /\ Others(r) /\ Kept(r)
           /\ req[r].pc = "found" /\ req'[r].pc \in {"join", "find"}
           /\ req'[r].pc = "join" => req'[r].user \in Users
           /\ req'[r].pc = "find" => req'[r].email \in Emails
<1> DEFINE pc == IF req[r].email = None THEN "join" ELSE "find"
<1>1. Goto(r, pc) /\ req[r].pc = "found"
  BY DEF SaveOrganization, At
<1>2. /\ pc = "join" => req[r].user \in Users
      /\ pc = "find" => req[r].email \in Emails
  BY <1>1, ReqTyped DEF TypeInv, LocalsOK, Request
<1>3. pc \in {"join", "find"} /\ pc \in Pcs
  BY DEF Pcs
<1> HIDE DEF pc
<1>4. req' \in [Requests -> Request] /\ Others(r) /\ req'[r] = [req[r] EXCEPT !.pc = pc]
  BY <1>1, <1>3, Going DEF TypeInv
<1>5. req[r] \in Request
  BY ReqTyped DEF TypeInv
<1> QED BY <1>1, <1>2, <1>3, <1>4, <1>5 DEF Kept, Request

LEMMA FindGoesOn ==
    ASSUME TypeInv, TenancyAssumption, NEW r \in Requests, FindUser(r)
    PROVE  /\ req' \in [Requests -> Request] /\ Others(r) /\ Kept(r)
           /\ req[r].pc = "find" /\ req'[r].pc \in {"join", "add"}
           /\ req'[r].pc = "join" => req'[r].user \in Users
<1> DEFINE u == byEmail[req[r].email]
           q == IF u = None THEN [req[r] EXCEPT !.pc = "add"]
                            ELSE [req[r] EXCEPT !.pc = "join", !.user = u]
<1>1. req[r] \in Request /\ req[r].pc = "find" /\ req' = [req EXCEPT ![r] = q]
  BY ReqTyped DEF FindUser, At, TypeInv
<1>2. u \in Users \union {None}
  BY <1>1 DEF TypeInv, TypeOK, LocalsOK
<1>3. /\ q \in Request /\ q.pc \in {"join", "add"} /\ (q.pc = "join" => q.user \in Users)
      /\ q.org = req[r].org /\ q.email = req[r].email
      /\ q.role = req[r].role /\ q.invite = req[r].invite
  <2> HIDE DEF u
  <2>1. CASE u = None
    BY <1>1, <2>1 DEF Request, Pcs
  <2>2. CASE u # None
    BY <1>1, <1>2, <2>2 DEF Request, Pcs
  <2> QED BY <2>1, <2>2
<1> HIDE DEF q
<1> QED BY <1>1, <1>3, Beginning DEF TypeInv, Kept

LEMMA AddGoesOn ==
    ASSUME TypeInv, TenancyAssumption, NEW r \in Requests, AddUser(r)
    PROVE  /\ req' \in [Requests -> Request] /\ Others(r) /\ Kept(r)
           /\ req[r].pc = "add" /\ req'[r].pc = "join" /\ req'[r].user \in Users
           /\ account' \in [Users -> Emails \union {None}]
           /\ byEmail' \in [Emails -> Users \union {None}]
<1>1. req[r] \in Request /\ req[r].pc = "add" /\ req[r].email \in Emails
  BY ReqTyped DEF AddUser, At, TypeInv, LocalsOK
<1>2. PICK u \in Users :
        /\ account' = [account EXCEPT ![u] = req[r].email]
        /\ byEmail' = [byEmail EXCEPT ![req[r].email] = u]
        /\ req' = [req EXCEPT ![r] = [req[r] EXCEPT !.pc = "join", !.user = u]]
  BY DEF AddUser
<1> DEFINE q == [req[r] EXCEPT !.pc = "join", !.user = u]
<1>3. /\ q \in Request /\ q.pc = "join" /\ q.user = u
      /\ q.org = req[r].org /\ q.email = req[r].email
      /\ q.role = req[r].role /\ q.invite = req[r].invite
  BY <1>1 DEF Request, Pcs
<1>4. req' = [req EXCEPT ![r] = q]
  BY <1>2
<1> HIDE DEF q
<1>5. account' \in [Users -> Emails \union {None}] /\ byEmail' \in [Emails -> Users \union {None}]
  BY <1>1, <1>2 DEF TypeInv, TypeOK
<1> QED BY <1>1, <1>3, <1>4, <1>5, Beginning DEF TypeInv, Kept

-----------------------------------------------------------------------------
(* How a step changes the rows *)

\* One membership is written.
Writes(o, u, m) ==
    /\ member' \in [Orgs -> [Users -> Member \union {None}]]
    /\ member'[o][u] = m
    /\ \A p \in Orgs, v \in Users : (p # o \/ v # u) => member'[p][v] = member[p][v]

LEMMA Writing ==
    ASSUME TypeOK, NEW o \in Orgs, NEW u \in Users, NEW m \in Member,
           member' = [member EXCEPT ![o] = [member[o] EXCEPT ![u] = m]]
    PROVE  Writes(o, u, m)
<1> DEFINE f == [member[o] EXCEPT ![u] = m]
<1>1. member \in [Orgs -> [Users -> Member \union {None}]]
  BY DEF TypeOK
<1>2. /\ f \in [Users -> Member \union {None}] /\ f[u] = m
      /\ \A v \in Users \ {u} : f[v] = member[o][v]
  BY <1>1
<1> HIDE DEF f
<1>3. member' = [member EXCEPT ![o] = f]
  BY DEF f
<1>4. /\ member' \in [Orgs -> [Users -> Member \union {None}]] /\ member'[o] = f
      /\ \A p \in Orgs \ {o} : member'[p] = member[p]
  BY <1>1, <1>2, <1>3
<1> QED BY <1>2, <1>4 DEF Writes

LEMMA JoinGoesOn ==
    ASSUME TypeInv, TenancyAssumption, NEW r \in Requests, Join(r)
    PROVE  \E o \in Orgs, u \in Users, m \in Member :
             /\ req[r].pc = "join" /\ o = req[r].org /\ u = req[r].user
             /\ m = [role |-> req[r].role, active |-> TRUE]
             /\ Writes(o, u, m)
             /\ req' \in [Requests -> Request] /\ Told(r, o, u, m)
             /\ req[r].invite = None => req'[r] = Idle
             /\ req[r].invite # None => req'[r].pc = "accept" /\ req'[r].invite = req[r].invite
             /\ grants' \in [Invites -> Nat]
             /\ \A j \in Invites :
                  grants'[j] = IF j = req[r].invite THEN grants[j] + 1 ELSE grants[j]
<1>1. /\ req[r] \in Request /\ req[r].pc = "join" /\ req[r].org \in Orgs
      /\ req[r].user \in Users /\ req[r].role \in Roles /\ TypeOK
  BY ReqTyped DEF Join, At, TypeInv, LocalsOK
<1> PICK o \in Orgs, u \in Users : o = req[r].org /\ u = req[r].user
  BY <1>1
<1> DEFINE new == [role |-> req[r].role, active |-> TRUE]
           q == IF req[r].invite = None THEN Idle ELSE [req[r] EXCEPT !.pc = "accept"]
<1>2. new \in Member
  BY <1>1 DEF Member
<1>3. /\ member' = [member EXCEPT ![o] = [member[o] EXCEPT ![u] = new]]
      /\ req' = [Changed(o, u, new) EXCEPT ![r] = q]
  BY DEF Join
<1>4. /\ q \in Request
      /\ req[r].invite = None => q = Idle
      /\ req[r].invite # None => q.pc = "accept" /\ q.invite = req[r].invite
  BY <1>1, IdleTyped DEF Request, Pcs
<1>5. PICK m \in Member : m = new
  BY <1>2
<1> HIDE DEF new, q
<1>6. Writes(o, u, m)
  BY <1>1, <1>3, <1>5, Writing
<1>7. req' \in [Requests -> Request] /\ req'[r] = q /\ Told(r, o, u, m)
  BY <1>1, <1>3, <1>4, <1>5, Telling
<1>8. grants' = [j \in Invites |-> IF j = req[r].invite THEN grants[j] + 1 ELSE grants[j]]
  BY DEF Join
<1>9. grants \in [Invites -> Nat]
  BY DEF TypeInv, TypeOK
<1>10. /\ grants' \in [Invites -> Nat]
       /\ \A j \in Invites : grants'[j] = IF j = req[r].invite THEN grants[j] + 1 ELSE grants[j]
  BY SMTT(30), <1>8, <1>9
<1> QED BY <1>1, <1>4, <1>5, <1>6, <1>7, <1>10 DEF new

LEMMA UpdateGoesOn ==
    ASSUME TypeInv, TenancyAssumption, NEW r \in Requests, Update(r)
    PROVE  \E o \in Orgs, u \in Users, m \in Member :
             /\ req[r].pc = "update" /\ o = req[r].org /\ u = req[r].user /\ req[r] \in Request
             /\ member[o][u] \in Member
             /\ m = [role |-> Given(req[r].role, member[o][u].role),
                     active |-> Given(req[r].active, member[o][u].active)]
             /\ Writes(o, u, m)
             /\ req' \in [Requests -> Request] /\ Told(r, o, u, m) /\ req'[r] = Idle
<1>1. /\ req[r] \in Request /\ req[r].pc = "update" /\ req[r].org \in Orgs /\ req[r].user \in Users
      /\ member[req[r].org][req[r].user] # None /\ TypeOK
  BY ReqTyped DEF Update, At, TypeInv, LocalsOK
<1> DEFINE o == req[r].org
           u == req[r].user
           new == [role |-> Given(req[r].role, member[o][u].role),
                   active |-> Given(req[r].active, member[o][u].active)]
<1>4. /\ member' = [member EXCEPT ![o] = [member[o] EXCEPT ![u] = new]]
      /\ req' = [Changed(o, u, new) EXCEPT ![r] = Idle]
  BY ZenonT(60) DEF Update
<1>8. o \in Orgs /\ u \in Users /\ o = req[r].org /\ u = req[r].user
  BY <1>1
<1> HIDE DEF o, u
<1>2. member[o][u] \in Member
  BY <1>1, <1>8 DEF TypeOK
<1>3. new \in Member
  BY SMTT(30), <1>1, <1>2 DEF Member, Given, Request
<1>5. PICK m \in Member : m = new
  BY <1>3
<1> HIDE DEF new
<1>6. Writes(o, u, m)
  BY <1>1, <1>4, <1>5, <1>8, Writing
<1>7. req' \in [Requests -> Request] /\ req'[r] = Idle /\ Told(r, o, u, m)
  BY <1>1, <1>4, <1>5, <1>8, IdleTyped, Telling
<1> QED BY ZenonT(60), <1>1, <1>2, <1>5, <1>6, <1>7, <1>8 DEF new

\* One invitation is written.
InviteWritten(i) ==
    /\ invites' \in [Invites -> Invite \union {None}] /\ invites'[i] # None
    /\ \A j \in Invites \ {i} : invites'[j] = invites[j]

LEMMA InviteSaved ==
    ASSUME TypeOK, TenancyAssumption, NEW i \in Invites, NEW x \in Invite, Save(i, x)
    PROVE  InviteWritten(i) /\ invites'[i] = x
BY DEF TypeOK, Save, InviteWritten, TenancyAssumption

LEMMA CreateSaves ==
    ASSUME TypeInv, TenancyAssumption, NEW r \in Requests, SaveInvite(r)
    PROVE  \E i \in Invites : /\ invites[i] = None /\ InviteWritten(i)
                             /\ invites'[i].status = "pending"
<1>1. req[r].org \in Orgs /\ req[r].email \in Emails /\ req[r].role \in Roles
  BY DEF SaveInvite, At, TypeInv, LocalsOK
<1> DEFINE x == [org |-> req[r].org, email |-> req[r].email, role |-> req[r].role,
                 gen |-> 0, status |-> "pending"]
<1>2. PICK i \in Invites : invites[i] = None /\ Save(i, x)
  BY DEF SaveInvite
<1>3. x \in Invite /\ x.status = "pending"
  BY <1>1 DEF Invite, InviteStatus, TenancyAssumption
<1>4. invites' = [invites EXCEPT ![i] = x]
  BY <1>2 DEF Save
<1> HIDE DEF x
<1>5. InviteWritten(i) /\ invites'[i] = x
  BY <1>3, <1>4 DEF TypeInv, TypeOK, InviteWritten, TenancyAssumption
<1> QED BY <1>2, <1>3, <1>5

LEMMA ResendSaves ==
    ASSUME TypeInv, TenancyAssumption, NEW r \in Requests, SaveResent(r)
    PROVE  \E i \in Invites : /\ i = req[r].invite /\ req[r].pc = "resend" /\ InviteWritten(i)
                             /\ invites[i] # None /\ invites'[i].status = invites[i].status
<1>1. req[r].invite \in Invites /\ req[r].pc = "resend"
  BY DEF SaveResent, At, TypeInv, LocalsOK
<1> PICK i \in Invites : i = req[r].invite
  BY <1>1
<1>2. invites[i] # None /\ invites[i] \in Invite
  BY <1>1 DEF TypeInv, TypeOK, LocalsOK
<1> DEFINE x == [invites[i] EXCEPT !.gen = @ + 1]
<1>3. invites' = [invites EXCEPT ![i] = x] /\ invites[i].gen < MaxResends
  BY DEF SaveResent, Save
<1>4. x \in Invite /\ x.status = invites[i].status
  BY <1>2, <1>3 DEF Invite, TenancyAssumption
<1> HIDE DEF x
<1>5. InviteWritten(i) /\ invites'[i] = x
  BY <1>3, <1>4 DEF TypeInv, TypeOK, InviteWritten, TenancyAssumption
<1> QED BY <1>1, <1>2, <1>4, <1>5

LEMMA OutcomeSaves ==
    ASSUME TypeInv, TenancyAssumption, NEW r \in Requests, SaveOutcome(r)
    PROVE  \E i \in Invites :
             /\ i = req[r].invite /\ req[r].pc \in {"accept", "expire", "revoke"} /\ InviteWritten(i)
             /\ invites'[i].status = "accepted" <=> req[r].pc = "accept"
<1>1. req[r].invite \in Invites /\ req[r].pc \in {"accept", "expire", "revoke"}
  BY DEF SaveOutcome, Outcome, TypeInv, LocalsOK
<1> PICK i \in Invites : i = req[r].invite
  BY <1>1
<1>2. invites[i] # None /\ invites[i] \in Invite
  BY <1>1 DEF TypeInv, TypeOK, LocalsOK
<1> DEFINE status == Outcome[req[r].pc]
           x == [invites[i] EXCEPT !.status = status]
<1>3. invites' = [invites EXCEPT ![i] = x]
  BY DEF SaveOutcome, Save
<1>4. status \in InviteStatus /\ (status = "accepted" <=> req[r].pc = "accept")
  BY <1>1 DEF Outcome, InviteStatus
<1> HIDE DEF status
<1>5. x \in Invite /\ x.status = status
  BY <1>2, <1>4 DEF Invite
<1> HIDE DEF x
<1>6. InviteWritten(i) /\ invites'[i] = x
  BY <1>3, <1>5 DEF TypeInv, TypeOK, InviteWritten, TenancyAssumption
<1> QED BY <1>1, <1>4, <1>5, <1>6

-----------------------------------------------------------------------------
(* Types *)

LEMMA LocalsKept ==
    ASSUME TypeInv, NEW r \in Requests, RowsStay,
           \A p \in Requests \ {r} :
             /\ req'[p].pc = req[p].pc /\ req'[p].org = req[p].org /\ req'[p].user = req[p].user
             /\ req'[p].email = req[p].email /\ req'[p].role = req[p].role
             /\ req'[p].invite = req[p].invite /\ req'[p].status = req[p].status,
           LocalsOK(req[r])'
    PROVE  \A p \in Requests : LocalsOK(req[p])'
<1> TAKE p \in Requests
<1>1. CASE p = r
  BY <1>1
<1>2. CASE p # r
  <2>1. /\ req'[p].pc = req[p].pc /\ req'[p].org = req[p].org /\ req'[p].user = req[p].user
        /\ req'[p].email = req[p].email /\ req'[p].role = req[p].role
        /\ req'[p].invite = req[p].invite /\ req'[p].status = req[p].status
        /\ LocalsOK(req[p])
    BY <1>2 DEF TypeInv
  <2> QED BY <2>1 DEF LocalsOK, RowsStay
<1> QED BY <1>1, <1>2

\* A step that moves one request and adds to the rows.
LEMMA MoveTyped ==
    ASSUME TypeInv, NEW r \in Requests, Others(r), req' \in [Requests -> Request],
           RowsStay, LocalsOK(req[r])',
           member' = member \/ member' \in [Orgs -> [Users -> Member \union {None}]],
           invites' = invites \/ invites' \in [Invites -> Invite \union {None}],
           orgs' = orgs \/ orgs' \in [Orgs -> OrganizationStatus \union {None}],
           account' = account \/ account' \in [Users -> Emails \union {None}],
           byEmail' = byEmail \/ byEmail' \in [Emails -> Users \union {None}],
           contested' \subseteq Invites, unfinished' \subseteq Orgs, calls' \in 0..MaxCalls,
           UNCHANGED <<backend, late, grants>>
    PROVE  TypeInv'
<1>1. \A p \in Requests : LocalsOK(req[p])'
  BY LocalsKept DEF Others
<1> QED BY <1>1 DEF TypeInv, TypeOK, Request, Pcs

LEMMA RowsUnchanged == UNCHANGED <<member, invites>> => RowsStay
BY DEF RowsStay

LEMMA IdleOK == TenancyAssumption => \A r \in Requests : req'[r] = Idle => LocalsOK(req[r])'
BY IdleTyped DEF LocalsOK, Idle

\* Every start counts the request and changes nothing but the requests.
LEMMA StartTyped ==
    ASSUME TypeInv, TenancyAssumption, NEW r \in Requests, Others(r), req' \in [Requests -> Request],
           LocalsOK(req[r])', calls < MaxCalls, calls' = calls + 1, contested' \subseteq Invites,
           UNCHANGED <<backend, account, byEmail, member, orgs, invites, late, grants, unfinished>>
    PROVE  TypeInv'
<1>1. calls' \in 0..MaxCalls /\ unfinished' \subseteq Orgs
  BY DEF TypeInv, TypeOK, TenancyAssumption
<1> QED BY <1>1, RowsUnchanged, MoveTyped

\* A request ends by saving what it has prepared, or dies.
LEMMA EndTyped ==
    ASSUME TypeInv, TenancyAssumption, NEW r \in Requests, Done(r), RowsStay, UNCHANGED member,
           invites' = invites \/ invites' \in [Invites -> Invite \union {None}],
           orgs' = orgs \/ orgs' \in [Orgs -> OrganizationStatus \union {None}],
           contested' \subseteq Invites, unfinished' \subseteq Orgs,
           UNCHANGED <<backend, account, byEmail, late, grants, calls>>
    PROVE  TypeInv'
<1>1. req' \in [Requests -> Request] /\ Others(r) /\ req'[r] = Idle
  BY Ending DEF TypeInv
<1>2. LocalsOK(req[r])' /\ calls' \in 0..MaxCalls
  BY <1>1, IdleOK DEF TypeInv, TypeOK
<1> QED BY <1>1, <1>2, MoveTyped

LEMMA NextTyped == TypeInv /\ [Next]_vars => TypeInv'
<1> SUFFICES ASSUME TypeInv, [Next]_vars PROVE TypeInv'
  OBVIOUS
<1> USE TenancyAssumption
<1>0. /\ TypeOK /\ contested \subseteq Invites /\ unfinished \subseteq Orgs
      /\ calls \in 0..MaxCalls /\ orgs \in [Orgs -> OrganizationStatus \union {None}]
  BY DEF TypeInv, TypeOK
<1>1. ASSUME NEW r \in Requests, NEW o \in Orgs, NEW e \in Emails, NEW role \in Roles,
             CreateInvite(r, o, e, role)
      PROVE  TypeInv'
  <2>1. req' \in [Requests -> Request] /\ Others(r) /\ LocalsOK(req[r])'
    BY <1>1, InviteBegins DEF LocalsOK
  <2> QED BY <1>0, <1>1, <2>1, StartTyped DEF CreateInvite, Start
<1>2. ASSUME NEW r \in Requests, NEW i \in Invites, Accept(r, i) PROVE TypeInv'
  <2>0. invites' = invites
    BY <1>2 DEF Accept
  <2>1. req' \in [Requests -> Request] /\ Others(r) /\ LocalsOK(req[r])'
    BY <1>2, <2>0, AcceptBegins DEF LocalsOK
  <2>2. contested' \subseteq Invites
    BY <1>0, <1>2 DEF Accept, Contest
  <2> QED BY <1>2, <2>1, <2>2, StartTyped DEF Accept, Start
<1>3. ASSUME NEW r \in Requests, NEW i \in Invites, Resend(r, i) \/ Revoke(r, i) PROVE TypeInv'
  <2>0. invites' = invites
    BY <1>3 DEF Resend, Revoke, Change
  <2>1. calls < MaxCalls /\ calls' = calls + 1
    BY <1>3 DEF Resend, Revoke, Change, Start
  <2>2. req' \in [Requests -> Request] /\ Others(r) /\ LocalsOK(req[r])'
    <3>1. /\ req' \in [Requests -> Request] /\ Others(r)
          /\ req'[r].pc \in {"resend", "revoke"} /\ req'[r].invite = i
      BY <1>3, ChangeBegins
    <3>2. invites[i] # None
      BY <1>3, ChangeBegins
    <3> QED BY <2>0, <3>1, <3>2 DEF LocalsOK
  <2>3. contested' \subseteq Invites
    BY <1>0, <1>3 DEF Resend, Revoke, Contest
  <2>4. UNCHANGED <<backend, account, byEmail, member, orgs, invites, late, grants, unfinished>>
    BY <1>3 DEF Resend, Revoke, Change
  <2> QED BY <2>1, <2>2, <2>3, <2>4, StartTyped
<1>4. ASSUME NEW r \in Requests, NEW o \in Orgs, NEW e \in Emails \union {None},
             CreateOrganization(r, o, e)
      PROVE  TypeInv'
  <2>1. req' \in [Requests -> Request] /\ Others(r) /\ LocalsOK(req[r])'
    BY <1>4, FoundingBegins DEF LocalsOK
  <2>2. calls < MaxCalls /\ calls' = calls + 1
    BY <1>4 DEF CreateOrganization, Start
  <2> QED BY <1>0, <1>4, <2>1, <2>2, StartTyped DEF CreateOrganization
<1>5. ASSUME NEW r \in Requests, NEW o \in Orgs, NEW u \in Users,
             \E role \in Roles \union {None}, active \in BOOLEAN \union {None} :
               Patch(r, o, u, role, active)
      PROVE  TypeInv'
  <2>0. member' = member /\ member[o][u] # None
    BY <1>5 DEF Patch, OwnerGuard
  <2>1. req' \in [Requests -> Request] /\ Others(r) /\ LocalsOK(req[r])'
    <3>1. /\ req' \in [Requests -> Request] /\ Others(r)
          /\ req'[r].pc = "update" /\ req'[r].org = o /\ req'[r].user = u
          /\ req'[r].invite = None
      BY <1>5, PatchBegins
    <3> QED BY <2>0, <3>1 DEF LocalsOK
  <2> QED BY <1>0, <1>5, <2>1, StartTyped DEF Patch, Start
<1>6. ASSUME NEW r \in Requests, NEW o \in Orgs, NEW status \in OrganizationStatus,
             SetStatus(r, o, status)
      PROVE  TypeInv'
  <2>1. req' \in [Requests -> Request] /\ Others(r) /\ LocalsOK(req[r])'
    BY <1>6, StatusBegins DEF LocalsOK
  <2> QED BY <1>0, <1>6, <2>1, StartTyped DEF SetStatus, Start
<1>7. ASSUME NEW r \in Requests, SaveInvite(r) \/ SaveResent(r) \/ SaveOutcome(r) PROVE TypeInv'
  <2>1. \E i \in Invites : InviteWritten(i)
    BY <1>7, CreateSaves, ResendSaves, OutcomeSaves
  <2>2. RowsStay /\ invites' \in [Invites -> Invite \union {None}] /\ UNCHANGED member
    BY <1>7, <2>1 DEF SaveInvite, SaveResent, SaveOutcome, InviteWritten, RowsStay
  <2> QED BY <1>0, <1>7, <2>2, EndTyped DEF SaveInvite, SaveResent, SaveOutcome
<1>8. ASSUME NEW r \in Requests, SaveOrganization(r) PROVE TypeInv'
  <2>1. /\ req' \in [Requests -> Request] /\ Others(r) /\ Kept(r)
        /\ req[r].pc = "found" /\ req'[r].pc \in {"join", "find"}
        /\ req'[r].pc = "join" => req'[r].user \in Users
        /\ req'[r].pc = "find" => req'[r].email \in Emails
    BY <1>8, FoundGoesOn
  <2>2. LocalsOK(req[r]) /\ RowsStay
    BY <1>8, RowsUnchanged DEF SaveOrganization, TypeInv
  <2>3. LocalsOK(req[r])'
    BY <2>1, <2>2 DEF LocalsOK, Kept, TenancyAssumption
  <2>4. orgs' \in [Orgs -> OrganizationStatus \union {None}]
    BY <1>0, <1>8 DEF SaveOrganization, SaveStatusOf, OrganizationStatus
  <2> QED BY <1>0, <1>8, <2>1, <2>2, <2>3, <2>4, MoveTyped DEF SaveOrganization
<1>9. ASSUME NEW r \in Requests, FindUser(r) PROVE TypeInv'
  <2>1. /\ req' \in [Requests -> Request] /\ Others(r) /\ Kept(r)
        /\ req[r].pc = "find" /\ req'[r].pc \in {"join", "add"}
        /\ req'[r].pc = "join" => req'[r].user \in Users
    BY <1>9, FindGoesOn
  <2>2. LocalsOK(req[r]) /\ RowsStay /\ UNCHANGED invites
    BY <1>9, RowsUnchanged DEF FindUser, TypeInv
  <2>3. LocalsOK(req[r])'
    BY <2>1, <2>2 DEF LocalsOK, Kept
  <2> QED BY <1>0, <1>9, <2>1, <2>2, <2>3, MoveTyped DEF FindUser
<1>10. ASSUME NEW r \in Requests, AddUser(r) PROVE TypeInv'
  <2>1. /\ req' \in [Requests -> Request] /\ Others(r) /\ Kept(r)
        /\ req[r].pc = "add" /\ req'[r].pc = "join" /\ req'[r].user \in Users
        /\ account' \in [Users -> Emails \union {None}]
        /\ byEmail' \in [Emails -> Users \union {None}]
    BY <1>10, AddGoesOn
  <2>2. LocalsOK(req[r]) /\ RowsStay /\ UNCHANGED invites
    BY <1>10, RowsUnchanged DEF AddUser, TypeInv
  <2>3. LocalsOK(req[r])'
    BY <2>1, <2>2 DEF LocalsOK, Kept
  <2> QED BY <1>0, <1>10, <2>1, <2>2, <2>3, MoveTyped DEF AddUser
<1>11. ASSUME NEW r \in Requests, Join(r) PROVE TypeInv'
  <2>1. PICK o \in Orgs, u \in Users, m \in Member :
          /\ Writes(o, u, m) /\ req' \in [Requests -> Request] /\ Told(r, o, u, m)
          /\ req[r].invite = None => req'[r] = Idle
          /\ req[r].invite # None => req'[r].pc = "accept" /\ req'[r].invite = req[r].invite
          /\ grants' \in [Invites -> Nat]
    BY <1>11, JoinGoesOn
  <2>2. UNCHANGED <<backend, account, byEmail, orgs, invites, late, calls, contested, unfinished>>
    BY <1>11 DEF Join
  <2>3. RowsStay
    BY <2>1, <2>2 DEF Writes, RowsStay, TenancyAssumption
  <2>4. LocalsOK(req[r])'
    <3>1. CASE req[r].invite = None
      BY <2>1, <3>1, IdleOK
    <3>2. CASE req[r].invite # None
      BY <2>1, <2>2, <3>2 DEF LocalsOK, TypeInv
    <3> QED BY <3>1, <3>2
  <2>5. \A p \in Requests : LocalsOK(req[p])'
    BY <2>1, <2>3, <2>4, LocalsKept DEF Told
  <2> QED BY <1>0, <2>1, <2>2, <2>5 DEF Writes, TypeInv, TypeOK, Request, Pcs
<1>12. ASSUME NEW r \in Requests, Update(r) PROVE TypeInv'
  <2>1. PICK o \in Orgs, u \in Users, m \in Member :
          /\ Writes(o, u, m) /\ req' \in [Requests -> Request] /\ Told(r, o, u, m) /\ req'[r] = Idle
    BY SMTT(30), <1>12, UpdateGoesOn
  <2>2. UNCHANGED <<backend, account, byEmail, orgs, invites, late, calls, grants, contested,
                    unfinished>>
    BY <1>12 DEF Update
  <2>3. RowsStay
    BY <2>1, <2>2 DEF Writes, RowsStay, TenancyAssumption
  <2>4. \A p \in Requests : LocalsOK(req[p])'
    BY <2>1, <2>3, IdleOK, LocalsKept DEF Told
  <2> QED BY <1>0, <2>1, <2>2, <2>4 DEF Writes, TypeInv, TypeOK, Request, Pcs
<1>13. ASSUME NEW r \in Requests, SaveStatus(r) PROVE TypeInv'
  <2>1. req[r].org \in Orgs /\ req[r].status \in OrganizationStatus
    BY <1>13 DEF SaveStatus, At, TypeInv, LocalsOK
  <2>2. orgs' \in [Orgs -> OrganizationStatus \union {None}]
    BY <1>0, <1>13, <2>1 DEF SaveStatus, SaveStatusOf
  <2> QED BY <1>0, <1>13, <2>2, RowsUnchanged, EndTyped DEF SaveStatus
<1>14. ASSUME NEW r \in Requests, Abandon(r) PROVE TypeInv'
  <2>1. req[r].pc \in {"find", "add", "join"} => req[r].org \in Orgs
    BY DEF TypeInv, LocalsOK
  <2>2. contested' \subseteq Invites /\ unfinished' \subseteq Orgs
    BY <1>0, <1>14, <2>1 DEF Abandon
  <2> QED BY <1>14, <2>2, RowsUnchanged, EndTyped DEF Abandon
<1>15. ASSUME NEW i \in Invites, Elapse(i) PROVE TypeInv'
  BY <1>15 DEF Elapse, TypeInv, TypeOK, LocalsOK
<1>16. CASE UNCHANGED vars
  BY <1>16 DEF vars, TypeInv, TypeOK, LocalsOK
<1> QED
  BY <1>1, <1>2, <1>3, <1>4, <1>5, <1>6, <1>7, <1>8, <1>9, <1>10, <1>11, <1>12, <1>13, <1>14,
     <1>15, <1>16 DEF Next

LEMMA InitTyped == Init => TypeInv
<1> SUFFICES ASSUME Init PROVE TypeInv
  OBVIOUS
<1> USE TenancyAssumption
<1>1. req \in [Requests -> Request] /\ \A r \in Requests : req[r] = Idle
  BY IdleTyped DEF Init
<1>2. byEmail \in [Emails -> Users \union {None}]
  <2>1. ASSUME NEW e \in Emails PROVE Leads[e] \in Users \union {None}
    <3>1. CASE \E u \in Users : Account[u] = e
      <4>1. (CHOOSE u \in Users : Account[u] = e) \in Users
        BY <3>1
      <4> QED BY <3>1, <4>1 DEF Leads
    <3>2. CASE ~\E u \in Users : Account[u] = e
      BY <3>2 DEF Leads
    <3> QED BY <3>1, <3>2
  <2> QED BY <2>1 DEF Init, Leads
<1>3. orgs \in [Orgs -> OrganizationStatus \union {None}]
  BY DEF Init, OrganizationStatus
<1>4. /\ backend \in {"postgres", "memory"} /\ account \in [Users -> Emails \union {None}]
      /\ member \in [Orgs -> [Users -> Member \union {None}]]
      /\ invites \in [Invites -> Invite \union {None}] /\ late \subseteq Invites
      /\ contested \subseteq Invites /\ unfinished \subseteq Orgs
      /\ calls \in 0..MaxCalls /\ grants \in [Invites -> Nat]
  BY DEF Init, TenancyAssumption
<1>5. TypeOK
  BY <1>1, <1>2, <1>3, <1>4 DEF TypeOK, Request, Pcs
<1> QED BY <1>1, <1>5, IdleTyped DEF TypeInv, LocalsOK, Idle

\* Organizations, members, invitations and requests keep their types.
THEOREM TypeCorrect == Spec => []TypeOK
<1>1. TypeInv => TypeOK
  BY DEF TypeInv
<1> QED BY <1>1, InitTyped, NextTyped, PTL DEF Spec

-----------------------------------------------------------------------------
(* Organizations and their founders *)

Founding(q, o) == q.org = o /\ q.role = Owner /\ q.invite = None /\ q.pc \in {"find", "add", "join"}

\* An organization without members is being founded, and one whose status is
\* about to be changed exists.
FoundInv ==
    /\ \A o \in Orgs : (orgs[o] # None /\ \A u \in Users : member[o][u] = None) =>
         o \in unfinished \/ \E r \in Requests : Founding(req[r], o)
    /\ \A r \in Requests : req[r].pc = "status" => orgs[req[r].org] # None

\* The other requests go on with what they were doing.
Bystanders(r) == \A p \in Requests \ {r} :
    /\ req'[p].pc = req[p].pc /\ req'[p].org = req[p].org /\ req'[p].role = req[p].role
    /\ req'[p].invite = req[p].invite

LEMMA Bystanding ==
    ASSUME NEW r \in Requests,
           Others(r) \/ \E o \in Orgs, u \in Users, m \in Member : Told(r, o, u, m)
    PROVE  Bystanders(r)
BY DEF Others, Told, Bystanders

\* A step of one request: what it founds stays being founded, is finished or
\* is counted as unfinished.
LEMMA FoundMoves ==
    ASSUME TypeInv, FoundInv, NEW r \in Requests, Bystanders(r), RowsStay,
           unfinished \subseteq unfinished',
           \A o \in Orgs : orgs[o] # None => orgs'[o] # None,
           \A o \in Orgs : orgs[o] = None /\ orgs'[o] # None => Founding(req'[r], o),
           \A o \in Orgs : Founding(req[r], o) =>
             \/ Founding(req'[r], o) \/ o \in unfinished'
             \/ \E u \in Users : member'[o][u] # None,
           req'[r].pc = "status" => orgs'[req'[r].org] # None
    PROVE  FoundInv'
<1>1. ASSUME NEW o \in Orgs, orgs'[o] # None, \A u \in Users : member'[o][u] = None
      PROVE  o \in unfinished' \/ \E p \in Requests : Founding(req'[p], o)
  <2>1. CASE orgs[o] = None
    BY <1>1, <2>1
  <2>2. CASE orgs[o] # None
    <3>1. \A u \in Users : member[o][u] = None
      BY <1>1 DEF RowsStay
    <3>2. CASE o \in unfinished
      BY <3>2
    <3>3. ASSUME NEW p \in Requests, Founding(req[p], o), p # r PROVE Founding(req'[p], o)
      BY <3>3 DEF Bystanders, Founding
    <3>4. CASE Founding(req[r], o)
      BY <1>1, <3>4
    <3> QED BY <2>2, <3>1, <3>2, <3>3, <3>4 DEF FoundInv
  <2> QED BY <2>1, <2>2
<1>2. ASSUME NEW p \in Requests, req'[p].pc = "status" PROVE orgs'[req'[p].org] # None
  <2>1. CASE p = r
    BY <1>2, <2>1
  <2>2. CASE p # r
    BY <1>2, <2>2 DEF Bystanders, FoundInv, TypeInv, LocalsOK
  <2> QED BY <2>1, <2>2
<1> QED BY <1>1, <1>2 DEF FoundInv

LEMMA FoundKept == TypeInv /\ FoundInv /\ [Next]_vars => FoundInv'
<1> SUFFICES ASSUME TypeInv, FoundInv, [Next]_vars PROVE FoundInv'
  OBVIOUS
<1> USE TenancyAssumption
\* A request that begins founds nothing yet.
<1>0. ASSUME NEW r \in Requests, Others(r), req[r].pc = "idle",
             req'[r].pc = "status" => orgs[req'[r].org] # None,
             UNCHANGED <<member, orgs, invites, unfinished>>
      PROVE  FoundInv'
  BY <1>0, Bystanding, RowsUnchanged, FoundMoves DEF Founding
<1>1. ASSUME NEW r \in Requests, NEW o \in Orgs, NEW e \in Emails, NEW role \in Roles,
             CreateInvite(r, o, e, role)
      PROVE  FoundInv'
  <2>1. Others(r) /\ req'[r].pc = "invite"
    BY <1>1, InviteBegins
  <2> QED BY <1>0, <1>1, <2>1 DEF CreateInvite, Start, At
<1>2. ASSUME NEW r \in Requests, NEW i \in Invites, Accept(r, i) PROVE FoundInv'
  <2>1. Others(r) /\ req'[r].pc \in {"expire", "find"}
    BY <1>2, AcceptBegins
  <2> QED BY <1>0, <1>2, <2>1 DEF Accept, Start, At
<1>3. ASSUME NEW r \in Requests, NEW i \in Invites, Resend(r, i) \/ Revoke(r, i) PROVE FoundInv'
  <2>1. Others(r) /\ req'[r].pc \in {"resend", "revoke"}
    BY <1>3, ChangeBegins
  <2> QED BY <1>0, <1>3, <2>1 DEF Resend, Revoke, Change, Start, At
<1>4. ASSUME NEW r \in Requests, NEW o \in Orgs, NEW e \in Emails \union {None},
             CreateOrganization(r, o, e)
      PROVE  FoundInv'
  <2>1. Others(r) /\ req'[r].pc = "found"
    BY <1>4, FoundingBegins
  <2>2. req[r].pc = "idle" /\ UNCHANGED <<member, orgs, invites, unfinished>>
    BY <1>4 DEF CreateOrganization, Start, At
  <2> QED BY <1>0, <2>1, <2>2
<1>5. ASSUME NEW r \in Requests, NEW o \in Orgs, NEW u \in Users,
             \E role \in Roles \union {None}, active \in BOOLEAN \union {None} :
               Patch(r, o, u, role, active)
      PROVE  FoundInv'
  <2>1. Others(r) /\ req'[r].pc = "update"
    BY <1>5, PatchBegins
  <2>2. req[r].pc = "idle" /\ UNCHANGED <<member, orgs, invites, unfinished>>
    BY <1>5 DEF Patch, Start, At
  <2> QED BY <1>0, <2>1, <2>2
<1>6. ASSUME NEW r \in Requests, NEW o \in Orgs, NEW status \in OrganizationStatus,
             SetStatus(r, o, status)
      PROVE  FoundInv'
  <2>1. Others(r) /\ req'[r].org = o
    BY <1>6, StatusBegins
  <2>2. /\ req[r].pc = "idle" /\ orgs[o] # None
        /\ UNCHANGED <<member, orgs, invites, unfinished>>
    BY <1>6 DEF SetStatus, Start, At
  <2> QED BY <1>0, <2>1, <2>2
\* A request that is not founding anything ends.
<1>7. ASSUME NEW r \in Requests, SaveInvite(r) \/ SaveResent(r) \/ SaveOutcome(r) PROVE FoundInv'
  <2>1. \E i \in Invites : InviteWritten(i)
    BY <1>7, CreateSaves, ResendSaves, OutcomeSaves
  <2>2. UNCHANGED <<member, orgs, unfinished>> /\ Done(r)
    BY <1>7 DEF SaveInvite, SaveResent, SaveOutcome
  <2>3. Others(r) /\ req'[r].pc = "idle"
    BY <2>2, Ending, IdleTyped DEF TypeInv
  <2>4. req[r].pc \in {"invite", "resend", "accept", "expire", "revoke"}
    BY <1>7 DEF SaveInvite, SaveResent, SaveOutcome, At, Outcome
  <2>5. RowsStay
    BY <2>1, <2>2 DEF InviteWritten, RowsStay
  <2> QED BY <2>2, <2>3, <2>4, <2>5, Bystanding, FoundMoves DEF Founding
<1>8. ASSUME NEW r \in Requests, SaveOrganization(r) PROVE FoundInv'
  <2>1. /\ Others(r) /\ Kept(r)
        /\ req[r].pc = "found" /\ req'[r].pc \in {"join", "find"}
    BY <1>8, FoundGoesOn
  <2>2. LocalsOK(req[r]) /\ RowsStay /\ unfinished' = unfinished
    BY <1>8, RowsUnchanged DEF SaveOrganization, TypeInv
  <2>3. /\ req[r].org \in Orgs /\ orgs \in [Orgs -> OrganizationStatus \union {None}]
        /\ orgs' = [orgs EXCEPT ![req[r].org] = "active"]
    BY <1>8, <2>1, <2>2 DEF SaveOrganization, SaveStatusOf, LocalsOK, TypeInv, TypeOK
  <2>4. Founding(req'[r], req[r].org)
    BY <2>1, <2>2 DEF Founding, Kept, LocalsOK
  <2>5. /\ \A o \in Orgs : orgs[o] = None /\ orgs'[o] # None => o = req[r].org
        /\ \A o \in Orgs : orgs[o] # None => orgs'[o] # None
    BY <2>3 DEF OrganizationStatus
  <2>6. \A o \in Orgs : ~Founding(req[r], o)
    BY <2>1 DEF Founding
  <2>7. req'[r].pc # "status"
    BY <2>1
  <2> QED BY <2>1, <2>2, <2>4, <2>5, <2>6, <2>7, Bystanding, FoundMoves
\* A request that is founding an organization goes on, or has founded it.
<1>9. ASSUME NEW r \in Requests, FindUser(r) \/ AddUser(r) PROVE FoundInv'
  <2>1. /\ Others(r) /\ Kept(r)
        /\ req[r].pc \in {"find", "add"} /\ req'[r].pc \in {"join", "add"}
    BY SMTT(30), <1>9, FindGoesOn, AddGoesOn
  <2>2. UNCHANGED <<member, orgs, invites, unfinished>>
    BY <1>9 DEF FindUser, AddUser
  <2>3. \A o \in Orgs : Founding(req[r], o) => Founding(req'[r], o)
    BY <2>1 DEF Founding, Kept
  <2>4. req'[r].pc # "status"
    BY <2>1
  <2> QED BY <2>1, <2>2, <2>3, <2>4, RowsUnchanged, Bystanding, FoundMoves
<1>10. ASSUME NEW r \in Requests, Join(r) PROVE FoundInv'
  <2>1. PICK o \in Orgs, u \in Users, m \in Member :
          /\ o = req[r].org /\ Writes(o, u, m) /\ Told(r, o, u, m)
          /\ req[r].invite = None => req'[r] = Idle
          /\ req[r].invite # None => req'[r].pc = "accept"
    BY <1>10, JoinGoesOn
  <2>2. UNCHANGED <<orgs, invites, unfinished>>
    BY <1>10 DEF Join
  <2>3. RowsStay /\ member'[o][u] # None
    BY <2>1, <2>2 DEF Writes, RowsStay
  <2>4. \A p \in Orgs : Founding(req[r], p) => \E v \in Users : member'[p][v] # None
    BY <2>1, <2>3 DEF Founding
  <2>5. req'[r].pc # "status"
    BY <2>1, IdleTyped
  <2> QED BY <2>1, <2>2, <2>3, <2>4, <2>5, Bystanding, FoundMoves
<1>11. ASSUME NEW r \in Requests, Update(r) PROVE FoundInv'
  <2>1. PICK o \in Orgs, u \in Users, m \in Member :
          req[r].pc = "update" /\ Writes(o, u, m) /\ Told(r, o, u, m) /\ req'[r] = Idle
    BY SMTT(30), <1>11, UpdateGoesOn
  <2>2. UNCHANGED <<orgs, invites, unfinished>>
    BY <1>11 DEF Update
  <2>3. RowsStay
    BY <2>1, <2>2 DEF Writes, RowsStay
  <2>4. req'[r].pc # "status" /\ \A p \in Orgs : ~Founding(req[r], p)
    BY <2>1, IdleTyped DEF Founding
  <2> QED BY <2>1, <2>2, <2>3, <2>4, Bystanding, FoundMoves
<1>12. ASSUME NEW r \in Requests, SaveStatus(r) PROVE FoundInv'
  <2>1. req[r].pc = "status" /\ Others(r) /\ req'[r].pc = "idle"
    BY <1>12, Ending, IdleTyped DEF SaveStatus, At, TypeInv
  <2>2. UNCHANGED <<member, invites, unfinished>> /\ RowsStay
    BY <1>12, RowsUnchanged DEF SaveStatus
  <2>3. /\ req[r].org \in Orgs /\ req[r].status # None /\ orgs[req[r].org] # None
        /\ orgs \in [Orgs -> OrganizationStatus \union {None}]
        /\ orgs' = [orgs EXCEPT ![req[r].org] = req[r].status]
    BY <1>12, <2>1 DEF SaveStatus, SaveStatusOf, LocalsOK, TypeInv, TypeOK, FoundInv
  <2>4. /\ \A o \in Orgs : ~(orgs[o] = None /\ orgs'[o] # None)
        /\ \A o \in Orgs : orgs[o] # None => orgs'[o] # None
    BY <2>3
  <2>5. \A o \in Orgs : ~Founding(req[r], o)
    BY <2>1 DEF Founding
  <2>6. req'[r].pc # "status"
    BY <2>1
  <2> QED BY <2>1, <2>2, <2>4, <2>5, <2>6, Bystanding, FoundMoves
<1>13. ASSUME NEW r \in Requests, Abandon(r) PROVE FoundInv'
  <2>1. Others(r) /\ req'[r].pc = "idle"
    BY <1>13, Ending, IdleTyped DEF Abandon, TypeInv
  <2>2. UNCHANGED <<member, orgs, invites>> /\ unfinished \subseteq unfinished' /\ RowsStay
    BY <1>13, RowsUnchanged DEF Abandon
  <2>3. \A o \in Orgs : Founding(req[r], o) => o \in unfinished'
    BY <1>13 DEF Abandon, Founding
  <2>4. req'[r].pc # "status"
    BY <2>1
  <2> QED BY <2>1, <2>2, <2>3, <2>4, Bystanding, FoundMoves
<1>14. ASSUME NEW i \in Invites, Elapse(i) PROVE FoundInv'
  BY <1>14 DEF Elapse, FoundInv, Founding
<1>15. CASE UNCHANGED vars
  BY <1>15 DEF vars, FoundInv, Founding
<1> QED
  BY <1>1, <1>2, <1>3, <1>4, <1>5, <1>6, <1>7, <1>8, <1>9, <1>10, <1>11, <1>12, <1>13, <1>14,
     <1>15 DEF Next

\* An organization without members is being founded, or the request that
\* founded it died.
THEOREM FoundersCorrect == Spec => []FoundersBelong
<1> USE TenancyAssumption
<1>1. Init => FoundInv
  BY IdleTyped DEF Init, FoundInv
<1>2. FoundInv => FoundersBelong
  BY DEF FoundInv, FoundersBelong, Founding
<1> QED BY <1>1, <1>2, InitTyped, FoundKept, NextTyped, PTL DEF Spec
-----------------------------------------------------------------------------
(* Owners *)

\* Until an owner goes, a request that takes an owner away leaves another one.
Demotes(q) == q.role \notin {None, Owner} \/ q.active = FALSE
Guarded(q) == (q.pc = "update" /\ ~q.stale /\ Demotes(q)) =>
    (ActiveOwners(q.org) = {} \/ \E v \in Users \ {q.user} : Owns(q.org, v))
GuardInv == \A r \in Requests : Guarded(req[r])

\* A request that goes on as it was, its organization having the members it had.
LEMMA GuardStays ==
    ASSUME NEW p \in Requests, Guarded(req[p]), req'[p].pc = req[p].pc,
           req'[p].org = req[p].org, req'[p].user = req[p].user, req'[p].role = req[p].role,
           req'[p].active = req[p].active, req'[p].stale = req[p].stale,
           req[p].pc = "update" => member'[req[p].org] = member[req[p].org]
    PROVE  Guarded(req[p])'
<1>1. CASE req[p].pc = "update"
  <2>1. \A v \in Users : Owns(req[p].org, v)' <=> Owns(req[p].org, v)
    BY <1>1 DEF Owns
  <2> QED BY <2>1 DEF Guarded, Demotes, ActiveOwners
<1>2. CASE req[p].pc # "update"
  BY <1>2 DEF Guarded
<1> QED BY <1>1, <1>2

\* A step of one request that leaves the members alone.
LEMMA GuardMoves ==
    ASSUME GuardInv, NEW r \in Requests, Others(r), UNCHANGED member, Guarded(req[r])'
    PROVE  GuardInv'
<1> SUFFICES ASSUME NEW p \in Requests PROVE Guarded(req[p])'
  BY DEF GuardInv
<1>1. CASE p = r
  BY <1>1
<1>2. CASE p # r
  <2>1. req'[p] = req[p] /\ Guarded(req[p])
    BY <1>2 DEF Others, GuardInv
  <2> QED BY <2>1, GuardStays
<1> QED BY <1>1, <1>2

\* A step of one request that changes a member.
LEMMA GuardTold ==
    ASSUME TypeInv, GuardInv, NEW r \in Requests, NEW o \in Orgs, NEW u \in Users, NEW m \in Member,
           Told(r, o, u, m), Writes(o, u, m), req'[r].pc # "update"
    PROVE  GuardInv'
<1> SUFFICES ASSUME NEW p \in Requests PROVE Guarded(req[p])'
  BY DEF GuardInv
<1>1. CASE p = r
  BY <1>1 DEF Guarded
<1>2. CASE p # r /\ req[p].pc = "update" /\ req[p].org = o
  <2>1. /\ req'[p].pc = req[p].pc /\ req'[p].org = o /\ req'[p].user = req[p].user
        /\ req'[p].role = req[p].role /\ req'[p].active = req[p].active
        /\ Unseen(o, u, m) => req'[p].stale
        /\ ~Unseen(o, u, m) => req'[p].stale = req[p].stale
    BY <1>2 DEF Told
  <2>2. CASE Unseen(o, u, m)
    BY <2>1, <2>2 DEF Guarded
  <2>3. CASE ~Unseen(o, u, m)
    <3>1. /\ \A v \in Users : v # u => (Owns(o, v)' <=> Owns(o, v))
          /\ Owns(o, u)' <=> m.role = Owner /\ m.active
      BY TenancyAssumption DEF Writes, Owns
    <3>2. SUFFICES ASSUME ~req[p].stale, Demotes(req[p]), Guarded(req[p])
                   PROVE  \/ ActiveOwners(o)' = {}
                          \/ \E v \in Users \ {req[p].user} : Owns(o, v)'
      BY <2>1, <2>3 DEF Guarded, Demotes, GuardInv
    <3>3. CASE ActiveOwners(o) = {}
      BY <2>3, <3>1, <3>3 DEF Unseen, ActiveOwners
    <3>4. CASE \E v \in Users \ {req[p].user} : Owns(o, v)
      BY <2>3, <3>1, <3>4 DEF Unseen
    <3> QED BY <1>2, <3>2, <3>3, <3>4 DEF Guarded
  <2> QED BY <2>2, <2>3
<1>3. CASE p # r /\ ~(req[p].pc = "update" /\ req[p].org = o)
  <2>1. /\ req'[p].pc = req[p].pc /\ req'[p].org = req[p].org /\ req'[p].user = req[p].user
        /\ req'[p].role = req[p].role /\ req'[p].active = req[p].active
        /\ req'[p].stale = req[p].stale
    BY <1>3 DEF Told
  <2>2. ASSUME req[p].pc = "update" PROVE member'[req[p].org] = member[req[p].org]
    <3>1. req[p].org \in Orgs /\ req[p].org # o
      BY <1>3, <2>2 DEF TypeInv, LocalsOK
    <3>2. PICK k \in Orgs : k = req[p].org
      BY <3>1
    <3>3. /\ member[k] \in [Users -> Member \union {None}]
          /\ member'[k] \in [Users -> Member \union {None}]
          /\ \A v \in Users : member'[k][v] = member[k][v]
      BY <3>1, <3>2 DEF Writes, TypeInv, TypeOK
    <3> HIDE DEF Member
    <3>4. member'[k] = member[k]
      BY <3>3
    <3> QED BY <3>2, <3>4
  <2>3. Guarded(req[p])
    BY DEF GuardInv
  <2> QED BY <2>1, <2>2, <2>3, GuardStays
<1> QED BY <1>1, <1>2, <1>3

LEMMA GuardKept == TypeInv /\ GuardInv /\ [Next]_vars => GuardInv'
<1> SUFFICES ASSUME TypeInv, GuardInv, [Next]_vars PROVE GuardInv'
  OBVIOUS
<1> USE TenancyAssumption
<1>0. TypeOK
  BY DEF TypeInv
\* Steps that leave the members alone and do not pass the guard.
<1>1. ASSUME NEW r \in Requests, Others(r), UNCHANGED member, req'[r].pc # "update"
      PROVE  GuardInv'
  <2>1. Guarded(req[r])'
    BY <1>1 DEF Guarded
  <2> QED BY <1>1, <2>1, GuardMoves
<1>2. ASSUME NEW r \in Requests, NEW o \in Orgs, NEW e \in Emails, NEW role \in Roles,
             CreateInvite(r, o, e, role)
      PROVE  GuardInv'
  <2>1. Others(r) /\ req'[r].pc # "update"
    BY <1>2, InviteBegins
  <2> QED BY <1>1, <1>2, <2>1 DEF CreateInvite
<1>3. ASSUME NEW r \in Requests, NEW i \in Invites, Accept(r, i) PROVE GuardInv'
  <2>1. Others(r) /\ req'[r].pc # "update"
    BY <1>3, AcceptBegins
  <2> QED BY <1>1, <1>3, <2>1 DEF Accept
<1>4. ASSUME NEW r \in Requests, NEW i \in Invites, Resend(r, i) \/ Revoke(r, i) PROVE GuardInv'
  <2>1. Others(r) /\ req'[r].pc # "update"
    BY <1>4, ChangeBegins
  <2> QED BY <1>1, <1>4, <2>1 DEF Resend, Revoke, Change
<1>5. ASSUME NEW r \in Requests, NEW o \in Orgs, NEW e \in Emails \union {None},
             CreateOrganization(r, o, e)
      PROVE  GuardInv'
  <2>1. Others(r) /\ req'[r].pc # "update"
    BY <1>5, FoundingBegins
  <2>2. UNCHANGED member
    BY <1>5 DEF CreateOrganization
  <2> QED BY <1>1, <2>1, <2>2
<1>6. ASSUME NEW r \in Requests, NEW o \in Orgs, NEW u \in Users,
             \E role \in Roles \union {None}, active \in BOOLEAN \union {None} :
               Patch(r, o, u, role, active)
      PROVE  GuardInv'
  <2>1. /\ Others(r) /\ req'[r].org = o /\ req'[r].user = u
        /\ OwnerGuard(o, u, req'[r].role, req'[r].active)
    BY <1>6, PatchBegins
  <2>2. UNCHANGED member
    BY <1>6 DEF Patch
  <2>3. ASSUME Demotes(req'[r]), ActiveOwners(o) # {}
        PROVE  \E v \in Users \ {u} : Owns(o, v)
    <3>1. SUFFICES ASSUME ActiveOwners(o) \subseteq {u} PROVE FALSE
      BY DEF ActiveOwners
    <3>2. ActiveOwners(o) = {u}
      BY <2>3, <3>1
    <3>3. Owns(o, u) /\ Cardinality(ActiveOwners(o)) = 1
      BY <3>2, FS_Singleton DEF ActiveOwners
    <3> QED BY <2>1, <2>3, <3>3 DEF OwnerGuard, Demotes, Owns
  <2>4. Guarded(req[r])'
    <3>1. \A v \in Users : Owns(o, v)' <=> Owns(o, v)
      BY <2>2 DEF Owns
    <3> QED BY <2>1, <2>3, <3>1 DEF Guarded, Demotes, ActiveOwners
  <2> QED BY <2>1, <2>2, <2>4, GuardMoves
<1>7. ASSUME NEW r \in Requests, NEW o \in Orgs, NEW status \in OrganizationStatus,
             SetStatus(r, o, status)
      PROVE  GuardInv'
  <2>1. Others(r) /\ req'[r].pc # "update"
    BY <1>7, StatusBegins
  <2> QED BY <1>1, <1>7, <2>1 DEF SetStatus
<1>8. ASSUME NEW r \in Requests,
             SaveInvite(r) \/ SaveResent(r) \/ SaveOutcome(r) \/ SaveStatus(r) \/ Abandon(r)
      PROVE  GuardInv'
  <2>1. Done(r) /\ UNCHANGED member
    BY <1>8 DEF SaveInvite, SaveResent, SaveOutcome, SaveStatus, Abandon
  <2>2. Others(r) /\ req'[r].pc # "update"
    BY SMTT(30), <1>0, <2>1, Ending, IdleTyped
  <2> QED BY <1>1, <2>1, <2>2
<1>9. ASSUME NEW r \in Requests, SaveOrganization(r) \/ FindUser(r) \/ AddUser(r) PROVE GuardInv'
  <2>1. Others(r) /\ req'[r].pc # "update"
    BY <1>9, FoundGoesOn, FindGoesOn, AddGoesOn
  <2> QED BY <1>1, <1>9, <2>1 DEF SaveOrganization, FindUser, AddUser
<1>10. ASSUME NEW r \in Requests, Join(r) PROVE GuardInv'
  <2>1. PICK o \in Orgs, u \in Users, m \in Member :
          /\ Writes(o, u, m) /\ Told(r, o, u, m)
          /\ req[r].invite = None => req'[r] = Idle
          /\ req[r].invite # None => req'[r].pc = "accept"
    BY <1>10, JoinGoesOn
  <2>2. req'[r].pc # "update"
    BY <2>1, IdleTyped
  <2> QED BY <2>1, <2>2, GuardTold
<1>11. ASSUME NEW r \in Requests, Update(r) PROVE GuardInv'
  <2>1. PICK o \in Orgs, u \in Users, m \in Member :
          Writes(o, u, m) /\ Told(r, o, u, m) /\ req'[r] = Idle
    BY <1>11, UpdateGoesOn
  <2>2. req'[r].pc # "update"
    BY <2>1, IdleTyped
  <2> QED BY <2>1, <2>2, GuardTold
<1>12. CASE UNCHANGED <<member, req>>
  BY <1>12, GuardStays DEF GuardInv
<1>13. ASSUME NEW i \in Invites, Elapse(i) PROVE GuardInv'
  BY <1>12, <1>13 DEF Elapse
<1>14. CASE UNCHANGED vars
  BY <1>12, <1>14 DEF vars
<1> QED
  BY <1>2, <1>3, <1>4, <1>5, <1>6, <1>7, <1>8, <1>9, <1>10, <1>11, <1>13, <1>14 DEF Next

Leaves(o) ==
    (ActiveOwners(o) # {} /\ ActiveOwners(o)' = {}) =>
      \E r \in Requests :
        /\ req[r].org = o
        /\ \/ At(r, "update") /\ req[r].stale
           \/ /\ At(r, "join") /\ req[r].invite # None /\ req[r].role # Owner
              /\ ActiveOwners(o) = {req[r].user}

\* Writing one membership takes at most that member from the owners.
LEMMA OneOwnerLeaves ==
    ASSUME TypeInv, NEW o \in Orgs, NEW u \in Users, NEW m \in Member, Writes(o, u, m)
    PROVE  /\ \A p \in Orgs \ {o} : ActiveOwners(p)' = ActiveOwners(p)
           /\ \A v \in ActiveOwners(o) : v = u \/ v \in ActiveOwners(o)'
           /\ (m.role = Owner /\ m.active) => u \in ActiveOwners(o)'
<1>1. ASSUME NEW p \in Orgs, p # o PROVE ActiveOwners(p)' = ActiveOwners(p)
  BY <1>1 DEF Writes, ActiveOwners, Owns
<1>2. ASSUME NEW v \in ActiveOwners(o), v # u PROVE v \in ActiveOwners(o)'
  BY <1>2 DEF Writes, ActiveOwners, Owns
<1>3. ASSUME m.role = Owner, m.active PROVE u \in ActiveOwners(o)'
  BY <1>3, TenancyAssumption DEF Writes, ActiveOwners, Owns
<1> QED BY <1>1, <1>2, <1>3

LEMMA OwnersLeave ==
    ASSUME TypeInv, GuardInv, [Next]_vars, NEW p \in Orgs
    PROVE  Leaves(p)
<1> SUFFICES ASSUME ActiveOwners(p) # {}, ActiveOwners(p)' = {}
             PROVE  \E r \in Requests :
                      /\ req[r].org = p
                      /\ \/ At(r, "update") /\ req[r].stale
                         \/ /\ At(r, "join") /\ req[r].invite # None /\ req[r].role # Owner
                            /\ ActiveOwners(p) = {req[r].user}
  BY DEF Leaves
<1> USE TenancyAssumption
<1>1. member' # member
  BY DEF ActiveOwners, Owns
<1>2. CASE \E r \in Requests : Join(r)
  <2>1. PICK r \in Requests : Join(r)
    BY <1>2
  <2>2. PICK o \in Orgs, u \in Users, m \in Member :
          /\ req[r].pc = "join" /\ o = req[r].org /\ u = req[r].user
          /\ m = [role |-> req[r].role, active |-> TRUE] /\ Writes(o, u, m)
    BY <2>1, JoinGoesOn
  <2>3. p = o
    BY <2>2, OneOwnerLeaves
  <2>4. ActiveOwners(p) = {u}
    BY <2>2, <2>3, OneOwnerLeaves
  <2>5. req[r].invite # None /\ req[r].role # Owner
    <3>1. req[r].role # Owner
      BY SMTT(30), <2>2, <2>3, OneOwnerLeaves
    <3> QED BY <2>2, <3>1 DEF TypeInv, LocalsOK
  <2> QED BY <2>2, <2>3, <2>4, <2>5 DEF At
<1>3. CASE \E r \in Requests : Update(r)
  <2>1. PICK r \in Requests : Update(r)
    BY <1>3
  <2>2. PICK o \in Orgs, u \in Users, m \in Member :
          /\ req[r].pc = "update" /\ o = req[r].org /\ u = req[r].user /\ req[r] \in Request
          /\ member[o][u] \in Member
          /\ m = [role |-> Given(req[r].role, member[o][u].role),
                  active |-> Given(req[r].active, member[o][u].active)]
          /\ Writes(o, u, m)
    BY SMTT(30), <2>1, UpdateGoesOn
  <2>3. p = o
    BY SMTT(30), <2>2, OneOwnerLeaves
  <2>4. ActiveOwners(p) = {u}
    BY SMTT(30), <2>2, <2>3, OneOwnerLeaves
  <2>5. req[r].stale
    <3>1. SUFFICES ASSUME ~req[r].stale PROVE FALSE
      BY SMTT(30)
    <3>2. ~Demotes(req[r])
      BY <2>2, <2>3, <2>4, <3>1 DEF GuardInv, Guarded, ActiveOwners
    <3>4. member[o][u].role = Owner /\ member[o][u].active
      BY <2>3, <2>4 DEF ActiveOwners, Owns
    <3>5. req[r].role \in {None, Owner} /\ ~(req[r].active = FALSE)
      BY <3>2 DEF Demotes
    <3>6. m.role = Owner
      BY <2>2, <3>4, <3>5 DEF Given
    <3>7. m.active
      <4>1. m.active = Given(req[r].active, member[o][u].active)
        BY SMTT(30), <2>2
      <4>2. req[r].active \in BOOLEAN \union {None}
        BY <2>2 DEF Request
      <4>3. CASE req[r].active = None
        BY <3>4, <4>1, <4>3 DEF Given
      <4>4. CASE req[r].active # None
        <5>1. req[r].active = TRUE
          BY SMTT(30), <3>5, <4>2, <4>4
        <5> QED BY <4>1, <4>4, <5>1 DEF Given
      <4> QED BY SMTT(30), <4>3, <4>4
    <3> QED BY ZenonT(60), <2>2, <2>3, <3>6, <3>7, OneOwnerLeaves
  <2> QED BY <2>2, <2>3, <2>5 DEF At
<1>4. CASE ~(\E r \in Requests : Join(r) \/ Update(r))
  BY ZenonT(60), <1>1, <1>4 DEF Next, vars, CreateInvite, Accept, Resend, Revoke, Change,
     CreateOrganization, Patch, SetStatus, SaveInvite, SaveResent, SaveOutcome, SaveOrganization,
     FindUser, AddUser, SaveStatus, Abandon, Elapse
<1> QED BY <1>2, <1>3, <1>4

\* The last active owner of an organization goes only by a change whose guard
\* was passed before another owner went (or there was one), or by an invitation
\* to a lower role that he accepts.
THEOREM OwnersCorrect == Spec => LastOwnerLeaves
<1>1. Init => GuardInv
  BY IdleTyped DEF Init, GuardInv, Guarded
<1>2. TypeInv /\ GuardInv /\ [Next]_vars =>
        [\A o \in Orgs : (ActiveOwners(o) # {} /\ ActiveOwners(o)' = {}) =>
           \E r \in Requests :
              /\ req[r].org = o
              /\ \/ At(r, "update") /\ req[r].stale
                 \/ /\ At(r, "join") /\ req[r].invite # None /\ req[r].role # Owner
                    /\ ActiveOwners(o) = {req[r].user}]_vars
  BY OwnersLeave DEF Leaves
<1> QED BY <1>1, <1>2, InitTyped, GuardKept, NextTyped, TenancyAssumption, PTL
        DEF Spec, LastOwnerLeaves
-----------------------------------------------------------------------------
(* Invitations *)

Holds(q, i) == q.pc \in Deciding /\ q.invite = i
Accepted(i) == invites[i] # None /\ invites[i].status = "accepted"

\* An invitation has one holder, who has read it as pending and has not given
\* a membership until he is about to save that.  Without a holder, it has
\* given one exactly if that was saved.
AdmitOne(i) ==
    /\ grants[i] <= 1
    /\ \A p, q \in Requests : Holds(req[p], i) /\ Holds(req[q], i) => p = q
    /\ \A p \in Requests : Holds(req[p], i) =>
         ~Accepted(i) /\ (grants[i] = 1 <=> req[p].pc = "accept")
    /\ (\A p \in Requests : ~Holds(req[p], i)) => (grants[i] = 1 <=> Accepted(i))
AdmitInv == \A i \in Invites \ contested : AdmitOne(i)

\* A step of one request that does not touch this invitation.
LEMMA AdmitAside ==
    ASSUME NEW r \in Requests, NEW i \in Invites, AdmitOne(i), Bystanders(r),
           grants'[i] = grants[i], Accepted(i)' = Accepted(i),
           Holds(req'[r], i) <=> Holds(req[r], i),
           Holds(req[r], i) => (req'[r].pc = "accept" <=> req[r].pc = "accept")
    PROVE  AdmitOne(i)'
<1>1. \A p \in Requests : /\ Holds(req'[p], i) <=> Holds(req[p], i)
                          /\ Holds(req[p], i) => (req'[p].pc = "accept" <=> req[p].pc = "accept")
  BY DEF Bystanders, Holds
<1> QED BY <1>1 DEF AdmitOne

\* A step of one request that touches no invitation.
LEMMA AdmitMoves ==
    ASSUME AdmitInv, NEW r \in Requests, Bystanders(r), contested \subseteq contested',
           UNCHANGED <<grants, invites>>,
           req[r].pc \in Deciding => req'[r].pc \in Deciding /\ req'[r].invite = req[r].invite,
           req'[r].pc \in Deciding => req'[r].invite \notin Invites \/
             (req[r].pc \in Deciding /\ req'[r].invite = req[r].invite),
           req'[r].pc = "accept" <=> req[r].pc = "accept"
    PROVE  AdmitInv'
<1> SUFFICES ASSUME NEW i \in Invites, i \notin contested' PROVE AdmitOne(i)'
  BY DEF AdmitInv
<1>1. AdmitOne(i)
  BY DEF AdmitInv
<1>2. Accepted(i)' = Accepted(i)
  BY DEF Accepted
<1> QED BY <1>1, <1>2, AdmitAside DEF Holds

LEMMA AdmitKept == TypeInv /\ AdmitInv /\ [Next]_vars => AdmitInv'
<1> SUFFICES ASSUME TypeInv, AdmitInv, [Next]_vars PROVE AdmitInv'
  OBVIOUS
<1> USE TenancyAssumption
<1>0. TypeOK
  BY DEF TypeInv
<1>1. ASSUME NEW r \in Requests, NEW o \in Orgs, NEW e \in Emails, NEW role \in Roles,
             CreateInvite(r, o, e, role)
      PROVE  AdmitInv'
  <2>1. Bystanders(r) /\ req'[r].pc = "invite"
    BY <1>1, InviteBegins, Bystanding
  <2> QED BY <1>1, <2>1, AdmitMoves DEF CreateInvite, Start, At, Deciding
\* Whoever takes a pending invitation is alone with it, or contests it.
<1>2. ASSUME NEW r \in Requests, NEW i \in Invites, Others(r), Contest(i),
             req[r].pc = "idle", req'[r].invite = i, req'[r].pc \in Deciding \ {"accept"},
             invites[i] # None, invites[i].status = "pending", UNCHANGED <<grants, invites>>
      PROVE  AdmitInv'
  <2> SUFFICES ASSUME NEW j \in Invites, j \notin contested' PROVE AdmitOne(j)'
    BY DEF AdmitInv
  <2>1. AdmitOne(j) /\ Bystanders(r)
    BY <1>2, Bystanding DEF AdmitInv, Contest
  <2>2. Accepted(j)' = Accepted(j) /\ grants'[j] = grants[j]
    BY <1>2 DEF Accepted
  <2>3. ~Holds(req[r], j)
    BY <1>2 DEF Holds, Deciding
  <2>4. CASE j # i
    <3>1. ~Holds(req'[r], j)
      BY <1>2, <2>4 DEF Holds
    <3> QED BY <2>1, <2>2, <2>3, <3>1, AdmitAside
  <2>5. CASE j = i
    <3>1. \A p \in Requests : ~Holds(req[p], j)
      BY <1>2, <2>5 DEF Contest, Holding, Holds
    <3>2. \A p \in Requests : Holds(req'[p], j) <=> p = r
      BY <1>2, <2>1, <2>5, <3>1 DEF Bystanders, Holds
    <3>3. ~Accepted(j)
      BY <1>2, <2>5 DEF Accepted
    <3>4. grants[j] # 1
      BY <2>1, <3>1, <3>3 DEF AdmitOne
    <3> QED BY <1>2, <2>1, <2>2, <3>2, <3>3, <3>4 DEF AdmitOne
  <2> QED BY <2>4, <2>5
<1>3. ASSUME NEW r \in Requests, NEW i \in Invites, Accept(r, i) PROVE AdmitInv'
  <2>1. /\ Others(r) /\ req'[r].invite = i /\ req'[r].pc \in {"expire", "find"}
        /\ invites[i] # None /\ invites[i].status = "pending"
    BY <1>3, AcceptBegins
  <2>2. req[r].pc = "idle" /\ Contest(i) /\ UNCHANGED <<grants, invites>>
    BY <1>3 DEF Accept, Start, At
  <2> QED BY <1>2, <2>1, <2>2 DEF Deciding
<1>4. ASSUME NEW r \in Requests, NEW i \in Invites, Resend(r, i) \/ Revoke(r, i) PROVE AdmitInv'
  <2>1. /\ Others(r) /\ req'[r].invite = i /\ req'[r].pc \in {"resend", "revoke"}
    BY <1>4, ChangeBegins
  <2>2. invites[i] # None /\ invites[i].status = "pending"
    BY <1>4, ChangeBegins
  <2>3. req'[r].pc = "revoke" <=> Revoke(r, i)
    BY <1>4, ChangeBegins
  <2>4. req[r].pc = "idle" /\ UNCHANGED <<grants, invites>>
    BY <1>4 DEF Resend, Revoke, Change, Start, At
  <2>5. CASE Revoke(r, i)
    BY <1>2, <2>1, <2>2, <2>3, <2>4, <2>5 DEF Revoke, Deciding
  <2>6. CASE ~Revoke(r, i)
    <3>1. req'[r].pc = "resend" /\ contested' = contested
      BY <1>4, <2>1, <2>3, <2>6 DEF Resend
    <3> QED BY <2>1, <2>4, <3>1, Bystanding, AdmitMoves DEF Deciding
  <2> QED BY <2>5, <2>6
<1>5. ASSUME NEW r \in Requests, NEW o \in Orgs, NEW e \in Emails \union {None},
             CreateOrganization(r, o, e)
      PROVE  AdmitInv'
  <2>1. Bystanders(r) /\ req'[r].pc = "found"
    BY <1>5, FoundingBegins, Bystanding
  <2>2. req[r].pc = "idle" /\ UNCHANGED <<grants, invites, contested>>
    BY <1>5 DEF CreateOrganization, Start, At
  <2> QED BY <2>1, <2>2, AdmitMoves DEF Deciding
<1>6. ASSUME NEW r \in Requests, NEW o \in Orgs, NEW u \in Users,
             \E role \in Roles \union {None}, active \in BOOLEAN \union {None} :
               Patch(r, o, u, role, active)
      PROVE  AdmitInv'
  <2>1. Bystanders(r) /\ req'[r].pc = "update"
    BY <1>6, PatchBegins, Bystanding
  <2>2. req[r].pc = "idle" /\ UNCHANGED <<grants, invites, contested>>
    BY <1>6 DEF Patch, Start, At
  <2> QED BY <2>1, <2>2, AdmitMoves DEF Deciding
<1>7. ASSUME NEW r \in Requests, NEW o \in Orgs, NEW status \in OrganizationStatus,
             SetStatus(r, o, status)
      PROVE  AdmitInv'
  <2>1. Bystanders(r) /\ req'[r].pc = "status"
    BY <1>7, StatusBegins, Bystanding
  <2> QED BY <1>7, <2>1, AdmitMoves DEF Deciding, SetStatus, Start, At
<1>8. ASSUME NEW r \in Requests, SaveInvite(r) PROVE AdmitInv'
  <2>1. PICK k \in Invites : invites[k] = None /\ InviteWritten(k) /\ invites'[k].status = "pending"
    BY <1>8, CreateSaves
  <2>2. Done(r) /\ UNCHANGED <<grants, contested>> /\ req[r].pc = "invite"
    BY <1>8 DEF SaveInvite, At
  <2>3. Others(r) /\ req'[r].pc = "idle"
    BY <1>0, <2>2, Ending, IdleTyped
  <2> SUFFICES ASSUME NEW i \in Invites, i \notin contested' PROVE AdmitOne(i)'
    BY DEF AdmitInv
  <2>4. AdmitOne(i) /\ Bystanders(r)
    BY <2>2, <2>3, Bystanding DEF AdmitInv
  <2>5. Accepted(i)' = Accepted(i)
    BY <2>1 DEF Accepted, InviteWritten
  <2> QED BY <2>2, <2>3, <2>4, <2>5, AdmitAside DEF Holds, Deciding
<1>9. ASSUME NEW r \in Requests, SaveResent(r) PROVE AdmitInv'
  <2>1. PICK k \in Invites : /\ req[r].pc = "resend" /\ InviteWritten(k) /\ invites[k] # None
                             /\ invites'[k].status = invites[k].status
    BY <1>9, ResendSaves
  <2>2. Done(r) /\ UNCHANGED <<grants, contested>>
    BY <1>9 DEF SaveResent
  <2>3. Others(r) /\ req'[r].pc = "idle"
    BY <1>0, <2>2, Ending, IdleTyped
  <2> SUFFICES ASSUME NEW i \in Invites, i \notin contested' PROVE AdmitOne(i)'
    BY DEF AdmitInv
  <2>4. AdmitOne(i) /\ Bystanders(r)
    BY <2>2, <2>3, Bystanding DEF AdmitInv
  <2>5. Accepted(i)' = Accepted(i)
    BY <2>1 DEF Accepted, InviteWritten
  <2> QED BY <2>1, <2>2, <2>3, <2>4, <2>5, AdmitAside DEF Holds, Deciding
<1>10. ASSUME NEW r \in Requests, SaveOutcome(r) PROVE AdmitInv'
  <2>1. PICK k \in Invites :
          /\ k = req[r].invite /\ req[r].pc \in {"accept", "expire", "revoke"} /\ InviteWritten(k)
          /\ invites'[k].status = "accepted" <=> req[r].pc = "accept"
    BY <1>10, OutcomeSaves
  <2>2. Done(r) /\ UNCHANGED <<grants, contested>>
    BY <1>10 DEF SaveOutcome
  <2>3. Others(r) /\ req'[r].pc = "idle"
    BY <1>0, <2>2, Ending, IdleTyped
  <2> SUFFICES ASSUME NEW i \in Invites, i \notin contested' PROVE AdmitOne(i)'
    BY DEF AdmitInv
  <2>4. AdmitOne(i) /\ Bystanders(r) /\ ~Holds(req'[r], i) /\ grants'[i] = grants[i]
    BY <2>2, <2>3, Bystanding DEF AdmitInv, Holds, Deciding
  <2>5. CASE i # k
    <3>1. Accepted(i)' = Accepted(i)
      BY <2>1, <2>5 DEF Accepted, InviteWritten
    <3>2. ~Holds(req[r], i)
      BY <2>1, <2>5 DEF Holds
    <3> QED BY <2>4, <3>1, <3>2, AdmitAside
  <2>6. CASE i = k
    <3>1. Holds(req[r], i)
      BY <2>1, <2>6 DEF Holds, Deciding
    <3>2. grants[i] = 1 <=> req[r].pc = "accept"
      BY <2>4, <3>1 DEF AdmitOne
    <3>3. \A p \in Requests : ~Holds(req'[p], i)
      BY <2>4, <3>1 DEF AdmitOne, Bystanders, Holds
    <3>4. Accepted(i)' <=> req[r].pc = "accept"
      BY <2>1, <2>6 DEF Accepted, InviteWritten
    <3> QED BY <2>4, <3>2, <3>3, <3>4 DEF AdmitOne
  <2> QED BY <2>5, <2>6
<1>11. ASSUME NEW r \in Requests, SaveOrganization(r) PROVE AdmitInv'
  <2>1. /\ Bystanders(r) /\ Kept(r) /\ req[r].pc = "found" /\ req'[r].pc \in {"join", "find"}
    BY <1>11, FoundGoesOn, Bystanding
  <2>2. req'[r].invite = None
    BY <2>1 DEF TypeInv, LocalsOK, Kept
  <2>3. UNCHANGED <<grants, invites, contested>>
    BY <1>11 DEF SaveOrganization
  <2> QED BY <2>1, <2>2, <2>3, AdmitMoves DEF Deciding
<1>12. ASSUME NEW r \in Requests, FindUser(r) \/ AddUser(r) PROVE AdmitInv'
  <2>1. /\ Bystanders(r) /\ Kept(r)
        /\ req[r].pc \in {"find", "add"} /\ req'[r].pc \in {"join", "add"}
    BY SMTT(30), <1>12, FindGoesOn, AddGoesOn, Bystanding
  <2>2. UNCHANGED <<grants, invites, contested>>
    BY <1>12 DEF FindUser, AddUser
  <2> QED BY <2>1, <2>2, AdmitMoves DEF Deciding, Kept
<1>13. ASSUME NEW r \in Requests, Join(r) PROVE AdmitInv'
  <2>1. PICK o \in Orgs, u \in Users, m \in Member :
          /\ req[r].pc = "join" /\ Told(r, o, u, m)
          /\ req[r].invite = None => req'[r] = Idle
          /\ req[r].invite # None => req'[r].pc = "accept" /\ req'[r].invite = req[r].invite
          /\ \A j \in Invites :
               grants'[j] = IF j = req[r].invite THEN grants[j] + 1 ELSE grants[j]
    BY <1>13, JoinGoesOn
  <2>2. UNCHANGED <<invites, contested>>
    BY <1>13 DEF Join
  <2> SUFFICES ASSUME NEW i \in Invites, i \notin contested' PROVE AdmitOne(i)'
    BY DEF AdmitInv
  <2>3. AdmitOne(i) /\ Bystanders(r) /\ Accepted(i)' = Accepted(i) /\ i # None
    BY <2>1, <2>2, Bystanding DEF AdmitInv, Accepted
  <2>4. CASE i # req[r].invite
    <3>1. ~Holds(req[r], i) /\ grants'[i] = grants[i]
      BY <2>1, <2>4 DEF Holds
    <3>2. ~Holds(req'[r], i)
      BY <2>1, <2>3, <2>4, IdleTyped DEF Holds
    <3> QED BY <2>3, <3>1, <3>2, AdmitAside
  <2>5. CASE i = req[r].invite
    <3>1. /\ Holds(req[r], i) /\ Holds(req'[r], i) /\ req'[r].pc = "accept"
          /\ grants'[i] = grants[i] + 1
      BY <2>1, <2>3, <2>5 DEF Holds, Deciding
    <3>2. grants[i] = 0
      <4>1. grants[i] \in Nat /\ grants[i] <= 1
        BY <1>0, <2>3 DEF TypeOK, AdmitOne
      <4>2. grants[i] # 1
        BY <2>1, <2>3, <3>1 DEF AdmitOne
      <4> QED BY SMTT(30), <4>1, <4>2
    <3>3. \A p \in Requests : Holds(req'[p], i) => p = r
      BY <2>3, <3>1 DEF AdmitOne, Bystanders, Holds
    <3>4. ~Accepted(i)'
      BY <2>3, <3>1 DEF AdmitOne
    <3> QED BY <3>1, <3>2, <3>3, <3>4 DEF AdmitOne
  <2> QED BY <2>4, <2>5
<1>14. ASSUME NEW r \in Requests, Update(r) PROVE AdmitInv'
  <2>1. /\ Bystanders(r) /\ req[r].pc = "update" /\ req'[r].pc = "idle"
    BY <1>14, UpdateGoesOn, IdleTyped, Bystanding
  <2>2. UNCHANGED <<grants, invites, contested>>
    BY <1>14 DEF Update
  <2> QED BY <2>1, <2>2, AdmitMoves DEF Deciding
<1>15. ASSUME NEW r \in Requests, SaveStatus(r) PROVE AdmitInv'
  <2>1. req[r].pc = "status" /\ Bystanders(r) /\ req'[r].pc = "idle"
    BY <1>0, <1>15, Ending, IdleTyped, Bystanding DEF SaveStatus, At
  <2> QED BY <1>15, <2>1, AdmitMoves DEF Deciding, SaveStatus
\* A request that dies with an invitation contests it.
<1>16. ASSUME NEW r \in Requests, Abandon(r) PROVE AdmitInv'
  <2>1. Bystanders(r) /\ req'[r].pc = "idle"
    BY <1>0, <1>16, Ending, IdleTyped, Bystanding DEF Abandon
  <2> SUFFICES ASSUME NEW i \in Invites, i \notin contested' PROVE AdmitOne(i)'
    BY DEF AdmitInv
  <2>2. /\ AdmitOne(i) /\ Accepted(i)' = Accepted(i) /\ grants'[i] = grants[i]
    BY <1>16 DEF Abandon, AdmitInv, Accepted
  <2>3. ~Holds(req[r], i) /\ ~Holds(req'[r], i)
    BY <1>16, <2>1 DEF Abandon, Holding, Holds, Deciding
  <2> QED BY <2>1, <2>2, <2>3, AdmitAside
<1>17. CASE UNCHANGED <<req, invites, grants, contested>>
  BY <1>17 DEF AdmitInv, AdmitOne, Accepted
<1>18. ASSUME NEW i \in Invites, Elapse(i) PROVE AdmitInv'
  BY <1>17, <1>18 DEF Elapse
<1>19. CASE UNCHANGED vars
  BY <1>17, <1>19 DEF vars
<1> QED
  BY <1>1, <1>3, <1>4, <1>5, <1>6, <1>7, <1>8, <1>9, <1>10, <1>11, <1>12, <1>13, <1>14,
     <1>15, <1>16, <1>18, <1>19 DEF Next

\* An invitation that is not contested gives at most one membership, and has
\* given it exactly if it ends up accepted.
THEOREM InvitesCorrect == Spec => []InvitesAdmitOnce
<1> USE TenancyAssumption
<1>1. Init => AdmitInv
  BY IdleTyped DEF Init, AdmitInv, AdmitOne, Holds, Accepted, Deciding
<1>2. AdmitInv => InvitesAdmitOnce
  <2>1. ASSUME NEW i \in Invites, AdmitOne(i), Holding(i) = {}
        PROVE  grants[i] = 1 <=> Accepted(i)
    BY <2>1 DEF AdmitOne, Holding, Holds
  <2> QED BY <2>1 DEF AdmitInv, AdmitOne, InvitesAdmitOnce, Accepted
<1> QED BY <1>1, <1>2, InitTyped, AdmitKept, NextTyped, PTL DEF Spec
=============================================================================
