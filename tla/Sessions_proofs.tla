--------------------------- MODULE Sessions_proofs ---------------------------
(***************************************************************************)
(* Proofs about Sessions, for any accounts, rows, requests and bounds.  A  *)
(* request acts later on what it has read: the inductive invariant says    *)
(* what is then still true of it.                                          *)
(***************************************************************************)
EXTENDS Sessions, TLAPS

Pcs == {"idle", "open", "rotate", "close", "issue", "mail", "apply", "revoke", "revoking",
        "use", "expire"}
Kinds == {"none", "login", "refresh", "logout", "reset", "verify"}
Request == [pc : Pcs, kind : Kinds, user : Users \union {None},
            of : SessionIds \union Tokens \union {None},
            proof : 0..MaxPassword, raced : BOOLEAN, shared : BOOLEAN,
            listed : SUBSET SessionIds]

\* A request works for an account, and the row it has read is there.
LocalsOK(q) ==
    /\ q.pc # "idle" => q.user \in Users
    /\ q.pc \in {"rotate", "close"} => q.of \in SessionIds /\ sessions[q.of] # None
    /\ q.pc = "open" => q.of \in SessionIds \union {None}
    /\ q.pc \in {"mail", "apply", "revoke", "revoking", "use", "expire"} =>
         q.of \in Tokens /\ tokens[q.of] # None
    /\ q.pc = "issue" => q.kind \in {"reset", "verify"}

TypeInv == TypeOK /\ \A r \in Requests : LocalsOK(req[r])

-----------------------------------------------------------------------------
(* How a step changes the requests *)

Others(r) == \A p \in Requests \ {r} : req'[p] = req[p]

LEMMA Beginning ==
    ASSUME TypeOK, NEW r \in Requests, NEW q \in Request, req' = [req EXCEPT ![r] = q]
    PROVE  req' \in [Requests -> Request] /\ Others(r) /\ req'[r] = q
BY DEF TypeOK, Others, Request, Pcs, Kinds

LEMMA Going ==
    ASSUME TypeOK, NEW r \in Requests, NEW pc \in Pcs, Goto(r, pc)
    PROVE  /\ req' \in [Requests -> Request] /\ Others(r)
           /\ req'[r].pc = pc /\ req'[r].kind = req[r].kind /\ req'[r].user = req[r].user
           /\ req'[r].of = req[r].of /\ req'[r].proof = req[r].proof
           /\ req'[r].raced = req[r].raced /\ req'[r].shared = req[r].shared
           /\ req'[r].listed = req[r].listed
<1> DEFINE q == [req[r] EXCEPT !.pc = pc]
<1>0. req \in [Requests -> Request]
  BY DEF TypeOK, Request, Pcs, Kinds
<1>1. q \in Request
  BY <1>0 DEF Request
<1>2. /\ q.pc = pc /\ q.kind = req[r].kind /\ q.user = req[r].user /\ q.of = req[r].of
      /\ q.proof = req[r].proof /\ q.raced = req[r].raced /\ q.shared = req[r].shared
      /\ q.listed = req[r].listed
  BY <1>0 DEF Request
<1>3. req' = [req EXCEPT ![r] = q]
  BY DEF Goto
<1> HIDE DEF q
<1> QED BY <1>0, <1>1, <1>2, <1>3 DEF Others

LEMMA Ending ==
    ASSUME TypeOK, SessionsAssumption, NEW r \in Requests, Done(r)
    PROVE  req' \in [Requests -> Request] /\ Others(r) /\ req'[r].pc = "idle"
<1>1. Idle \in Request /\ Idle.pc = "idle"
  BY DEF Idle, Request, Pcs, Kinds, SessionsAssumption
<1>2. req' = [req EXCEPT ![r] = Idle] /\ req \in [Requests -> Request]
  BY DEF Done, TypeOK, Request, Pcs, Kinds
<1> QED BY <1>1, <1>2 DEF Others

\* A refresh tells the requests that have read the same session.
LEMMA Refreshing ==
    ASSUME TypeOK, NEW r \in Requests, NEW s \in SessionIds, Refresh(r, s)
    PROVE  /\ req' \in [Requests -> Request]
           /\ req'[r].pc = "rotate" /\ req'[r].of = s
           /\ req'[r].user = sessions[s].user /\ req'[r].proof = sessions[s].proof
           /\ sessions[s].raced => req'[r].raced
           /\ Revoking(sessions[s].user) # {} => req'[r].raced
           /\ (Rotating(s) # {} => req'[r].shared)
           /\ \A p \in Requests \ {r} :
                /\ req'[p].pc = req[p].pc /\ req'[p].of = req[p].of
                /\ req'[p].user = req[p].user /\ req'[p].proof = req[p].proof
                /\ req'[p].raced = req[p].raced /\ req'[p].kind = req[p].kind
                /\ req'[p].listed = req[p].listed
                /\ p \in Rotating(s) => req'[p].shared
                /\ p \notin Rotating(s) => req'[p].shared = req[p].shared
<1> DEFINE marked == [p \in Requests |-> IF p \in Rotating(s) THEN [req[p] EXCEPT !.shared = TRUE]
                                                              ELSE req[p]]
           b == Rotating(s) # {}
           c == sessions[s].raced \/ Revoking(sessions[s].user) # {}
           q == [pc |-> "rotate", kind |-> "refresh", user |-> sessions[s].user, of |-> s,
                 proof |-> sessions[s].proof, raced |-> c, shared |-> b, listed |-> {}]
<1>0. req \in [Requests -> Request] /\ sessions[s] \in Session
  BY DEF Refresh, Alive, FoundSession, TypeOK, Request, Pcs, Kinds
<1>1. req' = [marked EXCEPT ![r] = q]
  BY DEF Refresh
<1>2. marked \in [Requests -> Request]
  BY ZenonT(60), <1>0 DEF Request
<1>3. b \in BOOLEAN /\ c \in BOOLEAN
  OBVIOUS
<1>4. \A p \in Requests :
        /\ marked[p].pc = req[p].pc /\ marked[p].of = req[p].of /\ marked[p].user = req[p].user
        /\ marked[p].proof = req[p].proof /\ marked[p].raced = req[p].raced
        /\ marked[p].kind = req[p].kind /\ marked[p].listed = req[p].listed
        /\ p \in Rotating(s) => marked[p].shared
        /\ p \notin Rotating(s) => marked[p].shared = req[p].shared
  BY <1>0 DEF Request
<1> HIDE DEF b, c
<1>5. q \in Request
  BY <1>0, <1>3 DEF Request, Session, Pcs, Kinds
<1>6. /\ q.pc = "rotate" /\ q.of = s /\ q.user = sessions[s].user /\ q.proof = sessions[s].proof
      /\ sessions[s].raced => q.raced
      /\ Revoking(sessions[s].user) # {} => q.raced
      /\ (Rotating(s) # {} => q.shared)
  BY DEF b, c
<1> HIDE DEF marked, q
<1>7. /\ req' \in [Requests -> Request] /\ req'[r] = q
      /\ \A p \in Requests \ {r} : req'[p] = marked[p]
  BY <1>1, <1>2, <1>5
<1> QED BY <1>4, <1>6, <1>7

\* Looking sessions up, and revoking them, tells the requests that are about
\* to open a session.
LEMMA Telling ==
    ASSUME TypeOK, NEW r \in Requests, NEW q \in Request,
           req' = [Raced(req[r].user) EXCEPT ![r] = q]
    PROVE  /\ req' \in [Requests -> Request] /\ req'[r] = q
           /\ \A p \in Requests \ {r} :
                /\ req'[p].pc = req[p].pc /\ req'[p].of = req[p].of
                /\ req'[p].user = req[p].user /\ req'[p].proof = req[p].proof
                /\ req'[p].shared = req[p].shared /\ req'[p].kind = req[p].kind
                /\ req'[p].listed = req[p].listed
                /\ p \in Opening(req[r].user) => req'[p].raced
                /\ p \notin Opening(req[r].user) => req'[p].raced = req[p].raced
<1> DEFINE told == Raced(req[r].user)
<1>0. req \in [Requests -> Request]
  BY DEF TypeOK, Request, Pcs, Kinds
<1>1. told \in [Requests -> Request]
  BY <1>0 DEF Request, Raced
<1>2. \A p \in Requests :
        /\ told[p].pc = req[p].pc /\ told[p].of = req[p].of /\ told[p].user = req[p].user
        /\ told[p].proof = req[p].proof /\ told[p].shared = req[p].shared
        /\ told[p].kind = req[p].kind /\ told[p].listed = req[p].listed
        /\ p \in Opening(req[r].user) => told[p].raced
        /\ p \notin Opening(req[r].user) => told[p].raced = req[p].raced
  BY <1>0 DEF Request, Raced
<1>3. req' = [told EXCEPT ![r] = q]
  OBVIOUS
<1> HIDE DEF told
<1>4. /\ req' \in [Requests -> Request] /\ req'[r] = q
      /\ \A p \in Requests \ {r} : req'[p] = told[p]
  BY <1>1, <1>3
<1> QED BY <1>2, <1>4

LEMMA SelectTells ==
    ASSUME TypeInv, NEW r \in Requests, Select(r)
    PROVE  \E q \in Request :
             /\ req' = [Raced(req[r].user) EXCEPT ![r] = q] /\ q.pc = "revoking"
             /\ q.of = req[r].of /\ q.user = req[r].user /\ q.kind = req[r].kind
             /\ q.listed = Listed(req[r].user) /\ q.proof = password[req[r].user]
<1> DEFINE L == Listed(req[r].user)
           w == password[req[r].user]
           q == [req[r] EXCEPT !.pc = "revoking", !.listed = L, !.proof = w]
<1>0. req[r] \in Request /\ w \in 0..MaxPassword
  BY DEF Select, At, TypeInv, LocalsOK, TypeOK, Request, Pcs, Kinds
<1>1. L \in SUBSET SessionIds
  BY DEF Listed
<1>2. req' = [Raced(req[r].user) EXCEPT ![r] = q]
  BY DEF Select
<1> HIDE DEF L, w
<1>3. /\ q \in Request /\ q.pc = "revoking" /\ q.of = req[r].of /\ q.user = req[r].user
      /\ q.kind = req[r].kind /\ q.listed = L /\ q.proof = w
  BY <1>0, <1>1 DEF Request, Pcs
<1> QED BY <1>2, <1>3 DEF L, w

LEMMA RevokeTells ==
    ASSUME TypeOK, NEW r \in Requests, Revoke(r)
    PROVE  \E q \in Request :
             /\ req' = [Raced(req[r].user) EXCEPT ![r] = q] /\ q.pc = "use"
             /\ q.of = req[r].of /\ q.user = req[r].user /\ q.kind = req[r].kind
<1> DEFINE q == [req[r] EXCEPT !.pc = "use", !.listed = {}]
<1>0. req[r] \in Request
  BY DEF TypeOK, Request, Pcs, Kinds
<1>1. req' = [Raced(req[r].user) EXCEPT ![r] = q]
  BY DEF Revoke
<1>2. q \in Request /\ q.pc = "use" /\ q.of = req[r].of /\ q.user = req[r].user /\ q.kind = req[r].kind
  BY <1>0 DEF Request, Pcs
<1> QED BY <1>1, <1>2

\* What either of them leaves of the requests.
LEMMA Announced ==
    ASSUME TypeInv, NEW r \in Requests, Select(r) \/ Revoke(r)
    PROVE  /\ req[r].pc \in {"revoke", "revoking"} /\ req'[r].pc \in {"revoking", "use"}
           /\ Revoke(r) => req'[r].pc = "use"
           /\ Select(r) => /\ req'[r].pc = "revoking" /\ req'[r].listed = Listed(req[r].user)
                           /\ req'[r].proof = password[req[r].user]
           /\ req'[r].of = req[r].of /\ req'[r].user = req[r].user /\ req'[r].kind = req[r].kind
           /\ req' \in [Requests -> Request]
           /\ \A p \in Requests \ {r} :
                /\ req'[p].pc = req[p].pc /\ req'[p].of = req[p].of
                /\ req'[p].user = req[p].user /\ req'[p].proof = req[p].proof
                /\ req'[p].shared = req[p].shared /\ req'[p].kind = req[p].kind
                /\ req'[p].listed = req[p].listed
                /\ p \in Opening(req[r].user) => req'[p].raced
                /\ p \notin Opening(req[r].user) => req'[p].raced = req[p].raced
<1>0. TypeOK
  BY DEF TypeInv
<1>1. CASE Select(r)
  <2>1. req[r].pc = "revoke"
    BY <1>1 DEF Select, At
  <2>2. PICK q \in Request :
          /\ req' = [Raced(req[r].user) EXCEPT ![r] = q] /\ q.pc = "revoking"
          /\ q.of = req[r].of /\ q.user = req[r].user /\ q.kind = req[r].kind
          /\ q.listed = Listed(req[r].user) /\ q.proof = password[req[r].user]
    BY <1>1, SelectTells
  <2>3. req'[r] = q
    BY <1>0, <2>2, Telling
  <2>4. ~Revoke(r)
    BY <1>1 DEF Select, Revoke, At
  <2> QED BY <1>0, <2>1, <2>2, <2>3, <2>4, Telling
<1>2. CASE Revoke(r)
  <2>1. req[r].pc \in {"revoke", "revoking"}
    BY <1>2 DEF Revoke, At
  <2>2. PICK q \in Request :
          /\ req' = [Raced(req[r].user) EXCEPT ![r] = q] /\ q.pc = "use"
          /\ q.of = req[r].of /\ q.user = req[r].user /\ q.kind = req[r].kind
    BY <1>0, <1>2, RevokeTells
  <2>3. req'[r] = q
    BY <1>0, <2>2, Telling
  <2>4. ~Select(r)
    BY <1>2 DEF Select, Revoke, At
  <2> QED BY <1>0, <1>2, <2>1, <2>2, <2>3, <2>4, Telling
<1> QED BY <1>1, <1>2

-----------------------------------------------------------------------------
(* How a step changes the rows *)

\* A session that is saved again changes at most in being revoked.
SameRow(old, new) ==
    /\ new \in Session
    /\ new.user = old.user /\ new.proof = old.proof /\ new.parent = old.parent
    /\ new.raced = old.raced /\ new.shared = old.shared /\ (old.revoked => new.revoked)

\* No session is opened, and none changes but in being revoked.
SessionsStay ==
    /\ sessions' \in [SessionIds -> Session \union {None}]
    /\ \A s \in SessionIds : /\ sessions[s] = None => sessions'[s] = None
                             /\ sessions[s] # None => SameRow(sessions[s], sessions'[s])

LEMMA SessionsUnchanged ==
    ASSUME TypeOK, UNCHANGED sessions PROVE SessionsStay
BY DEF TypeOK, SessionsStay, SameRow

LEMMA SavingRevoked ==
    ASSUME TypeOK, NEW s \in SessionIds, sessions[s] # None, SaveRevoked(s)
    PROVE  SessionsStay /\ sessions'[s].revoked
<1> DEFINE x == [sessions[s] EXCEPT !.revoked = TRUE]
<1>0. sessions[s] \in Session
  BY DEF TypeOK
<1>1. SameRow(sessions[s], x) /\ x.revoked
  BY <1>0 DEF SameRow, Session
<1>2. sessions' = [sessions EXCEPT ![s] = x]
  BY DEF SaveRevoked
<1> HIDE DEF x
<1> QED BY <1>1, <1>2 DEF TypeOK, SessionsStay, SameRow

LEMMA RevokingRows ==
    ASSUME TypeOK, NEW u, NEW S, sessions' = RevokedBy(u, S)
    PROVE  /\ SessionsStay
           /\ \A s \in S \intersect SessionIds :
                sessions[s] # None /\ sessions[s].user = u => sessions'[s].revoked
<1>1. ASSUME NEW s \in SessionIds
      PROVE  /\ sessions[s] = None => sessions'[s] = None
             /\ sessions[s] # None => SameRow(sessions[s], sessions'[s])
             /\ s \in S /\ sessions[s] # None /\ sessions[s].user = u => sessions'[s].revoked
  <2>1. sessions[s] \in Session \union {None}
    BY DEF TypeOK
  <2>2. CASE s \in S /\ sessions[s] # None /\ sessions[s].user = u
    <3>1. sessions'[s] = [sessions[s] EXCEPT !.revoked = TRUE]
      BY <2>2 DEF RevokedBy
    <3> QED BY <2>1, <2>2, <3>1 DEF SameRow, Session
  <2>3. CASE ~(s \in S /\ sessions[s] # None /\ sessions[s].user = u)
    <3>1. sessions'[s] = sessions[s]
      BY <2>3 DEF RevokedBy
    <3> QED BY <2>1, <2>3, <3>1 DEF SameRow
  <2> QED BY <2>2, <2>3
<1>2. sessions' = [s \in SessionIds |-> sessions'[s]]
  BY DEF RevokedBy
<1>3. \A s \in SessionIds : sessions'[s] \in Session \union {None}
  BY <1>1 DEF SameRow
<1> QED BY <1>1, <1>2, <1>3 DEF SessionsStay

\* Open adds a row of what the request carries.
LEMMA OpeningRow ==
    ASSUME TypeInv, SessionsAssumption, NEW r \in Requests, Open(r)
    PROVE  /\ req[r].pc = "open" /\ req[r].user \in Users
           /\ req[r].of \in SessionIds \union {None}
           /\ \E s \in SessionIds :
             /\ sessions[s] = None
             /\ sessions' \in [SessionIds -> Session \union {None}]
             /\ sessions'[s] \in Session /\ sessions'[s] # None
             /\ sessions'[s].user = req[r].user /\ sessions'[s].proof = req[r].proof
             /\ sessions'[s].parent = req[r].of /\ sessions'[s].raced = req[r].raced
             /\ sessions'[s].shared = req[r].shared
             /\ \A t \in SessionIds \ {s} : sessions'[t] = sessions[t]
<1>1. req[r].pc = "open" /\ req[r].user \in Users /\ req[r].of \in SessionIds \union {None}
  BY DEF TypeInv, LocalsOK, Open, At
<1>2. req[r].proof \in 0..MaxPassword /\ req[r].raced \in BOOLEAN /\ req[r].shared \in BOOLEAN
  BY DEF TypeInv, TypeOK
<1> DEFINE x == [user |-> req[r].user, proof |-> req[r].proof, parent |-> req[r].of,
                 raced |-> req[r].raced, shared |-> req[r].shared, revoked |-> FALSE]
<1>3. PICK s \in SessionIds : sessions[s] = None /\ sessions' = [sessions EXCEPT ![s] = x]
  BY DEF Open
<1>4. x \in Session
  BY <1>1, <1>2 DEF Session
<1>5. x # None
  BY <1>4 DEF SessionsAssumption
<1>6. /\ x.user = req[r].user /\ x.proof = req[r].proof /\ x.parent = req[r].of
      /\ x.raced = req[r].raced /\ x.shared = req[r].shared
  OBVIOUS
<1> HIDE DEF x
<1>7. /\ sessions' \in [SessionIds -> Session \union {None}] /\ sessions'[s] = x
      /\ \A t \in SessionIds \ {s} : sessions'[t] = sessions[t]
  BY <1>3, <1>4 DEF TypeInv, TypeOK
<1> QED BY <1>1, <1>3, <1>4, <1>5, <1>6, <1>7

\* A token is added, or one that is there changes in one field.
TokensStay ==
    /\ tokens' \in [Tokens -> Token \union {None}]
    /\ \A t \in Tokens : tokens[t] # None => tokens'[t] # None

LEMMA SavingToken ==
    ASSUME TypeOK, SessionsAssumption, NEW t \in Tokens, tokens[t] # None,
           NEW status \in {"pending", "used", "expired"}, SaveToken(t, status)
    PROVE  /\ TokensStay /\ tokens'[t].status = status
           /\ \A x \in Tokens \ {t} : tokens'[x] = tokens[x]
<1> DEFINE x == [tokens[t] EXCEPT !.status = status]
<1>0. tokens[t] \in Token
  BY DEF TypeOK
<1>1. x \in Token /\ x.status = status
  BY <1>0 DEF Token
<1>2. tokens' = [tokens EXCEPT ![t] = x] /\ x # None
  BY <1>1 DEF SaveToken, SessionsAssumption
<1> HIDE DEF x
<1> QED BY <1>1, <1>2 DEF TypeOK, TokensStay

LEMMA Mailing ==
    ASSUME TypeInv, SessionsAssumption, NEW r \in Requests, Mail(r)
    PROVE  /\ TokensStay /\ req[r].of \in Tokens
           /\ \A x \in Tokens : /\ tokens'[x] = None <=> tokens[x] = None
                                /\ tokens[x] # None => tokens'[x].status = tokens[x].status
<1> DEFINE t == req[r].of
           x == [tokens[t] EXCEPT !.known = TRUE]
<1>0. t \in Tokens /\ tokens[t] # None /\ tokens[t] \in Token
  BY DEF TypeInv, LocalsOK, Mail, At, TypeOK
<1>1. x \in Token /\ x.status = tokens[t].status
  BY <1>0 DEF Token
<1>2. tokens' = [tokens EXCEPT ![t] = x] /\ x # None
  BY <1>1 DEF Mail, SessionsAssumption
<1> HIDE DEF x
<1> QED BY <1>0, <1>1, <1>2 DEF TypeInv, TypeOK, TokensStay

LEMMA Issuing ==
    ASSUME TypeInv, SessionsAssumption, NEW r \in Requests, Issue(r)
    PROVE  \E t \in Tokens :
             /\ tokens[t] = None /\ tokens'[t] # None
             /\ TokensStay /\ \A x \in Tokens \ {t} : tokens'[x] = tokens[x]
             /\ req' \in [Requests -> Request] /\ Others(r)
             /\ req'[r].pc = "mail" /\ req'[r].of = t /\ req'[r].user \in Users
<1>1. req[r].user \in Users /\ req[r].kind \in {"reset", "verify"}
  BY DEF TypeInv, LocalsOK, Issue, At
<1> DEFINE x == [user |-> req[r].user, kind |-> req[r].kind,
                 status |-> "pending", known |-> FALSE]
<1>2. PICK t \in Tokens :
        /\ tokens[t] = None /\ tokens' = [tokens EXCEPT ![t] = x]
        /\ req' = Begin(r, "mail", req[r].kind, req[r].user, t, 0, FALSE, FALSE)
  BY DEF Issue
<1>3. x \in Token
  BY <1>1 DEF Token
<1> HIDE DEF x
<1>4. x # None
  BY <1>3 DEF SessionsAssumption
<1>5. /\ req' \in [Requests -> Request] /\ Others(r)
      /\ req'[r].pc = "mail" /\ req'[r].of = t /\ req'[r].user = req[r].user
  <2> DEFINE q == [pc |-> "mail", kind |-> req[r].kind, user |-> req[r].user, of |-> t,
                   proof |-> 0, raced |-> FALSE, shared |-> FALSE, listed |-> {}]
  <2>1. q \in Request /\ q.pc = "mail" /\ q.of = t /\ q.user = req[r].user
    BY <1>1 DEF Request, Pcs, Kinds, SessionsAssumption
  <2>2. req' = [req EXCEPT ![r] = q]
    BY <1>2 DEF Begin
  <2> HIDE DEF q
  <2> QED BY <2>1, <2>2, Beginning DEF TypeInv
<1> QED BY <1>1, <1>2, <1>3, <1>4, <1>5 DEF TypeInv, TypeOK, TokensStay

-----------------------------------------------------------------------------
(* How a request begins *)

LEMMA LoginBegins ==
    ASSUME TypeInv, SessionsAssumption, NEW r \in Requests, NEW u \in Users, Login(r, u)
    PROVE  /\ req' \in [Requests -> Request] /\ Others(r)
           /\ req'[r].pc = "open" /\ req'[r].of = None /\ req'[r].user = u
           /\ req'[r].proof = password[u]
<1> DEFINE q == [pc |-> "open", kind |-> "login", user |-> u, of |-> None,
                 proof |-> password[u], raced |-> FALSE, shared |-> FALSE, listed |-> {}]
<1>1. /\ q \in Request
      /\ q.pc = "open" /\ q.of = None /\ q.user = u /\ q.proof = password[u]
  BY DEF TypeInv, TypeOK, Request, Pcs, Kinds
<1>2. req' = [req EXCEPT ![r] = q]
  BY DEF Login, Begin
<1> HIDE DEF q
<1> QED BY <1>1, <1>2, Beginning DEF TypeInv

LEMMA AskBegins ==
    ASSUME TypeInv, SessionsAssumption, NEW r \in Requests, NEW u \in Users,
           NEW kind \in {"reset", "verify"}, Ask(r, u, kind)
    PROVE  /\ req' \in [Requests -> Request] /\ Others(r)
           /\ req'[r].pc = "issue" /\ req'[r].kind = kind /\ req'[r].user = u
<1> DEFINE q == [pc |-> "issue", kind |-> kind, user |-> u, of |-> None,
                 proof |-> 0, raced |-> FALSE, shared |-> FALSE, listed |-> {}]
<1>1. q \in Request /\ q.pc = "issue" /\ q.kind = kind /\ q.user = u
  BY DEF Request, Pcs, Kinds, SessionsAssumption
<1>2. req' = [req EXCEPT ![r] = q]
  BY DEF Ask, Begin
<1> HIDE DEF q
<1> QED BY <1>1, <1>2, Beginning DEF TypeInv

LEMMA LogoutBegins ==
    ASSUME TypeInv, SessionsAssumption, NEW r \in Requests, NEW s \in SessionIds, Logout(r, s)
    PROVE  /\ req' \in [Requests -> Request] /\ Others(r)
           /\ req'[r].pc = "close" /\ req'[r].of = s /\ req'[r].user \in Users
           /\ sessions[s] # None
<1> DEFINE q == [pc |-> "close", kind |-> "logout", user |-> sessions[s].user, of |-> s,
                 proof |-> 0, raced |-> FALSE, shared |-> FALSE, listed |-> {}]
<1>0. sessions[s] \in Session /\ sessions[s] # None
  BY DEF TypeInv, TypeOK, Logout, FoundSession
<1>1. q \in Request /\ q.pc = "close" /\ q.of = s /\ q.user \in Users
  BY <1>0 DEF Request, Pcs, Kinds, Session, SessionsAssumption
<1>2. req' = [req EXCEPT ![r] = q]
  BY DEF Logout, Begin
<1> HIDE DEF q
<1> QED BY <1>0, <1>1, <1>2, Beginning DEF TypeInv

LEMMA ConfirmBegins ==
    ASSUME TypeInv, SessionsAssumption, NEW r \in Requests, NEW t \in Tokens, Confirm(r, t)
    PROVE  /\ req' \in [Requests -> Request] /\ Others(r)
           /\ req'[r].pc \in {"expire", "apply"} /\ req'[r].of = t /\ req'[r].user \in Users
           /\ tokens[t] # None
<1> DEFINE pc == IF t \in elapsed THEN "expire" ELSE "apply"
           q == [pc |-> pc, kind |-> tokens[t].kind, user |-> tokens[t].user, of |-> t,
                 proof |-> 0, raced |-> FALSE, shared |-> FALSE, listed |-> {}]
<1>0. tokens[t] \in Token /\ tokens[t] # None
  BY DEF TypeInv, TypeOK, Confirm, Usable, FoundToken
<1>1. pc \in {"expire", "apply"}
  OBVIOUS
<1>2. req' = [req EXCEPT ![r] = q]
  BY DEF Confirm, Begin
<1> HIDE DEF pc
<1>3. q \in Request /\ q.pc = pc /\ q.of = t /\ q.user \in Users
  BY <1>0, <1>1 DEF Request, Pcs, Kinds, Token, SessionsAssumption
<1> HIDE DEF q
<1> QED BY <1>0, <1>1, <1>2, <1>3, Beginning DEF TypeInv

-----------------------------------------------------------------------------
(* Types *)

\* What a request knows stays true while rows are only added or changed.
LEMMA LocalsKept ==
    ASSUME TypeInv, NEW r \in Requests, Others(r),
           \A s \in SessionIds : sessions[s] # None => sessions'[s] # None,
           \A t \in Tokens : tokens[t] # None => tokens'[t] # None,
           LocalsOK(req[r])'
    PROVE  \A p \in Requests : LocalsOK(req[p])'
<1> TAKE p \in Requests
<1>1. CASE p = r
  BY <1>1
<1>2. CASE p # r
  <2>1. req'[p] = req[p] /\ LocalsOK(req[p])
    BY <1>2 DEF Others, TypeInv
  <2> QED BY <2>1 DEF LocalsOK
<1> QED BY <1>1, <1>2

LEMMA SessionsTyped ==
    ASSUME SessionsAssumption, SessionsStay
    PROVE  /\ sessions' \in [SessionIds -> Session \union {None}]
           /\ \A s \in SessionIds : sessions[s] # None => sessions'[s] # None
BY DEF SessionsStay, SameRow, SessionsAssumption

\* A step that keeps the account data and moves one request.
LEMMA RowsTyped ==
    ASSUME TypeInv, SessionsAssumption, NEW r \in Requests, Others(r),
           req' \in [Requests -> Request],
           \/ UNCHANGED sessions
           \/ SessionsStay,
           UNCHANGED tokens \/ TokensStay,
           UNCHANGED <<backend, password, verified, elapsed, unrevoked>>,
           calls' \in 0..MaxCalls, reread' \subseteq Tokens, spent' \in [Tokens -> Nat],
           LocalsOK(req[r])'
    PROVE  TypeInv'
<1>1. /\ sessions' \in [SessionIds -> Session \union {None}]
      /\ \A s \in SessionIds : sessions[s] # None => sessions'[s] # None
  BY SessionsTyped DEF TypeInv, TypeOK
<1>2. /\ tokens' \in [Tokens -> Token \union {None}]
      /\ \A t \in Tokens : tokens[t] # None => tokens'[t] # None
  BY DEF TypeInv, TypeOK, TokensStay
<1>3. \A p \in Requests : LocalsOK(req[p])'
  BY <1>1, <1>2, LocalsKept
<1> QED BY <1>1, <1>2, <1>3 DEF TypeInv, TypeOK, Request, Pcs, Kinds

LEMMA NextTyped == TypeInv /\ [Next]_vars => TypeInv'
<1> SUFFICES ASSUME TypeInv, [Next]_vars PROVE TypeInv'
  OBVIOUS
<1> USE SessionsAssumption
<1>0. /\ calls \in 0..MaxCalls /\ reread \subseteq Tokens /\ spent \in [Tokens -> Nat]
      /\ req \in [Requests -> Request] /\ TypeOK
  BY DEF TypeInv, TypeOK, Request, Pcs, Kinds
<1>a. Counted => calls' \in 0..MaxCalls
  BY <1>0 DEF Counted, SessionsAssumption
<1>b. \A r \in Requests : LocalsOK(req[r])
  BY DEF TypeInv
<1>1. ASSUME NEW r \in Requests, NEW u \in Users, Login(r, u) PROVE TypeInv'
  <2>1. LocalsOK(req[r])'
    BY <1>1, LoginBegins DEF LocalsOK
  <2> QED BY <1>0, <1>a, <1>1, <2>1, LoginBegins, RowsTyped DEF Login
<1>2. ASSUME NEW r \in Requests, NEW u \in Users, NEW kind \in {"reset", "verify"}, Ask(r, u, kind)
      PROVE  TypeInv'
  <2>1. LocalsOK(req[r])'
    BY <1>2, AskBegins DEF LocalsOK
  <2> QED BY <1>0, <1>a, <1>2, <2>1, AskBegins, RowsTyped DEF Ask
<1>3. ASSUME NEW r \in Requests, NEW s \in SessionIds, Logout(r, s) PROVE TypeInv'
  <2>1. LocalsOK(req[r])'
    BY <1>3, LogoutBegins DEF LocalsOK, Logout
  <2> QED BY <1>0, <1>a, <1>3, <2>1, LogoutBegins, RowsTyped DEF Logout
<1>4. ASSUME NEW r \in Requests, NEW t \in Tokens, Confirm(r, t) PROVE TypeInv'
  <2>1. LocalsOK(req[r])'
    BY <1>4, ConfirmBegins DEF LocalsOK, Confirm
  <2>2. reread' \subseteq Tokens
    BY <1>0, <1>4 DEF Confirm
  <2> QED BY <1>0, <1>a, <1>4, <2>1, <2>2, ConfirmBegins, RowsTyped DEF Confirm
<1>5. ASSUME NEW r \in Requests, NEW s \in SessionIds, Refresh(r, s) PROVE TypeInv'
  <2>1. sessions[s] \in Session /\ sessions[s] # None
    BY <1>0, <1>5 DEF Refresh, Alive, FoundSession, TypeOK
  <2>2. LocalsOK(req[r])'
    BY <1>0, <1>5, <2>1, Refreshing DEF LocalsOK, Refresh, Session
  <2>3. \A p \in Requests \ {r} : LocalsOK(req[p])'
    <3> TAKE p \in Requests \ {r}
    <3>1. /\ req'[p].pc = req[p].pc /\ req'[p].of = req[p].of
          /\ req'[p].user = req[p].user /\ req'[p].kind = req[p].kind
      <4>1. TypeOK /\ Refresh(r, s)
        BY <1>0, <1>5
      <4>2. p \in Requests /\ p # r
        OBVIOUS
      <4> QED BY <4>1, <4>2, Refreshing
    <3>2. UNCHANGED <<sessions, tokens>> /\ LocalsOK(req[p])
      BY <1>b, <1>5 DEF Refresh
    <3> QED BY <3>1, <3>2 DEF LocalsOK
  <2>4. req' \in [Requests -> Request]
    BY <1>0, <1>5, Refreshing
  <2> QED BY <1>0, <1>a, <1>5, <2>2, <2>3, <2>4 DEF Refresh, TypeInv, TypeOK, Request, Pcs, Kinds
<1>6. ASSUME NEW r \in Requests, Rotate(r) PROVE TypeInv'
  <2>1. req[r].of \in SessionIds /\ sessions[req[r].of] # None /\ req[r].user \in Users
    BY <1>b, <1>6 DEF Rotate, At, LocalsOK
  <2>2. SessionsStay
    BY <1>0, <1>6, <2>1, SavingRevoked DEF Rotate
  <2>3. req' \in [Requests -> Request] /\ Others(r) /\ LocalsOK(req[r])'
    BY <1>0, <1>6, <2>1, Going DEF Rotate, LocalsOK, Pcs
  <2> QED BY <1>0, <1>6, <2>2, <2>3, RowsTyped DEF Rotate
<1>7. ASSUME NEW r \in Requests, Open(r) PROVE TypeInv'
  <2>1. /\ sessions' \in [SessionIds -> Session \union {None}]
        /\ \A s \in SessionIds : sessions[s] # None => sessions'[s] # None
    BY <1>7, OpeningRow
  <2>2. req' \in [Requests -> Request] /\ Others(r) /\ LocalsOK(req[r])'
    BY <1>0, <1>7, Ending DEF Open, LocalsOK
  <2>3. \A p \in Requests : LocalsOK(req[p])'
    BY <1>7, <2>1, <2>2, LocalsKept DEF Open
  <2> QED BY <1>0, <1>7, <2>1, <2>2, <2>3 DEF Open, TypeInv, TypeOK, Request, Pcs, Kinds
<1>8. ASSUME NEW r \in Requests, Close(r) PROVE TypeInv'
  <2>1. req[r].of \in SessionIds /\ sessions[req[r].of] # None
    BY <1>b, <1>8 DEF Close, At, LocalsOK
  <2>2. SessionsStay
    BY <1>0, <1>8, <2>1, SavingRevoked DEF Close
  <2>3. req' \in [Requests -> Request] /\ Others(r) /\ LocalsOK(req[r])'
    BY <1>0, <1>8, Ending DEF Close, LocalsOK
  <2> QED BY <1>0, <1>8, <2>2, <2>3, RowsTyped DEF Close
<1>9. ASSUME NEW r \in Requests, Issue(r) PROVE TypeInv'
  <2>1. PICK t \in Tokens :
          /\ tokens'[t] # None /\ TokensStay
          /\ req' \in [Requests -> Request] /\ Others(r)
          /\ req'[r].pc = "mail" /\ req'[r].of = t /\ req'[r].user \in Users
    BY <1>9, Issuing
  <2>2. LocalsOK(req[r])'
    BY <2>1 DEF LocalsOK
  <2> QED BY <1>0, <1>9, <2>1, <2>2, RowsTyped DEF Issue
<1>10. ASSUME NEW r \in Requests, Mail(r) PROVE TypeInv'
  <2>1. TokensStay
    BY <1>10, Mailing
  <2>2. req' \in [Requests -> Request] /\ Others(r) /\ LocalsOK(req[r])'
    BY <1>0, <1>10, Ending DEF Mail, LocalsOK
  <2> QED BY <1>0, <1>10, <2>1, <2>2, RowsTyped DEF Mail
<1>11. ASSUME NEW r \in Requests, MarkExpired(r) \/ Use(r) PROVE TypeInv'
  <2>1. req[r].of \in Tokens /\ tokens[req[r].of] # None
    BY <1>b, <1>11 DEF MarkExpired, Use, At, LocalsOK
  <2>2. TokensStay
    BY <1>0, <1>11, <2>1, SavingToken DEF MarkExpired, Use
  <2>3. req' \in [Requests -> Request] /\ Others(r) /\ LocalsOK(req[r])'
    BY <1>0, <1>11, Ending DEF MarkExpired, Use, LocalsOK
  <2> QED BY <1>0, <1>11, <2>2, <2>3, RowsTyped DEF MarkExpired, Use
<1>12. ASSUME NEW r \in Requests, Apply(r) PROVE TypeInv'
  <2> DEFINE u == req[r].user
  <2>1. /\ req[r].of \in Tokens /\ tokens[req[r].of] # None /\ u \in Users
        /\ req[r].pc = "apply"
    BY <1>b, <1>12 DEF Apply, At, LocalsOK
  <2>2. UNCHANGED <<backend, sessions, tokens, elapsed, calls, reread>>
    BY <1>12 DEF Apply
  <2>3. spent' \in [Tokens -> Nat]
    BY <1>0, <1>12, <2>1 DEF Apply
  <2>4. /\ password' \in [Users -> 0..MaxPassword] /\ verified' \subseteq Users
        /\ unrevoked' \subseteq Users
    <3>1. CASE req[r].kind = "reset"
      BY <1>0, <1>12, <2>1, <3>1 DEF Apply, TypeOK, SessionsAssumption
    <3>2. CASE req[r].kind # "reset"
      BY <1>0, <1>12, <2>1, <3>2 DEF Apply, TypeOK
    <3> QED BY <3>1, <3>2
  <2>5. Goto(r, "revoke") \/ Goto(r, "use")
    BY <1>12 DEF Apply
  <2>6. req' \in [Requests -> Request] /\ Others(r) /\ LocalsOK(req[r])'
    BY <1>0, <2>1, <2>2, <2>5, Going DEF LocalsOK, Pcs
  <2>7. \A p \in Requests : LocalsOK(req[p])'
    BY <2>2, <2>6, LocalsKept
  <2> QED BY <1>0, <2>2, <2>3, <2>4, <2>6, <2>7 DEF TypeInv, TypeOK, Request, Pcs, Kinds
<1>13. ASSUME NEW r \in Requests, Revoke(r) PROVE TypeInv'
  <2>1. req[r].of \in Tokens /\ tokens[req[r].of] # None /\ req[r].user \in Users
    BY <1>b, <1>13, Announced DEF LocalsOK
  <2>2. /\ sessions' \in [SessionIds -> Session \union {None}]
        /\ \A s \in SessionIds : sessions[s] # None => sessions'[s] # None
    BY <1>0, <1>13, RevokingRows, SessionsTyped DEF Revoke
  <2>3. \A p \in Requests \ {r} : LocalsOK(req[p])'
    <3> TAKE p \in Requests \ {r}
    <3>1. /\ req'[p].pc = req[p].pc /\ req'[p].of = req[p].of
          /\ req'[p].user = req[p].user /\ req'[p].kind = req[p].kind
      BY <1>13, Announced
    <3>2. UNCHANGED tokens /\ LocalsOK(req[p])
      BY SMTT(30), <1>b, <1>13 DEF Revoke
    <3> QED BY <2>2, <3>1, <3>2 DEF LocalsOK
  <2>4. LocalsOK(req[r])' /\ req' \in [Requests -> Request]
    BY <1>13, <2>1, Announced DEF LocalsOK, Revoke
  <2>5. unrevoked' \subseteq Users
    BY <1>0, <1>13 DEF Revoke, TypeOK
  <2> QED BY <1>0, <1>13, <2>2, <2>3, <2>4, <2>5 DEF Revoke, TypeInv, TypeOK, Request, Pcs, Kinds
<1>14. ASSUME NEW r \in Requests, RevokeSome(r) PROVE TypeInv'
  <2>1. req[r].of \in Tokens
    BY <1>b, <1>14 DEF RevokeSome, At, LocalsOK
  <2>2. SessionsStay
    BY <1>0, <1>14, RevokingRows DEF RevokeSome
  <2>3. req' \in [Requests -> Request] /\ Others(r) /\ LocalsOK(req[r])'
    BY <1>0, <1>14, Ending DEF RevokeSome, LocalsOK
  <2> QED BY <1>0, <1>14, <2>1, <2>2, <2>3, RowsTyped DEF RevokeSome
<1>15. ASSUME NEW r \in Requests, Abandon(r) PROVE TypeInv'
  <2>1. req' \in [Requests -> Request] /\ Others(r) /\ LocalsOK(req[r])'
    BY <1>0, <1>15, Ending DEF Abandon, LocalsOK
  <2>2. reread' \subseteq Tokens
    BY <1>0, <1>15 DEF Abandon
  <2> QED BY <1>0, <1>15, <2>1, <2>2, RowsTyped DEF Abandon
<1>16. ASSUME NEW x \in SessionIds \union Tokens, Elapse(x) PROVE TypeInv'
  BY <1>16 DEF Elapse, TypeInv, TypeOK, LocalsOK
<1>17. CASE Seed
  <2>1. password' \in [Users -> 0..MaxPassword]
    BY <1>0, <1>17 DEF Seed, TypeOK, SessionsAssumption
  <2>2. verified' \subseteq Users /\ unrevoked' \subseteq Users
    BY <1>0, <1>17 DEF Seed, TypeOK, SessionsAssumption
  <2> QED BY <1>0, <1>a, <1>17, <2>1, <2>2 DEF Seed, TypeInv, TypeOK, LocalsOK
<1>18. CASE UNCHANGED vars
  BY SMTT(30), <1>18 DEF vars, TypeInv, TypeOK, LocalsOK
<1>19. ASSUME NEW r \in Requests, Select(r) PROVE TypeInv'
  <2>1. req[r].of \in Tokens /\ tokens[req[r].of] # None /\ req[r].user \in Users
    BY <1>b, <1>19, Announced DEF LocalsOK
  <2>2. UNCHANGED <<sessions, tokens>>
    BY <1>19 DEF Select
  <2>3. \A p \in Requests \ {r} : LocalsOK(req[p])'
    <3> TAKE p \in Requests \ {r}
    <3>1. /\ req'[p].pc = req[p].pc /\ req'[p].of = req[p].of
          /\ req'[p].user = req[p].user /\ req'[p].kind = req[p].kind
      BY <1>19, Announced
    <3> QED BY <1>b, <2>2, <3>1 DEF LocalsOK
  <2>4. LocalsOK(req[r])' /\ req' \in [Requests -> Request]
    BY <1>19, <2>1, <2>2, Announced DEF LocalsOK
  <2> QED BY <1>0, <1>19, <2>3, <2>4 DEF Select, TypeInv, TypeOK, Request, Pcs, Kinds
<1> QED
  BY <1>1, <1>2, <1>3, <1>4, <1>5, <1>6, <1>7, <1>8, <1>9, <1>10, <1>11, <1>12, <1>13, <1>14,
     <1>15, <1>16, <1>17, <1>18, <1>19 DEF Next

LEMMA InitTyped == Init => TypeInv
<1>1. Init => \A r \in Requests : req[r] = Idle
  BY DEF Init
<1>2. Idle \in Request /\ Idle.pc = "idle"
  BY SessionsAssumption DEF Idle, Request, Pcs, Kinds, SessionsAssumption
<1>3. Init => req \in [Requests -> Request]
  BY <1>2 DEF Init
<1>4. Init => TypeOK
  BY <1>3, SessionsAssumption DEF Init, TypeOK, Request, Pcs, Kinds, SessionsAssumption
<1> QED BY <1>1, <1>2, <1>4 DEF TypeInv, LocalsOK

\* Accounts, sessions, tokens and requests keep their types.
THEOREM TypeCorrect == Spec => []TypeOK
<1>1. TypeInv => TypeOK
  BY DEF TypeInv
<1> QED BY <1>1, InitTyped, NextTyped, PTL DEF Spec

-----------------------------------------------------------------------------
(* One successor *)

Trading(p) == req[p].pc \in {"rotate", "open"} /\ req[p].of # None
Replaced(s) == sessions[s] # None /\ sessions[s].revoked

\* Who trades a session has it, and once it has been replaced nobody reads
\* it again; two that read it before know of each other.
SuccInv ==
    /\ OneSuccessor
    /\ \A s \in SessionIds : sessions[s] # None /\ sessions[s].parent # None =>
         Replaced(sessions[s].parent)
    /\ \A p \in Requests : Trading(p) /\ req[p].pc = "open" => Replaced(req[p].of)
    /\ \A p, q \in Requests : p # q /\ Trading(p) /\ Trading(q) /\ req[p].of = req[q].of =>
         req[p].shared /\ req[q].shared
    /\ \A p \in Requests, s \in SessionIds :
         Trading(p) /\ sessions[s] # None /\ sessions[s].parent = req[p].of =>
           req[p].shared /\ sessions[s].shared

\* No request begins to trade; one that has revoked its session may open.
TradesStay == \A p \in Requests : Trading(p)' =>
    /\ Trading(p) /\ req'[p].of = req[p].of /\ (req[p].shared => req'[p].shared)
    /\ req'[p].pc = "open" =>
         \/ req[p].pc = "open"
         \/ sessions'[req[p].of] # None /\ sessions'[req[p].of].revoked

LEMMA SuccStays ==
    ASSUME TypeInv, SessionsAssumption, SuccInv, SessionsStay, TradesStay
    PROVE  SuccInv'
<1>0. \A s \in SessionIds : sessions'[s] # None =>
        /\ sessions[s] # None /\ sessions[s] \in Session /\ SameRow(sessions[s], sessions'[s])
  BY DEF SessionsStay, TypeInv, TypeOK
<1>1. \A s \in SessionIds : sessions'[s] # None =>
        /\ sessions[s] # None
        /\ sessions'[s].parent = sessions[s].parent /\ sessions'[s].shared = sessions[s].shared
        /\ sessions[s].parent \in SessionIds \union {None}
  BY <1>0 DEF SameRow, Session
<1>2. \A p \in Requests : Trading(p) => req[p].of \in SessionIds
  BY DEF TypeInv, LocalsOK, Trading
<1>3. OneSuccessor'
  BY <1>1 DEF SuccInv, OneSuccessor
<1>4. ASSUME NEW s \in SessionIds, sessions'[s] # None, sessions'[s].parent # None
      PROVE  sessions'[sessions'[s].parent] # None /\ sessions'[sessions'[s].parent].revoked
  <2>1. /\ sessions[s] # None /\ sessions'[s].parent = sessions[s].parent
        /\ sessions[s].parent \in SessionIds
    BY <1>1, <1>4
  <2>2. Replaced(sessions[s].parent)
    BY <1>4, <2>1 DEF SuccInv
  <2> DEFINE x == sessions[s].parent
  <2>3. sessions[x] # None /\ sessions[x].revoked /\ x \in SessionIds
    BY <2>1, <2>2 DEF Replaced
  <2> HIDE DEF x
  <2>4. sessions'[x] # None /\ sessions'[x].revoked
    BY <2>3, SessionsTyped DEF SessionsStay, SameRow
  <2>5. sessions'[s].parent = x
    BY <2>1 DEF x
  <2> QED BY <2>4, <2>5
<1>5. ASSUME NEW p \in Requests, Trading(p)', req'[p].pc = "open"
      PROVE  sessions'[req'[p].of] # None /\ sessions'[req'[p].of].revoked
  <2> DEFINE x == req[p].of
  <2>1. /\ Trading(p) /\ req'[p].of = x /\ x \in SessionIds
        /\ req[p].pc = "open" \/ (sessions'[x] # None /\ sessions'[x].revoked)
    BY <1>2, <1>5 DEF TradesStay
  <2>2. req[p].pc = "open" => sessions[x] # None /\ sessions[x].revoked
    BY <2>1 DEF SuccInv, Replaced
  <2> HIDE DEF x
  <2> QED BY <2>1, <2>2, SessionsTyped DEF SessionsStay, SameRow
<1>6. \A p, q \in Requests :
        p # q /\ Trading(p)' /\ Trading(q)' /\ req'[p].of = req'[q].of =>
          req'[p].shared /\ req'[q].shared
  BY DEF SuccInv, TradesStay
<1>7. \A p \in Requests, s \in SessionIds :
        Trading(p)' /\ sessions'[s] # None /\ sessions'[s].parent = req'[p].of =>
          req'[p].shared /\ sessions'[s].shared
  BY <1>1 DEF SuccInv, TradesStay
<1> QED BY <1>3, <1>4, <1>5, <1>6, <1>7 DEF SuccInv, Replaced

\* A request that trades nothing now leaves the others to their trades.
LEMMA AsideStays ==
    ASSUME NEW r \in Requests, Others(r), ~Trading(r)' PROVE TradesStay
<1>1. \A p \in Requests : Trading(p)' => p # r /\ req'[p] = req[p]
  BY DEF Others
<1> QED BY <1>1 DEF TradesStay, Trading

\* The requests that only end, or move on to something else.
LEMMA AsideSteps ==
    ASSUME TypeInv, SessionsAssumption, NEW r \in Requests,
           \/ \E u \in Users : \E kind \in {"reset", "verify"} : Ask(r, u, kind)
           \/ \E s \in SessionIds : Logout(r, s)
           \/ \E t \in Tokens : Confirm(r, t)
           \/ Close(r) \/ Issue(r) \/ Mail(r) \/ MarkExpired(r) \/ Apply(r) \/ RevokeSome(r)
           \/ Use(r) \/ Abandon(r)
    PROVE  Others(r) /\ req'[r].pc \notin {"rotate", "open", "revoking"} /\ SessionsStay
<1>0. TypeOK
  BY DEF TypeInv
<1>1. CASE \E u \in Users : \E kind \in {"reset", "verify"} : Ask(r, u, kind)
  BY <1>0, <1>1, AskBegins, SessionsUnchanged DEF Ask
<1>2. CASE \E s \in SessionIds : Logout(r, s)
  BY <1>0, <1>2, LogoutBegins, SessionsUnchanged DEF Logout
<1>3. CASE \E t \in Tokens : Confirm(r, t)
  BY <1>0, <1>3, ConfirmBegins, SessionsUnchanged DEF Confirm
<1>4. CASE Close(r)
  <2>1. req[r].of \in SessionIds /\ sessions[req[r].of] # None
    BY <1>4 DEF Close, At, TypeInv, LocalsOK
  <2> QED BY <1>0, <1>4, <2>1, Ending, SavingRevoked DEF Close
<1>5. CASE Issue(r)
  BY <1>0, <1>5, Issuing, SessionsUnchanged DEF Issue
<1>6. CASE Mail(r) \/ MarkExpired(r) \/ Use(r) \/ Abandon(r)
  BY <1>0, <1>6, Ending, SessionsUnchanged DEF Mail, MarkExpired, Use, Abandon
<1>7. CASE Apply(r)
  <2>1. Goto(r, "revoke") \/ Goto(r, "use")
    BY <1>7 DEF Apply
  <2> QED BY <1>0, <1>7, <2>1, Going, SessionsUnchanged DEF Apply, Pcs
<1>8. CASE RevokeSome(r)
  <2>1. SessionsStay
    BY <1>0, <1>8, RevokingRows DEF RevokeSome
  <2> QED BY <1>0, <1>8, <2>1, Ending DEF RevokeSome
<1> QED BY <1>1, <1>2, <1>3, <1>4, <1>5, <1>6, <1>7, <1>8

\* A step that touches neither a session nor a request.
LEMMA StillStays ==
    ASSUME UNCHANGED req PROVE TradesStay
BY DEF TradesStay, Trading

LEMMA RefreshKeepsSucc ==
    ASSUME TypeInv, SessionsAssumption, SuccInv, NEW r \in Requests, NEW s \in SessionIds,
           Refresh(r, s)
    PROVE  SuccInv'
<1>1. TypeOK /\ sessions' = sessions /\ sessions[s] # None /\ ~sessions[s].revoked
  BY DEF TypeInv, Refresh, Alive, FoundSession
<1>2. req'[r].pc = "rotate" /\ req'[r].of = s /\ (Rotating(s) # {} => req'[r].shared)
  BY <1>1, Refreshing
<1>3. ASSUME NEW p \in Requests, p # r
      PROVE  /\ Trading(p)' <=> Trading(p)
             /\ req'[p].pc = req[p].pc /\ req'[p].of = req[p].of
             /\ (req[p].shared => req'[p].shared)
             /\ p \in Rotating(s) => req'[p].shared
  <2>1. req'[p].pc = req[p].pc /\ req'[p].of = req[p].of
    BY <1>1, <1>3, Refreshing
  <2>2. /\ p \in Rotating(s) => req'[p].shared
        /\ p \notin Rotating(s) => req'[p].shared = req[p].shared
    BY <1>1, <1>3, Refreshing
  <2> QED BY <2>1, <2>2 DEF Trading
<1>4. \A p \in Requests : Trading(p) /\ req[p].of = s => p \in Rotating(s)
  BY <1>1 DEF SuccInv, Trading, Replaced, Rotating, At
<1>5. \A c \in SessionIds : sessions[c] # None => sessions[c].parent # s
  <2>1. s # None
    BY DEF SessionsAssumption
  <2> QED BY <1>1, <2>1 DEF SuccInv, Replaced
<1>6. OneSuccessor'
  BY <1>1 DEF SuccInv, OneSuccessor
<1>7. \A c \in SessionIds : sessions'[c] # None /\ sessions'[c].parent # None =>
        sessions'[sessions'[c].parent] # None /\ sessions'[sessions'[c].parent].revoked
  BY <1>1 DEF SuccInv, Replaced
<1>8. \A p \in Requests : Trading(p)' /\ req'[p].pc = "open" =>
        sessions'[req'[p].of] # None /\ sessions'[req'[p].of].revoked
  <2> SUFFICES ASSUME NEW p \in Requests, Trading(p)', req'[p].pc = "open"
               PROVE  sessions'[req'[p].of] # None /\ sessions'[req'[p].of].revoked
    OBVIOUS
  <2>1. p # r
    BY <1>2
  <2>2. Trading(p) /\ req[p].pc = "open" /\ req'[p].of = req[p].of
    BY <1>3, <2>1
  <2> QED BY <1>1, <2>2 DEF SuccInv, Replaced
<1>9. ASSUME NEW p \in Requests, NEW q \in Requests, p # q, Trading(p)', Trading(q)',
             req'[p].of = req'[q].of
      PROVE  req'[p].shared /\ req'[q].shared
  <2>1. CASE p # r /\ q # r
    BY <1>3, <1>9, <2>1 DEF SuccInv
  <2>2. CASE p = r
    <3>1. Trading(q) /\ req[q].of = s /\ q # r
      BY <1>2, <1>3, <1>9, <2>2
    <3>2. q \in Rotating(s)
      BY <1>4, <3>1
    <3> QED BY <1>2, <1>3, <2>2, <3>1, <3>2
  <2>3. CASE q = r
    <3>1. Trading(p) /\ req[p].of = s /\ p # r
      BY <1>2, <1>3, <1>9, <2>3
    <3>2. p \in Rotating(s)
      BY <1>4, <3>1
    <3> QED BY <1>2, <1>3, <2>3, <3>1, <3>2
  <2> QED BY <2>1, <2>2, <2>3
<1>10. ASSUME NEW p \in Requests, NEW c \in SessionIds, Trading(p)', sessions'[c] # None,
              sessions'[c].parent = req'[p].of
       PROVE  req'[p].shared /\ sessions'[c].shared
  <2>1. p # r
    BY <1>1, <1>2, <1>5, <1>10
  <2>2. Trading(p) /\ req'[p].of = req[p].of
    BY <1>3, <1>10, <2>1
  <2>3. req[p].shared /\ sessions[c].shared
    BY <1>1, <1>10, <2>2 DEF SuccInv
  <2> QED BY <1>1, <1>3, <2>1, <2>3
<1> QED BY <1>6, <1>7, <1>8, <1>9, <1>10 DEF SuccInv, Replaced

LEMMA OpenKeepsSucc ==
    ASSUME TypeInv, SessionsAssumption, SuccInv, NEW r \in Requests, Open(r)
    PROVE  SuccInv'
<1>0. TypeOK
  BY DEF TypeInv
<1>1. Others(r) /\ req'[r].pc = "idle"
  BY <1>0, Ending DEF Open
<1>2. PICK s \in SessionIds :
        /\ sessions[s] = None /\ sessions'[s] # None
        /\ sessions'[s].parent = req[r].of /\ sessions'[s].shared = req[r].shared
        /\ \A t \in SessionIds \ {s} : sessions'[t] = sessions[t]
  BY OpeningRow
<1>3. req[r].pc = "open" /\ req[r].of \in SessionIds \union {None}
  BY OpeningRow
<1>4. \A p \in Requests : Trading(p)' => p # r /\ Trading(p) /\ req'[p] = req[p]
  BY <1>1 DEF Others, Trading
<1>5. \A t \in SessionIds : sessions[t] # None => t # s /\ sessions'[t] = sessions[t]
  BY <1>2
<1>6. \A t \in SessionIds : Replaced(t) => sessions'[t] # None /\ sessions'[t].revoked
  BY <1>5 DEF Replaced
<1>7. \A t \in SessionIds : sessions[t] # None => sessions[t].parent \in SessionIds \union {None}
  BY <1>0 DEF TypeOK, Session
<1>8. \A p \in Requests : Trading(p) => req[p].of \in SessionIds
  BY DEF TypeInv, LocalsOK, Trading
<1>9. req[r].of # None => Trading(r) /\ Replaced(req[r].of)
  BY <1>3 DEF SuccInv, Trading
<1>10. OneSuccessor'
  <2>1. ASSUME NEW t \in SessionIds, t # s, sessions'[t] # None, sessions'[t].parent # None,
               sessions'[t].parent = sessions'[s].parent
        PROVE  sessions'[t].shared /\ sessions'[s].shared
    <3>1. sessions[t] # None /\ sessions[t].parent = req[r].of /\ sessions'[t] = sessions[t]
      BY <1>2, <2>1
    <3>2. Trading(r)
      BY <1>9, <2>1, <3>1
    <3>3. sessions[t].shared /\ req[r].shared
      BY <3>1, <3>2 DEF SuccInv
    <3> QED BY <1>2, <3>1, <3>3
  <2>2. ASSUME NEW t \in SessionIds, NEW u \in SessionIds, t # u, t # s, u # s,
               sessions'[t] # None, sessions'[u] # None, sessions'[t].parent # None,
               sessions'[t].parent = sessions'[u].parent
        PROVE  sessions'[t].shared /\ sessions'[u].shared
    BY <1>2, <2>2 DEF SuccInv, OneSuccessor
  <2> QED BY <2>1, <2>2 DEF OneSuccessor
<1>11. ASSUME NEW t \in SessionIds, sessions'[t] # None, sessions'[t].parent # None
       PROVE  sessions'[sessions'[t].parent] # None /\ sessions'[sessions'[t].parent].revoked
  <2>1. CASE t = s
    BY <1>2, <1>3, <1>6, <1>9, <1>11, <2>1
  <2>2. CASE t # s
    <3>1. sessions'[t] = sessions[t]
      BY <1>2, <2>2
    <3>2. Replaced(sessions[t].parent) /\ sessions[t].parent \in SessionIds
      BY <1>7, <1>11, <3>1 DEF SuccInv
    <3> QED BY <1>6, <3>1, <3>2
  <2> QED BY <2>1, <2>2
<1>12. \A p \in Requests : Trading(p)' /\ req'[p].pc = "open" =>
         sessions'[req'[p].of] # None /\ sessions'[req'[p].of].revoked
  <2> SUFFICES ASSUME NEW p \in Requests, Trading(p)', req'[p].pc = "open"
               PROVE  sessions'[req'[p].of] # None /\ sessions'[req'[p].of].revoked
    OBVIOUS
  <2>1. Trading(p) /\ req'[p] = req[p] /\ req[p].of \in SessionIds
    BY <1>4, <1>8
  <2>2. Replaced(req[p].of)
    BY <2>1 DEF SuccInv
  <2> QED BY <1>6, <2>1, <2>2
<1>13. \A p, q \in Requests :
         p # q /\ Trading(p)' /\ Trading(q)' /\ req'[p].of = req'[q].of =>
           req'[p].shared /\ req'[q].shared
  BY <1>4 DEF SuccInv
<1>14. ASSUME NEW p \in Requests, NEW t \in SessionIds, Trading(p)', sessions'[t] # None,
              sessions'[t].parent = req'[p].of
       PROVE  req'[p].shared /\ sessions'[t].shared
  <2>1. p # r /\ Trading(p) /\ req'[p] = req[p]
    BY <1>4, <1>14
  <2>2. CASE t = s
    <3>1. req[r].of = req[p].of /\ Trading(r)
      BY <1>2, <1>9, <1>14, <2>1, <2>2 DEF Trading
    <3>2. req[p].shared /\ req[r].shared
      BY <2>1, <3>1 DEF SuccInv
    <3> QED BY <1>2, <2>1, <2>2, <3>2
  <2>3. CASE t # s
    <3>1. sessions'[t] = sessions[t]
      BY <1>2, <2>3
    <3> QED BY <1>14, <2>1, <3>1 DEF SuccInv
  <2> QED BY <2>2, <2>3
<1> QED BY <1>10, <1>11, <1>12, <1>13, <1>14 DEF SuccInv, Replaced

LEMMA SuccStep == TypeInv /\ SuccInv /\ [Next]_vars => SuccInv'
<1> SUFFICES ASSUME TypeInv, SuccInv, [Next]_vars PROVE SuccInv'
  OBVIOUS
<1> USE SessionsAssumption
<1>0. TypeOK
  BY DEF TypeInv
<1>1. ASSUME NEW r \in Requests, NEW u \in Users, Login(r, u) PROVE SuccInv'
  <2>1. SessionsStay
    BY <1>0, <1>1, SessionsUnchanged DEF Login
  <2>2. TradesStay
    BY <1>1, LoginBegins, AsideStays DEF Trading
  <2> QED BY <2>1, <2>2, SuccStays
<1>2. ASSUME NEW r \in Requests,
             \/ \E u \in Users : \E kind \in {"reset", "verify"} : Ask(r, u, kind)
             \/ \E s \in SessionIds : Logout(r, s)
             \/ \E t \in Tokens : Confirm(r, t)
             \/ Close(r) \/ Issue(r) \/ Mail(r) \/ MarkExpired(r) \/ Apply(r) \/ RevokeSome(r)
             \/ Use(r) \/ Abandon(r)
      PROVE  SuccInv'
  <2>1. Others(r) /\ ~Trading(r)' /\ SessionsStay
    BY <1>2, AsideSteps DEF Trading
  <2> QED BY <2>1, AsideStays, SuccStays
<1>3. ASSUME NEW r \in Requests, Rotate(r) PROVE SuccInv'
  <2>1. req[r].of \in SessionIds /\ sessions[req[r].of] # None /\ req[r].pc = "rotate"
    BY <1>3 DEF Rotate, At, TypeInv, LocalsOK
  <2>2. /\ SessionsStay /\ sessions'[req[r].of] # None /\ sessions'[req[r].of].revoked
    BY <1>0, <1>3, <2>1, SavingRevoked, SessionsTyped DEF Rotate
  <2>3. Others(r) /\ req'[r].of = req[r].of /\ req'[r].shared = req[r].shared
    BY <1>0, <1>3, Going DEF Rotate, Pcs
  <2>4. TradesStay
    BY <2>1, <2>2, <2>3 DEF TradesStay, Others, Trading
  <2> QED BY <2>2, <2>4, SuccStays
<1>4. ASSUME NEW r \in Requests, Select(r) \/ Revoke(r) PROVE SuccInv'
  <2>1. SessionsStay
    BY <1>0, <1>4, RevokingRows, SessionsUnchanged DEF Revoke, Select
  <2>2. req'[r].pc \in {"revoking", "use"}
    BY <1>4, Announced
  <2>3. \A p \in Requests \ {r} :
          req'[p].pc = req[p].pc /\ req'[p].of = req[p].of /\ req'[p].shared = req[p].shared
    BY <1>4, Announced
  <2>4. TradesStay
    BY <2>2, <2>3 DEF TradesStay, Trading
  <2> QED BY <2>1, <2>4, SuccStays
<1>5. ASSUME UNCHANGED <<sessions, req>> PROVE SuccInv'
  BY <1>0, <1>5, SessionsUnchanged, StillStays, SuccStays
<1>6. Seed \/ UNCHANGED vars \/ (\E x \in SessionIds \union Tokens : Elapse(x)) => SuccInv'
  BY <1>5 DEF Seed, Elapse, vars
<1> QED
  BY <1>1, <1>2, <1>3, <1>4, <1>6, RefreshKeepsSucc, OpenKeepsSucc DEF Next

\* A refresh token is traded for one session; two only when two requests
\* read it before either had saved it as revoked.
THEOREM SuccessorCorrect == Spec => []OneSuccessor
<1>1. Init => TypeInv /\ SuccInv
  <2>1. Idle.pc = "idle"
    BY DEF Idle
  <2> QED BY <2>1, InitTyped DEF Init, SuccInv, OneSuccessor, Trading
<1>2. (TypeInv /\ SuccInv) /\ [Next]_vars => (TypeInv /\ SuccInv)'
  BY NextTyped, SuccStep
<1>3. SuccInv => OneSuccessor
  BY DEF SuccInv
<1> QED BY <1>1, <1>2, <1>3, PTL DEF Spec

-----------------------------------------------------------------------------
(* Sessions end with the password *)

\* An account has sessions of a former password, or requests that open one,
\* only until they are revoked, or when they were being opened meanwhile.
Trades(p) == req[p].pc \in {"rotate", "open"}

PassInv ==
    /\ \A s \in SessionIds : sessions[s] # None /\ ~sessions[s].revoked /\
         sessions[s].proof < password[sessions[s].user] =>
            sessions[s].raced \/ sessions[s].user \in unrevoked
    /\ \A p \in Requests : Trades(p) /\
         req[p].proof < password[req[p].user] => req[p].raced \/ req[p].user \in unrevoked

\* A request that looked sessions up misses none of those it is to revoke:
\* what has been opened since has the password it saw or was marked as raced.
SelInv == \A p \in Requests : At(p, "revoking") =>
    /\ req[p].proof <= password[req[p].user]
    /\ \A s \in SessionIds : sessions[s] # None /\ ~sessions[s].revoked
         /\ sessions[s].user = req[p].user /\ sessions[s].proof < req[p].proof =>
            s \in req[p].listed \/ sessions[s].raced
    /\ \A q \in Requests : Trades(q) /\ req[q].user = req[p].user
         /\ req[q].proof < req[p].proof => req[q].raced

\* Whether the accounts of a row or a request are as before.
LEMMA SessionsKeepPass ==
    ASSUME TypeInv, SessionsAssumption, PassInv, SessionsStay, UNCHANGED password,
           unrevoked \subseteq unrevoked'
    PROVE  \A s \in SessionIds : sessions'[s] # None /\ ~sessions'[s].revoked /\
             sessions'[s].proof < password'[sessions'[s].user] =>
               sessions'[s].raced \/ sessions'[s].user \in unrevoked'
<1> SUFFICES ASSUME NEW s \in SessionIds, sessions'[s] # None, ~sessions'[s].revoked
             PROVE  sessions'[s].proof < password'[sessions'[s].user] =>
                      sessions'[s].raced \/ sessions'[s].user \in unrevoked'
  OBVIOUS
<1>1. sessions[s] # None /\ SameRow(sessions[s], sessions'[s])
  BY DEF SessionsStay
<1>2. ~sessions[s].revoked
  BY <1>1 DEF SameRow
<1> QED BY <1>1, <1>2 DEF PassInv, SameRow

LEMMA OthersKeepPass ==
    ASSUME PassInv, NEW r \in Requests, Others(r), UNCHANGED password, unrevoked \subseteq unrevoked'
    PROVE  \A p \in Requests \ {r} : Trades(p)' /\
             req'[p].proof < password'[req'[p].user] =>
               req'[p].raced \/ req'[p].user \in unrevoked'
BY DEF PassInv, Others, Trades

\* Time and rows stay, and passwords grow only as their sessions wait to be revoked.
LEMMA GrownKeepsPass ==
    ASSUME TypeInv, PassInv, UNCHANGED sessions, NEW U \in SUBSET Users,
           password \in [Users -> Nat], password' \in [Users -> Nat],
           \A u \in Users \ U : password'[u] = password[u],
           unrevoked' = unrevoked \union U,
           \A p \in Requests : Trades(p)' => Trades(p) /\ req'[p] = req[p]
    PROVE  PassInv'
<1>1. \A s \in SessionIds : sessions[s] # None => sessions[s].user \in Users
  BY DEF TypeInv, TypeOK, Session
<1>2. \A p \in Requests : Trades(p) => req[p].user \in Users
  BY DEF TypeInv, LocalsOK, Trades
<1>3. \A s \in SessionIds : sessions'[s] # None /\ ~sessions'[s].revoked /\
             sessions'[s].proof < password'[sessions'[s].user] =>
               sessions'[s].raced \/ sessions'[s].user \in unrevoked'
  BY <1>1 DEF PassInv
<1>4. ASSUME NEW p \in Requests, Trades(p)', req'[p].proof < password'[req'[p].user]
      PROVE  req'[p].raced \/ req'[p].user \in unrevoked'
  <2>1. Trades(p) /\ req'[p] = req[p] /\ req[p].user \in Users
    BY <1>2, <1>4
  <2> QED BY <1>4, <2>1 DEF PassInv
<1> QED BY <1>3, <1>4 DEF PassInv

LEMMA PassStep == TypeInv /\ PassInv /\ SelInv /\ [Next]_vars => PassInv'
<1> SUFFICES ASSUME TypeInv, PassInv, SelInv, [Next]_vars PROVE PassInv'
  OBVIOUS
<1> USE SessionsAssumption
<1>0. /\ TypeOK /\ unrevoked \subseteq Users
      /\ password \in [Users -> 0..MaxPassword] /\ password \in [Users -> Nat]
  BY DEF TypeInv, TypeOK, SessionsAssumption
<1>1. ASSUME NEW r \in Requests, NEW u \in Users, Login(r, u) PROVE PassInv'
  <2>1. SessionsStay /\ UNCHANGED <<password, unrevoked>>
    BY <1>0, <1>1, SessionsUnchanged DEF Login
  <2>2. Others(r) /\ req'[r].user = u /\ req'[r].proof = password[u]
    BY <1>1, LoginBegins
  <2>3. ~(req'[r].proof < password'[req'[r].user])
    BY <1>0, <2>1, <2>2
  <2> QED BY <2>1, <2>2, <2>3, SessionsKeepPass, OthersKeepPass DEF PassInv
<1>2. ASSUME NEW r \in Requests,
             \/ \E u \in Users : \E kind \in {"reset", "verify"} : Ask(r, u, kind)
             \/ \E s \in SessionIds : Logout(r, s)
             \/ \E t \in Tokens : Confirm(r, t)
             \/ Close(r) \/ Issue(r) \/ Mail(r) \/ MarkExpired(r) \/ RevokeSome(r)
             \/ Use(r) \/ Abandon(r)
      PROVE  PassInv'
  <2>1. Others(r) /\ ~Trades(r)' /\ SessionsStay
    BY <1>2, AsideSteps DEF Trades
  <2>2. UNCHANGED <<password, unrevoked>>
    BY <1>2 DEF Ask, Logout, Confirm, Close, Issue, Mail, MarkExpired, RevokeSome, Use, Abandon
  <2> QED BY <2>1, <2>2, SessionsKeepPass, OthersKeepPass DEF PassInv
<1>3. ASSUME NEW r \in Requests, NEW s \in SessionIds, Refresh(r, s) PROVE PassInv'
  <2>1. SessionsStay /\ UNCHANGED <<password, unrevoked, sessions>>
    BY <1>0, <1>3, SessionsUnchanged DEF Refresh
  <2>2. sessions[s] # None /\ ~sessions[s].revoked
    BY <1>3 DEF Refresh, Alive, FoundSession
  <2>3. /\ req'[r].user = sessions[s].user /\ req'[r].proof = sessions[s].proof
        /\ sessions[s].raced => req'[r].raced
    BY <1>0, <1>3, Refreshing
  <2>4. req'[r].proof < password'[req'[r].user] => req'[r].raced \/ req'[r].user \in unrevoked'
    BY <2>1, <2>2, <2>3 DEF PassInv
  <2>5. \A p \in Requests \ {r} :
          /\ req'[p].pc = req[p].pc /\ req'[p].user = req[p].user
          /\ req'[p].proof = req[p].proof /\ req'[p].raced = req[p].raced
    BY <1>0, <1>3, Refreshing
  <2>6. \A p \in Requests \ {r} : Trades(p)' /\
          req'[p].proof < password'[req'[p].user] => req'[p].raced \/ req'[p].user \in unrevoked'
    BY <2>1, <2>5 DEF PassInv, Trades
  <2> QED BY <2>1, <2>4, <2>6, SessionsKeepPass DEF PassInv
<1>4. ASSUME NEW r \in Requests, Rotate(r) PROVE PassInv'
  <2>1. req[r].of \in SessionIds /\ sessions[req[r].of] # None /\ Trades(r)
    BY <1>4 DEF Rotate, At, TypeInv, LocalsOK, Trades
  <2>2. SessionsStay /\ UNCHANGED <<password, unrevoked>>
    BY <1>0, <1>4, <2>1, SavingRevoked DEF Rotate
  <2>3. /\ Others(r) /\ req'[r].user = req[r].user /\ req'[r].proof = req[r].proof
        /\ req'[r].raced = req[r].raced
    BY <1>0, <1>4, Going DEF Rotate, Pcs
  <2>4. req'[r].proof < password'[req'[r].user] => req'[r].raced \/ req'[r].user \in unrevoked'
    BY <2>1, <2>2, <2>3 DEF PassInv
  <2> QED BY <2>2, <2>3, <2>4, SessionsKeepPass, OthersKeepPass DEF PassInv
<1>5. ASSUME NEW r \in Requests, Open(r) PROVE PassInv'
  <2>1. Others(r) /\ req'[r].pc = "idle" /\ UNCHANGED <<password, unrevoked>>
    BY <1>0, <1>5, Ending DEF Open
  <2>2. PICK s \in SessionIds :
          /\ sessions'[s].user = req[r].user /\ sessions'[s].proof = req[r].proof
          /\ sessions'[s].raced = req[r].raced
          /\ \A t \in SessionIds \ {s} : sessions'[t] = sessions[t]
    BY <1>5, OpeningRow
  <2>3. Trades(r)
    BY <1>5 DEF Open, At, Trades
  <2>4. sessions'[s].proof < password'[sessions'[s].user] =>
          sessions'[s].raced \/ sessions'[s].user \in unrevoked'
    BY <2>1, <2>2, <2>3 DEF PassInv
  <2>5. \A t \in SessionIds : sessions'[t] # None /\ ~sessions'[t].revoked /\
          sessions'[t].proof < password'[sessions'[t].user] =>
            sessions'[t].raced \/ sessions'[t].user \in unrevoked'
    BY <2>1, <2>2, <2>4 DEF PassInv
  <2> QED BY <2>1, <2>5, OthersKeepPass DEF PassInv, Trades
<1>6. ASSUME NEW r \in Requests, Apply(r) PROVE PassInv'
  <2>1. Others(r) /\ ~Trades(r)' /\ UNCHANGED sessions
    BY <1>6, AsideSteps DEF Trades, Apply
  <2>2. \A p \in Requests : Trades(p)' => Trades(p) /\ req'[p] = req[p]
    BY <2>1 DEF Others, Trades
  <2>3. CASE req[r].kind = "reset"
    <3> DEFINE u == req[r].user
    <3>1. u \in Users
      BY <1>6 DEF Apply, At, TypeInv, LocalsOK
    <3>2. password' = [password EXCEPT ![u] = @ + 1] /\ unrevoked' = unrevoked \union {u}
      BY <1>6, <2>3 DEF Apply
    <3> HIDE DEF u
    <3>3. password' \in [Users -> Nat] /\ \A v \in Users \ {u} : password'[v] = password[v]
      BY <1>0, <3>1, <3>2
    <3> QED BY <1>0, <2>1, <2>2, <3>1, <3>2, <3>3, GrownKeepsPass
  <2>4. CASE req[r].kind # "reset"
    <3>1. UNCHANGED <<password, unrevoked>>
      BY <1>6, <2>4 DEF Apply
    <3>2. SessionsStay
      BY <1>0, <2>1, SessionsUnchanged
    <3> QED BY <2>1, <3>1, <3>2, SessionsKeepPass, OthersKeepPass DEF PassInv
  <2> QED BY <2>3, <2>4
<1>7. ASSUME NEW r \in Requests, Select(r) \/ Revoke(r) PROVE PassInv'
  <2> DEFINE u == req[r].user
  <2>1. password' = password /\ SessionsStay
    BY <1>0, <1>7, RevokingRows, SessionsUnchanged DEF Select, Revoke
  <2>2. ASSUME NEW p \in Requests, Trades(p)', req'[p].proof < password'[req'[p].user]
        PROVE  req'[p].raced \/ req'[p].user \in unrevoked'
    <3>1. p # r
      BY <1>7, <2>2, Announced DEF Trades
    <3>2. /\ req'[p].pc = req[p].pc /\ req'[p].user = req[p].user /\ req'[p].proof = req[p].proof
          /\ p \in Opening(u) => req'[p].raced
          /\ p \notin Opening(u) => req'[p].raced = req[p].raced
      BY <1>7, <3>1, Announced
    <3>3. p \in Opening(u) <=> req[p].user = u
      BY <2>2, <3>2 DEF Opening, Trades
    <3>4. unrevoked \subseteq unrevoked' \union {u}
      BY <1>7 DEF Select, Revoke
    <3> QED BY <2>1, <2>2, <3>2, <3>3, <3>4 DEF PassInv, Trades
  <2>3. ASSUME NEW s \in SessionIds, sessions'[s] # None, ~sessions'[s].revoked,
               sessions'[s].proof < password'[sessions'[s].user]
        PROVE  sessions'[s].raced \/ sessions'[s].user \in unrevoked'
    <3>1. sessions[s] # None /\ SameRow(sessions[s], sessions'[s])
      BY <2>1, <2>3 DEF SessionsStay
    <3>2. ~sessions[s].revoked /\ sessions[s].proof < password[sessions[s].user]
      BY <2>1, <2>3, <3>1 DEF SameRow
    <3>3. sessions[s].raced \/ sessions[s].user \in unrevoked
      BY <3>1, <3>2 DEF PassInv
    <3>4. CASE unrevoked' = unrevoked
      BY <3>1, <3>3, <3>4 DEF SameRow
    <3>5. CASE unrevoked' # unrevoked
      <4>1. Revoke(r) /\ unrevoked' = unrevoked \ {u}
        BY <1>7, <3>5 DEF Select, Revoke
      <4>2. CASE backend = "postgres"
        <5>1. At(r, "revoking") /\ password[u] = req[r].proof
          BY <3>5, <4>1, <4>2 DEF Revoke
        <5>2. sessions' = RevokedBy(u, req[r].listed)
          BY <4>1, <4>2 DEF Revoke
        <5>3. sessions[s].user = u => s \notin req[r].listed
          BY <1>0, <2>3, <3>1, <5>2, RevokingRows
        <5>4. sessions[s].user = u => sessions[s].raced
          BY <3>1, <3>2, <5>1, <5>3 DEF SelInv
        <5> QED BY <3>1, <3>3, <4>1, <5>4 DEF SameRow
      <4>3. CASE backend # "postgres"
        <5>1. sessions' = RevokedBy(u, SessionIds)
          BY <4>1, <4>3 DEF Revoke
        <5>2. sessions[s].user # u
          BY <1>0, <2>3, <3>1, <5>1, RevokingRows
        <5> QED BY <3>1, <3>3, <4>1, <5>2 DEF SameRow
      <4> QED BY <4>2, <4>3
    <3> QED BY <3>4, <3>5
  <2> QED BY <2>2, <2>3 DEF PassInv
<1>8. CASE Seed
  <2>1. /\ UNCHANGED <<sessions, req>> /\ unrevoked' = unrevoked \union SeedUsers
        /\ SeedUsers \in SUBSET Users
    BY <1>8 DEF Seed, SessionsAssumption
  <2>2. /\ password' \in [Users -> Nat]
        /\ \A u \in Users \ SeedUsers : password'[u] = password[u]
    BY <1>0, <1>8 DEF Seed
  <2> QED BY <1>0, <2>1, <2>2, GrownKeepsPass DEF Trades
<1>9. ASSUME UNCHANGED <<sessions, req, password, unrevoked>> PROVE PassInv'
  BY <1>9 DEF PassInv, Trades
<1>10. UNCHANGED vars \/ (\E x \in SessionIds \union Tokens : Elapse(x)) => PassInv'
  BY <1>9 DEF Elapse, vars
<1> QED BY <1>1, <1>2, <1>3, <1>4, <1>5, <1>6, <1>7, <1>8, <1>10 DEF Next

\* No request looks anything up, none begins to trade, and none forgets that
\* it was raced.
LookedUpStays == \A p \in Requests :
    /\ At(p, "revoking")' =>
         /\ At(p, "revoking") /\ req'[p].user = req[p].user
         /\ req'[p].proof = req[p].proof /\ req'[p].listed = req[p].listed
    /\ Trades(p)' =>
         /\ Trades(p) /\ req'[p].user = req[p].user /\ req'[p].proof = req[p].proof
         /\ req[p].raced => req'[p].raced

LEMMA SelStays ==
    ASSUME TypeInv, SelInv, SessionsStay, LookedUpStays, password' \in [Users -> Nat],
           \A u \in Users : password[u] <= password'[u]
    PROVE  SelInv'
<1> SUFFICES ASSUME NEW p \in Requests, At(p, "revoking")'
             PROVE  /\ req'[p].proof <= password'[req'[p].user]
                    /\ \A s \in SessionIds : sessions'[s] # None /\ ~sessions'[s].revoked
                         /\ sessions'[s].user = req'[p].user /\ sessions'[s].proof < req'[p].proof =>
                            s \in req'[p].listed \/ sessions'[s].raced
                    /\ \A q \in Requests : Trades(q)' /\ req'[q].user = req'[p].user
                         /\ req'[q].proof < req'[p].proof => req'[q].raced
  BY DEF SelInv
<1>1. /\ At(p, "revoking") /\ req'[p].user = req[p].user
      /\ req'[p].proof = req[p].proof /\ req'[p].listed = req[p].listed
  BY DEF LookedUpStays
<1>2. /\ req[p].user \in Users /\ req[p].proof \in Nat
      /\ password[req[p].user] \in Nat /\ req[p].proof <= password[req[p].user]
  <2>1. req[p].user \in Users
    BY <1>1 DEF TypeInv, LocalsOK, At
  <2> QED BY <1>1, <2>1, SessionsAssumption DEF TypeInv, TypeOK, SessionsAssumption, SelInv
<1>3. req'[p].proof <= password'[req'[p].user]
  <2> DEFINE u == req[p].user
  <2>1. u \in Users /\ password[u] <= password'[u] /\ password'[u] \in Nat
    BY <1>2
  <2> QED BY <1>1, <1>2, <2>1
<1>4. ASSUME NEW s \in SessionIds, sessions'[s] # None, ~sessions'[s].revoked,
             sessions'[s].user = req'[p].user, sessions'[s].proof < req'[p].proof
      PROVE  s \in req'[p].listed \/ sessions'[s].raced
  <2>1. sessions[s] # None /\ SameRow(sessions[s], sessions'[s])
    BY <1>4 DEF SessionsStay
  <2>2. ~sessions[s].revoked /\ sessions[s].user = req[p].user /\ sessions[s].proof < req[p].proof
    BY <1>1, <1>4, <2>1 DEF SameRow
  <2>3. s \in req[p].listed \/ sessions[s].raced
    BY <1>1, <2>1, <2>2 DEF SelInv
  <2> QED BY <1>1, <2>1, <2>3 DEF SameRow
<1>5. ASSUME NEW q \in Requests, Trades(q)', req'[q].user = req'[p].user,
             req'[q].proof < req'[p].proof
      PROVE  req'[q].raced
  <2>1. /\ Trades(q) /\ req'[q].user = req[q].user /\ req'[q].proof = req[q].proof
        /\ req[q].raced => req'[q].raced
    BY <1>5 DEF LookedUpStays
  <2> QED BY <1>1, <1>5, <2>1 DEF SelInv
<1> QED BY <1>3, <1>4, <1>5

LEMMA OthersLookedUp ==
    ASSUME NEW r \in Requests, Others(r), ~Trades(r)', ~At(r, "revoking")'
    PROVE  LookedUpStays
<1> SUFFICES ASSUME NEW p \in Requests
             PROVE  /\ At(p, "revoking")' =>
                         /\ At(p, "revoking") /\ req'[p].user = req[p].user
                         /\ req'[p].proof = req[p].proof /\ req'[p].listed = req[p].listed
                    /\ Trades(p)' =>
                         /\ Trades(p) /\ req'[p].user = req[p].user /\ req'[p].proof = req[p].proof
                         /\ req[p].raced => req'[p].raced
  BY DEF LookedUpStays
<1>1. CASE p = r
  BY <1>1
<1>2. CASE p # r
  <2>1. req'[p] = req[p]
    BY <1>2 DEF Others
  <2> QED BY <2>1 DEF At, Trades
<1> QED BY <1>1, <1>2

\* What is being looked up stays; one request begins to trade, with the
\* password of now or marked.
LEMMA TraderKeepsSel ==
    ASSUME TypeInv, SessionsAssumption, SelInv, UNCHANGED <<sessions, password>>,
           NEW r \in Requests, ~At(r, "revoking")',
           \A p \in Requests \ {r} :
              /\ req'[p].pc = req[p].pc /\ req'[p].user = req[p].user
              /\ req'[p].proof = req[p].proof /\ req'[p].listed = req[p].listed
              /\ req'[p].raced = req[p].raced,
           \A p \in Requests : At(p, "revoking") /\ req[p].user = req'[r].user =>
              req'[r].proof = password[req'[r].user] \/ req'[r].raced
    PROVE  SelInv'
<1> SUFFICES ASSUME NEW p \in Requests, At(p, "revoking")'
             PROVE  /\ req'[p].proof <= password'[req'[p].user]
                    /\ \A s \in SessionIds : sessions'[s] # None /\ ~sessions'[s].revoked
                         /\ sessions'[s].user = req'[p].user /\ sessions'[s].proof < req'[p].proof =>
                            s \in req'[p].listed \/ sessions'[s].raced
                    /\ \A q \in Requests : Trades(q)' /\ req'[q].user = req'[p].user
                         /\ req'[q].proof < req'[p].proof => req'[q].raced
  BY DEF SelInv
<1>1. /\ p # r /\ At(p, "revoking") /\ req'[p].user = req[p].user
      /\ req'[p].proof = req[p].proof /\ req'[p].listed = req[p].listed
  BY DEF At
<1>2. /\ req[p].user \in Users /\ req[p].proof \in Nat
      /\ password[req[p].user] \in Nat /\ req[p].proof <= password[req[p].user]
  <2>1. req[p].user \in Users
    BY <1>1 DEF TypeInv, LocalsOK, At
  <2> QED BY <1>1, <2>1 DEF TypeInv, TypeOK, SessionsAssumption, SelInv
<1>3. \A s \in SessionIds : sessions'[s] # None /\ ~sessions'[s].revoked
        /\ sessions'[s].user = req'[p].user /\ sessions'[s].proof < req'[p].proof =>
           s \in req'[p].listed \/ sessions'[s].raced
  BY <1>1 DEF SelInv
<1>4. ASSUME NEW q \in Requests, Trades(q)', req'[q].user = req'[p].user,
             req'[q].proof < req'[p].proof
      PROVE  req'[q].raced
  <2>1. CASE q = r
    <3>1. req'[r].proof = password[req[p].user] \/ req'[r].raced
      BY <1>1, <1>4, <2>1
    <3> QED BY <1>1, <1>2, <1>4, <2>1, <3>1
  <2>2. CASE q # r
    BY <1>1, <1>4, <2>2 DEF SelInv, Trades
  <2> QED BY <2>1, <2>2
<1> QED BY <1>1, <1>2, <1>3, <1>4

LEMMA OpenKeepsSel ==
    ASSUME TypeInv, SessionsAssumption, SelInv, NEW r \in Requests, Open(r)
    PROVE  SelInv'
<1>1. Others(r) /\ req'[r].pc = "idle" /\ UNCHANGED password
  BY Ending DEF Open, TypeInv
<1>2. PICK s \in SessionIds :
        /\ sessions'[s].user = req[r].user /\ sessions'[s].proof = req[r].proof
        /\ sessions'[s].raced = req[r].raced
        /\ \A t \in SessionIds \ {s} : sessions'[t] = sessions[t]
  BY OpeningRow
<1>3. Trades(r)
  BY DEF Open, At, Trades
<1>4. \A p \in Requests : At(p, "revoking")' \/ Trades(p)' => p # r /\ req'[p] = req[p]
  BY <1>1 DEF Others, At, Trades
<1>5. ASSUME NEW p \in Requests, At(p, "revoking")'
      PROVE  /\ req'[p].proof <= password'[req'[p].user]
             /\ \A t \in SessionIds : sessions'[t] # None /\ ~sessions'[t].revoked
                  /\ sessions'[t].user = req'[p].user /\ sessions'[t].proof < req'[p].proof =>
                     t \in req'[p].listed \/ sessions'[t].raced
             /\ \A q \in Requests : Trades(q)' /\ req'[q].user = req'[p].user
                  /\ req'[q].proof < req'[p].proof => req'[q].raced
  <2>1. At(p, "revoking") /\ req'[p] = req[p]
    BY <1>4, <1>5 DEF At
  <2>2. req'[p].proof <= password'[req'[p].user]
    BY <1>1, <2>1 DEF SelInv
  <2>3. ASSUME NEW t \in SessionIds, sessions'[t] # None, ~sessions'[t].revoked,
               sessions'[t].user = req'[p].user, sessions'[t].proof < req'[p].proof
        PROVE  t \in req'[p].listed \/ sessions'[t].raced
    <3>1. CASE t = s
      BY <1>2, <1>3, <2>1, <2>3, <3>1 DEF SelInv
    <3>2. CASE t # s
      BY <1>2, <2>1, <2>3, <3>2 DEF SelInv
    <3> QED BY <3>1, <3>2
  <2>4. \A q \in Requests : Trades(q)' /\ req'[q].user = req'[p].user
          /\ req'[q].proof < req'[p].proof => req'[q].raced
    <3> SUFFICES ASSUME NEW q \in Requests, Trades(q)', req'[q].user = req'[p].user,
                        req'[q].proof < req'[p].proof
                 PROVE  req'[q].raced
      OBVIOUS
    <3>1. Trades(q) /\ req'[q] = req[q]
      BY <1>4 DEF Trades
    <3> QED BY <2>1, <3>1 DEF SelInv
  <2> QED BY <2>2, <2>3, <2>4
<1> QED BY <1>5 DEF SelInv

LEMMA SelectKeepsSel ==
    ASSUME TypeInv, SessionsAssumption, SelInv, NEW r \in Requests, Select(r)
    PROVE  SelInv'
<1> DEFINE u == req[r].user
<1>1. UNCHANGED <<sessions, password>> /\ u \in Users
  BY DEF Select, At, TypeInv, LocalsOK
<1>2. /\ req'[r].pc = "revoking" /\ req'[r].listed = Listed(u) /\ req'[r].proof = password[u]
      /\ req'[r].user = u
  BY Announced
<1>3. password[u] \in Nat
  BY <1>1 DEF TypeInv, TypeOK, SessionsAssumption
<1>4. \A p \in Requests \ {r} :
        /\ req'[p].pc = req[p].pc /\ req'[p].user = req[p].user
        /\ req'[p].proof = req[p].proof /\ req'[p].listed = req[p].listed
        /\ req[p].raced => req'[p].raced
        /\ p \in Opening(u) => req'[p].raced
  <2> TAKE p \in Requests \ {r}
  <2>1. /\ req'[p].pc = req[p].pc /\ req'[p].user = req[p].user
        /\ req'[p].proof = req[p].proof /\ req'[p].listed = req[p].listed
        /\ p \in Opening(u) => req'[p].raced
        /\ p \notin Opening(u) => req'[p].raced = req[p].raced
    BY Announced
  <2> QED BY <2>1
<1>5. \A q \in Requests : Trades(q)' => q # r /\ Trades(q)
  BY <1>2, <1>4 DEF Trades
<1> HIDE DEF u
<1>6. ASSUME NEW p \in Requests, At(p, "revoking")'
      PROVE  /\ req'[p].proof <= password'[req'[p].user]
             /\ \A t \in SessionIds : sessions'[t] # None /\ ~sessions'[t].revoked
                  /\ sessions'[t].user = req'[p].user /\ sessions'[t].proof < req'[p].proof =>
                     t \in req'[p].listed \/ sessions'[t].raced
             /\ \A q \in Requests : Trades(q)' /\ req'[q].user = req'[p].user
                  /\ req'[q].proof < req'[p].proof => req'[q].raced
  <2>1. CASE p = r
    <3>1. req'[p].proof <= password'[req'[p].user]
      BY <1>1, <1>2, <1>3, <2>1
    <3>2. \A t \in SessionIds : sessions'[t] # None /\ ~sessions'[t].revoked
            /\ sessions'[t].user = u => t \in req'[p].listed
      BY <1>1, <1>2, <2>1 DEF Listed
    <3>3. \A q \in Requests : Trades(q)' /\ req'[q].user = u => req'[q].raced
      BY <1>4, <1>5 DEF Trades, Opening
    <3> QED BY <1>2, <2>1, <3>1, <3>2, <3>3
  <2>2. CASE p # r
    <3>1. /\ At(p, "revoking") /\ req'[p].user = req[p].user /\ req'[p].proof = req[p].proof
          /\ req'[p].listed = req[p].listed
      BY <1>4, <1>6, <2>2 DEF At
    <3>2. \A q \in Requests : Trades(q)' =>
            /\ Trades(q) /\ req'[q].user = req[q].user /\ req'[q].proof = req[q].proof
            /\ req[q].raced => req'[q].raced
      BY <1>4, <1>5
    <3> QED BY <1>1, <3>1, <3>2 DEF SelInv
  <2> QED BY <2>1, <2>2
<1> QED BY <1>6 DEF SelInv

LEMMA SelStep == TypeInv /\ SelInv /\ [Next]_vars => SelInv'
<1> SUFFICES ASSUME TypeInv, SelInv, [Next]_vars PROVE SelInv'
  OBVIOUS
<1> USE SessionsAssumption
<1>0. /\ TypeOK /\ password \in [Users -> 0..MaxPassword] /\ password \in [Users -> Nat]
      /\ \A u \in Users : password[u] <= password[u]
  BY DEF TypeInv, TypeOK, SessionsAssumption
<1>1. ASSUME NEW r \in Requests, NEW u \in Users, Login(r, u) PROVE SelInv'
  <2>1. UNCHANGED <<sessions, password>>
    BY <1>1 DEF Login
  <2>2. /\ Others(r) /\ req'[r].pc = "open" /\ req'[r].user = u /\ req'[r].proof = password[u]
    BY <1>1, LoginBegins
  <2>3. \A p \in Requests \ {r} : req'[p] = req[p]
    BY <2>2 DEF Others
  <2>4. ~At(r, "revoking")'
    BY <2>2 DEF At
  <2> QED BY <2>1, <2>2, <2>3, <2>4, TraderKeepsSel
<1>2. ASSUME NEW r \in Requests,
             \/ \E u \in Users : \E kind \in {"reset", "verify"} : Ask(r, u, kind)
             \/ \E s \in SessionIds : Logout(r, s)
             \/ \E t \in Tokens : Confirm(r, t)
             \/ Close(r) \/ Issue(r) \/ Mail(r) \/ MarkExpired(r) \/ Apply(r) \/ RevokeSome(r)
             \/ Use(r) \/ Abandon(r)
      PROVE  SelInv'
  <2>1. Others(r) /\ ~Trades(r)' /\ req'[r].pc # "revoking" /\ SessionsStay
    BY <1>2, AsideSteps DEF Trades
  <2>2. password' \in [Users -> Nat] /\ \A u \in Users : password[u] <= password'[u]
    <3>1. CASE UNCHANGED password
      BY <1>0, <3>1
    <3>2. CASE password' # password
      <4>1. Apply(r)
        BY <1>2, <3>2 DEF Ask, Logout, Confirm, Close, Issue, Mail, MarkExpired, RevokeSome, Use,
           Abandon
      <4>2. password' = [password EXCEPT ![req[r].user] = @ + 1]
        BY <3>2, <4>1 DEF Apply
      <4>3. req[r].user \in Users
        BY <4>1 DEF Apply, At, TypeInv, LocalsOK
      <4> DEFINE v == req[r].user
      <4>4. v \in Users /\ password' = [password EXCEPT ![v] = @ + 1]
        BY <4>2, <4>3
      <4> HIDE DEF v
      <4>5. ASSUME NEW u \in Users PROVE password'[u] \in Nat /\ password[u] <= password'[u]
        BY <1>0, <4>4
      <4>6. password' = [u \in Users |-> password'[u]]
        BY <1>0, <4>4
      <4> QED BY <4>5, <4>6
    <3> QED BY <3>1, <3>2
  <2>3. LookedUpStays
    BY <2>1, OthersLookedUp DEF At
  <2> QED BY <2>1, <2>2, <2>3, SelStays
<1>3. ASSUME NEW r \in Requests, NEW s \in SessionIds, Refresh(r, s) PROVE SelInv'
  <2>1. UNCHANGED <<sessions, password>>
    BY <1>3 DEF Refresh
  <2>2. /\ req'[r].pc = "rotate" /\ req'[r].user = sessions[s].user
        /\ Revoking(sessions[s].user) # {} => req'[r].raced
    BY <1>0, <1>3, Refreshing
  <2>3. \A p \in Requests \ {r} :
          /\ req'[p].pc = req[p].pc /\ req'[p].user = req[p].user
          /\ req'[p].proof = req[p].proof /\ req'[p].listed = req[p].listed
          /\ req'[p].raced = req[p].raced
    BY <1>0, <1>3, Refreshing
  <2>4. \A p \in Requests : At(p, "revoking") /\ req[p].user = req'[r].user => req'[r].raced
    BY <2>2 DEF Revoking
  <2>5. ~At(r, "revoking")'
    BY <2>2 DEF At
  <2> QED BY <2>1, <2>3, <2>4, <2>5, TraderKeepsSel
<1>4. ASSUME NEW r \in Requests, Rotate(r) PROVE SelInv'
  <2>1. req[r].of \in SessionIds /\ sessions[req[r].of] # None /\ Trades(r)
    BY <1>4 DEF Rotate, At, TypeInv, LocalsOK, Trades
  <2>2. SessionsStay /\ UNCHANGED password
    BY <1>0, <1>4, <2>1, SavingRevoked DEF Rotate
  <2>3. /\ Others(r) /\ req'[r].pc = "open" /\ req'[r].user = req[r].user
        /\ req'[r].proof = req[r].proof /\ req'[r].raced = req[r].raced
    BY <1>0, <1>4, Going DEF Rotate, Pcs
  <2>4. LookedUpStays
    BY <2>1, <2>3 DEF LookedUpStays, Others, At, Trades
  <2> QED BY <1>0, <2>2, <2>4, SelStays
<1>5. ASSUME NEW r \in Requests, Revoke(r) PROVE SelInv'
  <2>1. SessionsStay /\ UNCHANGED password
    BY <1>0, <1>5, RevokingRows DEF Revoke
  <2>2. req'[r].pc = "use"
    BY <1>5, Announced
  <2>3. \A p \in Requests \ {r} :
          /\ req'[p].pc = req[p].pc /\ req'[p].user = req[p].user
          /\ req'[p].proof = req[p].proof /\ req'[p].listed = req[p].listed
          /\ req[p].raced => req'[p].raced
    <3> TAKE p \in Requests \ {r}
    <3>1. /\ req'[p].pc = req[p].pc /\ req'[p].user = req[p].user
          /\ req'[p].proof = req[p].proof /\ req'[p].listed = req[p].listed
          /\ p \in Opening(req[r].user) => req'[p].raced
          /\ p \notin Opening(req[r].user) => req'[p].raced = req[p].raced
      BY <1>5, Announced
    <3> QED BY <3>1
  <2>4. LookedUpStays
    BY <2>2, <2>3 DEF LookedUpStays, At, Trades
  <2> QED BY <1>0, <2>1, <2>4, SelStays
<1>6. CASE Seed
  <2>1. UNCHANGED <<sessions, req>>
    BY <1>6 DEF Seed
  <2>2. password' \in [Users -> Nat] /\ \A u \in Users : password[u] <= password'[u]
    BY <1>0, <1>6 DEF Seed
  <2>3. SessionsStay /\ LookedUpStays
    BY <1>0, <2>1, SessionsUnchanged DEF LookedUpStays, At, Trades
  <2> QED BY <2>2, <2>3, SelStays
<1>7. ASSUME UNCHANGED <<sessions, req, password>> PROVE SelInv'
  BY <1>7 DEF SelInv, Trades, At
<1>8. UNCHANGED vars \/ (\E x \in SessionIds \union Tokens : Elapse(x)) => SelInv'
  BY <1>7 DEF Elapse, vars
<1> QED BY <1>1, <1>2, <1>3, <1>4, <1>5, <1>6, <1>8, OpenKeepsSel, SelectKeepsSel DEF Next

\* A session proved with a former password is over, but for the races named:
\* auth.py saves a session without looking at the password again, and
\* auth_repository.py revokes the sessions it looked up in a SELECT before.
THEOREM PasswordCorrect == Spec => []SessionsEndWithPassword
<1>1. Init => TypeInv /\ PassInv /\ SelInv
  <2>1. Idle.pc = "idle"
    BY DEF Idle
  <2> QED BY <2>1, InitTyped DEF Init, PassInv, SelInv, Trades, At
<1>2. (TypeInv /\ PassInv /\ SelInv) /\ [Next]_vars => (TypeInv /\ PassInv /\ SelInv)'
  BY NextTyped, PassStep, SelStep
<1>3. PassInv => SessionsEndWithPassword
  BY DEF PassInv, SessionsEndWithPassword, Alive, FoundSession
<1> QED BY <1>1, <1>2, <1>3, PTL DEF Spec

-----------------------------------------------------------------------------
(* Tokens work once *)

Holds(p, t) == req[p].pc \in {"apply", "revoke", "revoking", "use"} /\ req[p].of = t

\* One request holds a token; before it applies it the token has not worked,
\* and it lets go of it as used.
TokenOnce(t) ==
    /\ \A p, q \in Requests : Holds(p, t) /\ Holds(q, t) => p = q
    /\ spent[t] <= 1
    /\ \A p \in Requests : Holds(p, t) /\ req[p].pc = "apply" => spent[t] = 0
    /\ (spent[t] = 1 /\ \A p \in Requests : ~Holds(p, t)) => tokens[t].status # "pending"

TokInv == \A t \in Tokens :
    /\ tokens[t] = None => spent[t] = 0
    /\ t \notin reread => TokenOnce(t)

\* Who holds what is as before, and no token becomes pending again.
HoldsStay == \A p \in Requests, t \in Tokens :
    /\ Holds(p, t)' <=> Holds(p, t)
    /\ Holds(p, t) /\ req'[p].pc = "apply" => req[p].pc = "apply"
NeverPending == \A t \in Tokens :
    /\ tokens'[t] = None => tokens[t] = None
    /\ spent[t] = 0 \/ tokens'[t].status = tokens[t].status \/ tokens'[t].status # "pending"

LEMMA TokStays ==
    ASSUME TypeInv, TokInv, HoldsStay, NeverPending, UNCHANGED spent, reread \subseteq reread'
    PROVE  TokInv'
<1> SUFFICES ASSUME NEW t \in Tokens
             PROVE  /\ tokens'[t] = None => spent'[t] = 0
                    /\ t \notin reread' => TokenOnce(t)'
  BY DEF TokInv
<1>1. tokens'[t] = None => spent'[t] = 0
  BY DEF TokInv, NeverPending
<1>2. ASSUME t \notin reread' PROVE TokenOnce(t)'
  <2>1. TokenOnce(t)
    BY <1>2 DEF TokInv
  <2>2. \A p \in Requests : /\ Holds(p, t)' <=> Holds(p, t)
                            /\ Holds(p, t) /\ req'[p].pc = "apply" => req[p].pc = "apply"
    BY DEF HoldsStay
  <2>3. \A p, q \in Requests : Holds(p, t)' /\ Holds(q, t)' => p = q
    BY <2>1, <2>2 DEF TokenOnce
  <2>4. \A p \in Requests : Holds(p, t)' /\ req'[p].pc = "apply" => spent'[t] = 0
    BY <2>1, <2>2 DEF TokenOnce
  <2>5. (spent'[t] = 1 /\ \A p \in Requests : ~Holds(p, t)') => tokens'[t].status # "pending"
    BY <2>1, <2>2 DEF TokenOnce, NeverPending
  <2> QED BY <2>1, <2>3, <2>4, <2>5 DEF TokenOnce
<1> QED BY <1>1, <1>2

\* A request that holds no token before or after leaves the holders alone.
LEMMA HoldersStay ==
    ASSUME NEW r \in Requests, Others(r),
           req[r].pc \notin {"apply", "revoke", "revoking", "use"},
           req'[r].pc \notin {"apply", "revoke", "revoking", "use"}
    PROVE  HoldsStay
<1> SUFFICES ASSUME NEW p \in Requests, NEW t \in Tokens
             PROVE  /\ Holds(p, t)' <=> Holds(p, t)
                    /\ Holds(p, t) /\ req'[p].pc = "apply" => req[p].pc = "apply"
  BY DEF HoldsStay
<1>1. CASE p = r
  BY <1>1 DEF Holds
<1>2. CASE p # r
  BY <1>2 DEF Holds, Others
<1> QED BY <1>1, <1>2

\* What a token that one request lets go of, or takes up, is to the others.
LEMMA OthersHold ==
    ASSUME NEW r \in Requests, Others(r)
    PROVE  \A p \in Requests \ {r} : /\ req'[p].pc = req[p].pc
                                     /\ \A t \in Tokens : Holds(p, t)' <=> Holds(p, t)
BY DEF Others, Holds

LEMMA HoldingHolds == \A t \in Tokens : \A p \in Requests : p \in Holding(t) <=> Holds(p, t)
BY DEF Holding, Holds

LEMMA ConfirmKeepsTok ==
    ASSUME TypeInv, SessionsAssumption, TokInv, NEW r \in Requests, NEW t \in Tokens, Confirm(r, t)
    PROVE  TokInv'
<1>1. /\ UNCHANGED <<tokens, spent>> /\ tokens[t] # None /\ tokens[t].status = "pending"
      /\ reread' = reread \union {x \in {t} : Holding(t) # {}} /\ req[r].pc = "idle"
  BY DEF Confirm, Usable, FoundToken, At
<1>2. Others(r) /\ req'[r].pc \in {"expire", "apply"} /\ req'[r].of = t
  BY ConfirmBegins
<1>3. \A p \in Requests \ {r} : /\ req'[p].pc = req[p].pc
                                /\ \A x \in Tokens : Holds(p, x)' <=> Holds(p, x)
  BY <1>2, OthersHold
<1>4. \A x \in Tokens : ~Holds(r, x) /\ (Holds(r, x)' => x = t)
  BY <1>1, <1>2 DEF Holds
<1>5. ASSUME NEW x \in Tokens, x \notin reread', x # t PROVE TokenOnce(x)'
  <2>1. TokenOnce(x)
    BY <1>1, <1>5 DEF TokInv
  <2>2. \A p \in Requests : /\ Holds(p, x)' <=> Holds(p, x)
                            /\ Holds(p, x) => req'[p].pc = req[p].pc
    BY <1>3, <1>4, <1>5
  <2> QED BY <1>1, <2>1, <2>2 DEF TokenOnce
<1>6. ASSUME t \notin reread' PROVE TokenOnce(t)'
  <2>1. TokenOnce(t) /\ \A p \in Requests : ~Holds(p, t)
    BY <1>1, <1>6, HoldingHolds DEF TokInv
  <2>2. spent[t] \in Nat
    BY DEF TypeInv, TypeOK
  <2>3. spent'[t] = 0
    BY <1>1, <2>1, <2>2 DEF TokenOnce
  <2>4. \A p \in Requests : Holds(p, t)' => p = r
    BY <1>3, <2>1
  <2> QED BY <2>3, <2>4 DEF TokenOnce
<1> QED BY <1>1, <1>5, <1>6 DEF TokInv

LEMMA ApplyKeepsTok ==
    ASSUME TypeInv, SessionsAssumption, TokInv, NEW r \in Requests, Apply(r)
    PROVE  TokInv'
<1>0. req[r].of \in Tokens /\ tokens[req[r].of] # None /\ req[r].pc = "apply"
  BY DEF Apply, At, TypeInv, LocalsOK
<1> PICK t \in Tokens : t = req[r].of
  BY <1>0
<1>1. tokens[t] # None /\ req[r].pc = "apply" /\ Holds(r, t)
  BY <1>0 DEF Holds
<1>2. UNCHANGED <<tokens, reread>> /\ spent' = [spent EXCEPT ![t] = @ + 1]
  BY DEF Apply
<1>3. Goto(r, "revoke") \/ Goto(r, "use")
  BY DEF Apply
<1>4. Others(r) /\ req'[r].pc \in {"revoke", "use"} /\ req'[r].of = t
  BY <1>3, Going DEF TypeInv, Pcs
<1>5. \A p \in Requests \ {r} : /\ req'[p].pc = req[p].pc
                                /\ \A x \in Tokens : Holds(p, x)' <=> Holds(p, x)
  BY <1>4, OthersHold
<1>6. \A x \in Tokens : (Holds(r, x) <=> x = t) /\ (Holds(r, x)' <=> x = t)
  BY <1>1, <1>4 DEF Holds
<1>7. spent \in [Tokens -> Nat]
  BY DEF TypeInv, TypeOK
<1>8. ASSUME NEW x \in Tokens, x # t
      PROVE  /\ spent'[x] = spent[x]
             /\ x \notin reread' => TokenOnce(x)'
  <2>1. spent'[x] = spent[x]
    BY <1>2, <1>7, <1>8
  <2>2. \A p \in Requests : /\ Holds(p, x)' <=> Holds(p, x)
                            /\ Holds(p, x) => req'[p].pc = req[p].pc
    BY <1>5, <1>6, <1>8
  <2>3. ASSUME x \notin reread' PROVE TokenOnce(x)'
    <3>1. TokenOnce(x)
      BY <1>2, <2>3 DEF TokInv
    <3> QED BY <1>2, <2>1, <2>2, <3>1 DEF TokenOnce
  <2> QED BY <2>1, <2>3
<1>9. ASSUME t \notin reread' PROVE TokenOnce(t)'
  <2>1. TokenOnce(t)
    BY <1>1, <1>2, <1>9 DEF TokInv
  <2>2. \A p \in Requests : Holds(p, t)' => p = r
    BY <1>1, <1>5, <2>1 DEF TokenOnce
  <2>3. spent'[t] = 1
    BY <1>1, <1>2, <1>7, <2>1 DEF TokenOnce
  <2>4. Holds(r, t)' /\ req'[r].pc # "apply"
    BY <1>4 DEF Holds
  <2> QED BY <2>2, <2>3, <2>4 DEF TokenOnce
<1> QED BY <1>1, <1>2, <1>8, <1>9 DEF TokInv

\* A request lets go of its token: as used, or as one that was read twice.
LEMMA LettingGo ==
    ASSUME TypeInv, SessionsAssumption, TokInv, NEW r \in Requests, Others(r), req'[r].pc = "idle",
           UNCHANGED spent, reread \subseteq reread',
           NeverPending,
           \A t \in Tokens : Holds(r, t) => t \in reread' \/ tokens'[t].status # "pending"
    PROVE  TokInv'
<1>1. \A p \in Requests \ {r} : /\ req'[p].pc = req[p].pc
                                /\ \A x \in Tokens : Holds(p, x)' <=> Holds(p, x)
  BY OthersHold
<1>2. \A x \in Tokens : ~Holds(r, x)'
  BY DEF Holds
<1>3. ASSUME NEW x \in Tokens, x \notin reread' PROVE TokenOnce(x)'
  <2>1. TokenOnce(x)
    BY <1>3 DEF TokInv
  <2>2. \A p \in Requests : Holds(p, x)' => Holds(p, x) /\ req'[p].pc = req[p].pc
    BY <1>1, <1>2
  <2>3. (spent'[x] = 1 /\ \A p \in Requests : ~Holds(p, x)') => tokens'[x].status # "pending"
    <3>1. CASE Holds(r, x)
      BY <1>3, <3>1
    <3>2. CASE ~Holds(r, x)
      BY <1>1, <2>1, <3>2 DEF TokenOnce, NeverPending
    <3> QED BY <3>1, <3>2
  <2> QED BY <2>1, <2>2, <2>3 DEF TokenOnce
<1>4. \A x \in Tokens : tokens'[x] = None => spent'[x] = 0
  BY DEF TokInv, NeverPending
<1> QED BY <1>3, <1>4 DEF TokInv

LEMMA TokStep == TypeInv /\ TokInv /\ [Next]_vars => TokInv'
<1> SUFFICES ASSUME TypeInv, TokInv, [Next]_vars PROVE TokInv'
  OBVIOUS
<1> USE SessionsAssumption
<1>0. TypeOK
  BY DEF TypeInv
<1>a. UNCHANGED tokens => NeverPending
  BY DEF NeverPending
<1>1. ASSUME NEW r \in Requests,
             \/ \E u \in Users : Login(r, u) \/ \E kind \in {"reset", "verify"} : Ask(r, u, kind)
             \/ \E s \in SessionIds : Logout(r, s)
             \/ Rotate(r) \/ Open(r) \/ Close(r)
      PROVE  TokInv'
  <2>1. UNCHANGED <<tokens, spent, reread>>
    BY <1>1 DEF Login, Ask, Logout, Rotate, Open, Close
  <2>2. req[r].pc \notin {"apply", "revoke", "revoking", "use"}
    BY <1>1 DEF Login, Ask, Logout, Rotate, Open, Close, At
  <2>3. Others(r) /\ req'[r].pc \notin {"apply", "revoke", "revoking", "use"}
    <3>1. CASE \E u \in Users : Login(r, u)
      BY <3>1, LoginBegins
    <3>2. CASE \E u \in Users : \E kind \in {"reset", "verify"} : Ask(r, u, kind)
      BY <3>2, AskBegins
    <3>3. CASE \E s \in SessionIds : Logout(r, s)
      BY <3>3, LogoutBegins
    <3>4. CASE Rotate(r)
      BY <1>0, <3>4, Going DEF Rotate, Pcs
    <3>5. CASE Open(r) \/ Close(r)
      BY <1>0, <3>5, Ending DEF Open, Close
    <3> QED BY <1>1, <3>1, <3>2, <3>3, <3>4, <3>5
  <2> QED BY <1>a, <2>1, <2>2, <2>3, HoldersStay, TokStays
<1>2. ASSUME NEW r \in Requests, NEW s \in SessionIds, Refresh(r, s) PROVE TokInv'
  <2>1. UNCHANGED <<tokens, spent, reread>> /\ req[r].pc = "idle" /\ req'[r].pc = "rotate"
    BY <1>0, <1>2, Refreshing DEF Refresh, At
  <2>2. \A p \in Requests \ {r} : req'[p].pc = req[p].pc /\ req'[p].of = req[p].of
    BY <1>0, <1>2, Refreshing
  <2>3. HoldsStay
    BY <2>1, <2>2 DEF HoldsStay, Holds
  <2> QED BY <1>a, <2>1, <2>3, TokStays
<1>3. ASSUME NEW r \in Requests, Issue(r) PROVE TokInv'
  <2>1. PICK t \in Tokens :
          /\ tokens[t] = None /\ tokens'[t] # None
          /\ \A x \in Tokens \ {t} : tokens'[x] = tokens[x]
          /\ Others(r) /\ req'[r].pc = "mail"
    BY <1>3, Issuing
  <2>2. UNCHANGED <<spent, reread>> /\ req[r].pc = "issue"
    BY <1>3 DEF Issue, At
  <2>3. NeverPending
    BY <2>1 DEF NeverPending, TokInv
  <2> QED BY <2>1, <2>2, <2>3, HoldersStay, TokStays
<1>4. ASSUME NEW r \in Requests, Mail(r) PROVE TokInv'
  <2>1. UNCHANGED <<spent, reread>> /\ req[r].pc = "mail"
    BY <1>4 DEF Mail, At
  <2>2. Others(r) /\ req'[r].pc = "idle"
    BY <1>0, <1>4, Ending DEF Mail
  <2>3. NeverPending
    <3>1. \A x \in Tokens : /\ tokens'[x] = None <=> tokens[x] = None
                            /\ tokens[x] # None => tokens'[x].status = tokens[x].status
      BY <1>4, Mailing
    <3> QED BY <3>1 DEF NeverPending, TokInv
  <2> QED BY <2>1, <2>2, <2>3, HoldersStay, TokStays
<1>5. ASSUME NEW r \in Requests, MarkExpired(r) PROVE TokInv'
  <2>1. /\ req[r].of \in Tokens /\ tokens[req[r].of] # None /\ req[r].pc = "expire"
        /\ UNCHANGED <<spent, reread>>
    BY <1>5 DEF MarkExpired, At, TypeInv, LocalsOK
  <2>2. Others(r) /\ req'[r].pc = "idle"
    BY <1>0, <1>5, Ending DEF MarkExpired
  <2>3. NeverPending
    BY <1>0, <1>5, <2>1, SavingToken DEF MarkExpired, NeverPending, TokensStay
  <2> QED BY <2>1, <2>2, <2>3, HoldersStay, TokStays
<1>6. ASSUME NEW r \in Requests, Select(r) \/ Revoke(r) PROVE TokInv'
  <2>1. UNCHANGED <<tokens, spent, reread>> /\ req[r].pc \in {"revoke", "revoking"}
    BY <1>6, Announced DEF Select, Revoke
  <2>2. req'[r].pc \in {"revoking", "use"} /\ req'[r].of = req[r].of
    BY <1>6, Announced
  <2>3. \A p \in Requests \ {r} : req'[p].pc = req[p].pc /\ req'[p].of = req[p].of
    BY <1>6, Announced
  <2>4. HoldsStay
    BY <2>1, <2>2, <2>3 DEF HoldsStay, Holds
  <2> QED BY SMTT(30), <1>a, <2>1, <2>4, TokStays
<1>7. ASSUME NEW r \in Requests, Use(r) PROVE TokInv'
  <2>1. /\ req[r].of \in Tokens /\ tokens[req[r].of] # None /\ UNCHANGED <<spent, reread>>
    BY <1>7 DEF Use, At, TypeInv, LocalsOK
  <2>2. Others(r) /\ req'[r].pc = "idle"
    BY <1>0, <1>7, Ending DEF Use
  <2>3. /\ TokensStay /\ tokens'[req[r].of].status = "used"
        /\ \A x \in Tokens \ {req[r].of} : tokens'[x] = tokens[x]
    BY <1>0, <1>7, <2>1, SavingToken DEF Use
  <2>4. NeverPending
    BY <2>1, <2>3 DEF NeverPending, TokensStay
  <2>5. \A t \in Tokens : Holds(r, t) => tokens'[t].status # "pending"
    BY <2>3 DEF Holds
  <2> QED BY <2>1, <2>2, <2>4, <2>5, LettingGo
<1>8. ASSUME NEW r \in Requests, RevokeSome(r) PROVE TokInv'
  <2>1. UNCHANGED <<spent, tokens>> /\ reread' = reread \union {req[r].of}
    BY <1>8 DEF RevokeSome
  <2>2. Others(r) /\ req'[r].pc = "idle"
    BY <1>0, <1>8, Ending DEF RevokeSome
  <2>3. \A t \in Tokens : Holds(r, t) => t \in reread'
    BY <2>1 DEF Holds
  <2> QED BY <1>a, <2>1, <2>2, <2>3, LettingGo
<1>9. ASSUME NEW r \in Requests, Abandon(r) PROVE TokInv'
  <2>1. UNCHANGED <<spent, tokens>> /\ reread' = reread \union {t \in Tokens : r \in Holding(t)}
    BY <1>9 DEF Abandon
  <2>2. Others(r) /\ req'[r].pc = "idle"
    BY <1>0, <1>9, Ending DEF Abandon
  <2>3. \A t \in Tokens : Holds(r, t) => t \in reread'
    BY <2>1, HoldingHolds
  <2> QED BY <1>a, <2>1, <2>2, <2>3, LettingGo
<1>10. ASSUME UNCHANGED <<tokens, req, spent, reread>> PROVE TokInv'
  BY <1>10 DEF TokInv, TokenOnce, Holds
<1>11. Seed \/ UNCHANGED vars \/ (\E x \in SessionIds \union Tokens : Elapse(x)) => TokInv'
  BY <1>10 DEF Seed, Elapse, vars
<1> QED
  BY <1>1, <1>2, <1>3, <1>4, <1>5, <1>6, <1>7, <1>8, <1>9, <1>11, ConfirmKeepsTok, ApplyKeepsTok
  DEF Next

LEMMA TokHolds == TypeInv /\ TokInv => TokensWorkOnce
<1> SUFFICES ASSUME TypeInv, TokInv, NEW t \in Tokens, t \notin reread
             PROVE  spent[t] <= 1 /\ (spent[t] = 1 /\ Holding(t) = {} => ~Usable(t))
  BY DEF TokensWorkOnce
<1>1. TokenOnce(t)
  BY DEF TokInv
<1>2. Holding(t) = {} => \A p \in Requests : ~Holds(p, t)
  BY HoldingHolds
<1> QED BY <1>1, <1>2 DEF TokenOnce, Usable

\* A recovery token works once, unless two requests held it at the same time
\* or one died holding it.
THEOREM TokensCorrect == Spec => []TokensWorkOnce
<1>1. Init => TypeInv /\ TokInv
  <2>1. Idle.pc = "idle"
    BY DEF Idle
  <2> QED BY <2>1, InitTyped DEF Init, TokInv, TokenOnce, Holds
<1>2. (TypeInv /\ TokInv) /\ [Next]_vars => (TypeInv /\ TokInv)'
  BY NextTyped, TokStep
<1> QED BY <1>1, <1>2, TokHolds, PTL DEF Spec
=============================================================================
