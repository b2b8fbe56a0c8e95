------------------------------ MODULE Sessions ------------------------------
(***************************************************************************)
(* Sessions, passwords and the tokens that recover an account.             *)
(*                                                                         *)
(* Every request is a sequence of repository calls, each a transaction of  *)
(* its own: what it read at first may no longer hold when it writes.  A    *)
(* request may die between two of them (Abandon).                          *)
(***************************************************************************)
EXTENDS Naturals, FiniteSets

CONSTANTS
    Users, SeedUsers,   \* accounts; those scripts/seed_demo.py writes again
    SessionIds, Tokens, \* rows that may come to exist
    Requests,           \* API threads
    None,
    MaxPassword,        \* bound: passwords an account ever has
    MaxCalls,           \* bound: requests ever made
    MaxElapsed          \* bound: sessions and tokens whose time runs out

\* A session: the password its first login gave, the session it replaced,
\* whether its account's sessions were revoked while it was being opened,
\* and whether its refresh token was read by two requests at once.
Session == [user : Users, proof : 0..MaxPassword, parent : SessionIds \union {None},
            raced : BOOLEAN, shared : BOOLEAN, revoked : BOOLEAN]
Token == [user : Users, kind : {"reset", "verify"}, status : {"pending", "used", "expired"},
          known : BOOLEAN]

ASSUME SessionsAssumption ==
    /\ SeedUsers \subseteq Users /\ None \notin Users \union SessionIds \union Tokens
    /\ None \notin Session /\ None \notin Token
    /\ SessionIds \intersect Tokens = {}
    /\ MaxPassword \in Nat /\ MaxCalls \in Nat /\ MaxElapsed \in Nat

VARIABLES
    backend,    \* "postgres" or "memory", for good
    password,   \* which of its passwords an account has now
    verified,   \* accounts whose address is verified
    sessions,   \* the session rows
    tokens,     \* the recovery tokens, of both kinds
    elapsed,    \* sessions and tokens past their expires_at
    req,        \* what each request is doing
    calls,      \* requests made so far
    unrevoked,  \* accounts whose password changed since those of their sessions
                \* that were last revoked were looked up
    spent,      \* how often a token has done what it is for
    reread      \* tokens read as pending by two requests, or by one that died

vars == <<backend, password, verified, sessions, tokens, elapsed, req, calls,
          unrevoked, spent, reread>>

Idle == [pc |-> "idle", kind |-> "none", user |-> None, of |-> None,
         proof |-> 0, raced |-> FALSE, shared |-> FALSE, listed |-> {}]

\* A row is looked up by the hash of a token, so by whoever has the token.
FoundSession(s) == sessions[s] # None
FoundToken(t) == tokens[t] # None /\ tokens[t].known
Alive(s) == FoundSession(s) /\ ~sessions[s].revoked /\ s \notin elapsed
Usable(t) == FoundToken(t) /\ tokens[t].status = "pending"

\* Saving merges the copy the request holds; all that changes is one field.
SaveRevoked(s) == sessions' = [sessions EXCEPT ![s].revoked = TRUE]
SaveToken(t, status) == tokens' = [tokens EXCEPT ![t].status = status]

Begin(r, pc, kind, u, x, proof, raced, shared) ==
    [req EXCEPT ![r] = [pc |-> pc, kind |-> kind, user |-> u, of |-> x,
                        proof |-> proof, raced |-> raced, shared |-> shared,
                        listed |-> {}]]
Counted == calls < MaxCalls /\ calls' = calls + 1
At(r, pc) == req[r].pc = pc
Goto(r, pc) == req' = [req EXCEPT ![r].pc = pc]
Done(r) == req' = [req EXCEPT ![r] = Idle]

-----------------------------------------------------------------------------
(* Login, refresh and logout *)

\* The password is right now; the session is saved later.
Login(r, u) ==
    /\ At(r, "idle") /\ Counted
    /\ req' = Begin(r, "open", "login", u, None, password[u], FALSE, FALSE)
    /\ UNCHANGED <<backend, password, verified, sessions, tokens, elapsed,
                   unrevoked, spent, reread>>

\* Requests that revoke an account's sessions and have looked them up.
Revoking(u) == {p \in Requests : At(p, "revoking") /\ req[p].user = u}

\* Requests that have read the same session and not yet saved it as revoked.
Rotating(s) == {p \in Requests : At(p, "rotate") /\ req[p].of = s}

Refresh(r, s) ==
    LET others == Rotating(s)
        marked == [p \in Requests |-> IF p \in others THEN [req[p] EXCEPT !.shared = TRUE]
                                                      ELSE req[p]]
    IN /\ At(r, "idle") /\ Counted
       /\ Alive(s)
       /\ req' = [marked EXCEPT ![r] =
                    [pc |-> "rotate", kind |-> "refresh", user |-> sessions[s].user, of |-> s,
                     proof |-> sessions[s].proof,
                     raced |-> sessions[s].raced \/ Revoking(sessions[s].user) # {},
                     shared |-> others # {}, listed |-> {}]]
       /\ UNCHANGED <<backend, password, verified, sessions, tokens, elapsed,
                      unrevoked, spent, reread>>

\* (Mutant: the object is changed and not saved.)
RotateUnsaved(r) ==
    /\ At(r, "rotate")
    /\ Goto(r, "open")
    /\ UNCHANGED <<backend, password, verified, sessions, tokens, elapsed, calls,
                   unrevoked, spent, reread>>
Rotate(r) ==
    /\ At(r, "rotate")
    /\ SaveRevoked(req[r].of)
    /\ Goto(r, "open")
    /\ UNCHANGED <<backend, password, verified, tokens, elapsed, calls,
                   unrevoked, spent, reread>>

\* (Mutant: the new session is saved under the old session's id, not a user's.)
OpenForNobody(r) ==
    /\ At(r, "open")
    /\ \E s \in SessionIds :
         /\ sessions[s] = None
         /\ sessions' = [sessions EXCEPT ![s] =
              [user |-> req[r].of, proof |-> req[r].proof, parent |-> req[r].of,
               raced |-> req[r].raced, shared |-> req[r].shared, revoked |-> FALSE]]
    /\ Done(r)
    /\ UNCHANGED <<backend, password, verified, tokens, elapsed, calls,
                   unrevoked, spent, reread>>
Open(r) ==
    /\ At(r, "open")
    /\ \E s \in SessionIds :
         /\ sessions[s] = None
         /\ sessions' = [sessions EXCEPT ![s] =
              [user |-> req[r].user, proof |-> req[r].proof, parent |-> req[r].of,
               raced |-> req[r].raced, shared |-> req[r].shared, revoked |-> FALSE]]
    /\ Done(r)
    /\ UNCHANGED <<backend, password, verified, tokens, elapsed, calls,
                   unrevoked, spent, reread>>

\* An expired session is closed all the same.
Logout(r, s) ==
    /\ At(r, "idle") /\ Counted
    /\ FoundSession(s) /\ ~sessions[s].revoked
    /\ req' = Begin(r, "close", "logout", sessions[s].user, s, 0, FALSE, FALSE)
    /\ UNCHANGED <<backend, password, verified, sessions, tokens, elapsed,
                   unrevoked, spent, reread>>

Close(r) ==
    /\ At(r, "close")
    /\ SaveRevoked(req[r].of)
    /\ Done(r)
    /\ UNCHANGED <<backend, password, verified, tokens, elapsed, calls,
                   unrevoked, spent, reread>>

-----------------------------------------------------------------------------
(* Password reset and address verification *)

Ask(r, u, kind) ==
    /\ At(r, "idle") /\ Counted
    /\ req' = Begin(r, "issue", kind, u, None, 0, FALSE, FALSE)
    /\ UNCHANGED <<backend, password, verified, sessions, tokens, elapsed,
                   unrevoked, spent, reread>>

Issue(r) ==
    /\ At(r, "issue")
    /\ \E t \in Tokens :
         /\ tokens[t] = None
         /\ tokens' = [tokens EXCEPT ![t] = [user |-> req[r].user, kind |-> req[r].kind,
                                             status |-> "pending", known |-> FALSE]]
         /\ req' = Begin(r, "mail", req[r].kind, req[r].user, t, 0, FALSE, FALSE)
    /\ UNCHANGED <<backend, password, verified, sessions, elapsed, calls,
                   unrevoked, spent, reread>>

\* The raw token exists nowhere but in the mail (and, to verify an address,
\* in the answer).
Mail(r) ==
    /\ At(r, "mail")
    /\ tokens' = [tokens EXCEPT ![req[r].of].known = TRUE]
    /\ Done(r)
    /\ UNCHANGED <<backend, password, verified, sessions, elapsed, calls,
                   unrevoked, spent, reread>>

\* Requests that have read the token as pending and not yet saved it as used.
Holding(t) == {p \in Requests : req[p].pc \in {"apply", "revoke", "revoking", "use"} /\ req[p].of = t}

\* (Mutant: a token that was used is taken again.)
ConfirmUsed(r, t) ==
    /\ At(r, "idle") /\ Counted
    /\ FoundToken(t)
    /\ req' = Begin(r, "apply", tokens[t].kind, tokens[t].user, t, 0, FALSE, FALSE)
    /\ reread' = reread \union {x \in {t} : Holding(t) # {}}
    /\ UNCHANGED <<backend, password, verified, sessions, tokens, elapsed, unrevoked, spent>>
Confirm(r, t) ==
    /\ At(r, "idle") /\ Counted
    /\ Usable(t)
    /\ req' = Begin(r, IF t \in elapsed THEN "expire" ELSE "apply",
                    tokens[t].kind, tokens[t].user, t, 0, FALSE, FALSE)
    /\ reread' = reread \union {x \in {t} : Holding(t) # {}}
    /\ UNCHANGED <<backend, password, verified, sessions, tokens, elapsed, unrevoked, spent>>

MarkExpired(r) ==
    /\ At(r, "expire")
    /\ SaveToken(req[r].of, "expired")
    /\ Done(r)
    /\ UNCHANGED <<backend, password, verified, sessions, elapsed, calls,
                   unrevoked, spent, reread>>

\* What the token is for: a new password, or a verified address.
Apply(r) ==
    LET u == req[r].user IN
    /\ At(r, "apply")
    /\ IF req[r].kind = "reset"
       THEN /\ password[u] < MaxPassword
            /\ password' = [password EXCEPT ![u] = @ + 1]
            /\ unrevoked' = unrevoked \union {u}
            /\ verified' = verified
            /\ Goto(r, "revoke")
       ELSE /\ verified' = verified \union {u}
            /\ Goto(r, "use")
            /\ UNCHANGED <<password, unrevoked>>
    /\ spent' = [spent EXCEPT ![req[r].of] = @ + 1]
    /\ UNCHANGED <<backend, sessions, tokens, elapsed, calls, reread>>

\* Requests that are about to open a session for the account.
Opening(u) == {p \in Requests : req[p].pc \in {"rotate", "open"} /\ req[p].user = u}
\* (Mutant: the sessions a refresh has opened are missed.)
RevokedFirst(u, S) == [s \in SessionIds |->
    IF s \in S /\ sessions[s] # None /\ sessions[s].user = u /\ sessions[s].parent = None
    THEN [sessions[s] EXCEPT !.revoked = TRUE] ELSE sessions[s]]
RevokedBy(u, S) == [s \in SessionIds |-> IF s \in S /\ sessions[s] # None /\ sessions[s].user = u
                                         THEN [sessions[s] EXCEPT !.revoked = TRUE]
                                         ELSE sessions[s]]
Raced(u) == [p \in Requests |-> IF p \in Opening(u) THEN [req[p] EXCEPT !.raced = TRUE]
                                                   ELSE req[p]]

\* Postgres looks the unrevoked sessions up, and revokes those on commit.
Listed(u) == {s \in SessionIds :
                sessions[s] # None /\ sessions[s].user = u /\ ~sessions[s].revoked}
Select(r) ==
    LET u == req[r].user IN
    /\ backend = "postgres" /\ At(r, "revoke")
    /\ req' = [Raced(u) EXCEPT ![r] = [req[r] EXCEPT !.pc = "revoking", !.listed = Listed(u),
                                                    !.proof = password[u]]]
    /\ UNCHANGED <<backend, password, verified, sessions, tokens, elapsed, calls,
                   unrevoked, spent, reread>>

Revoke(r) ==
    LET u == req[r].user
        selected == backend = "postgres"
    IN /\ At(r, IF selected THEN "revoking" ELSE "revoke")
       /\ sessions' = RevokedBy(u, IF selected THEN req[r].listed ELSE SessionIds)
       /\ req' = [Raced(u) EXCEPT ![r] = [req[r] EXCEPT !.pc = "use", !.listed = {}]]
       /\ unrevoked' = IF selected /\ password[u] # req[r].proof THEN unrevoked
                       ELSE unrevoked \ {u}
       /\ UNCHANGED <<backend, password, verified, tokens, elapsed, calls, spent, reread>>

\* In memory the loop over the sessions fails when one is added meanwhile.
RevokeSome(r) ==
    /\ backend = "memory" /\ At(r, "revoke")
    /\ \E p \in Requests : At(p, "open")
    /\ \E S \in SUBSET SessionIds : sessions' = RevokedBy(req[r].user, S)
    /\ reread' = reread \union {req[r].of}
    /\ Done(r)
    /\ UNCHANGED <<backend, password, verified, tokens, elapsed, calls, unrevoked, spent>>

Use(r) ==
    /\ At(r, "use")
    /\ SaveToken(req[r].of, "used")
    /\ Done(r)
    /\ UNCHANGED <<backend, password, verified, sessions, elapsed, calls,
                   unrevoked, spent, reread>>

-----------------------------------------------------------------------------
Abandon(r) ==
    /\ ~At(r, "idle")
    /\ reread' = reread \union {t \in Tokens : r \in Holding(t)}
    /\ Done(r)
    /\ UNCHANGED <<backend, password, verified, sessions, tokens, elapsed, calls,
                   unrevoked, spent>>

Elapse(x) ==
    /\ x \in SessionIds => sessions[x] # None
    /\ x \in Tokens => tokens[x] # None
    /\ Cardinality(elapsed) < MaxElapsed
    /\ elapsed' = elapsed \union {x}
    /\ UNCHANGED <<backend, password, verified, sessions, tokens, req, calls,
                   unrevoked, spent, reread>>

\* The seed gives the demo accounts their password again and revokes nothing;
\* in Postgres it verifies their addresses too.
Seed ==
    /\ \A u \in SeedUsers : password[u] < MaxPassword
    /\ password' = [u \in Users |-> IF u \in SeedUsers THEN password[u] + 1 ELSE password[u]]
    /\ verified' = IF backend = "postgres" THEN verified \union SeedUsers ELSE verified
    /\ unrevoked' = unrevoked \union SeedUsers
    /\ Counted
    /\ UNCHANGED <<backend, sessions, tokens, elapsed, req, spent, reread>>

Init ==
    /\ backend \in {"postgres", "memory"}
    /\ password = [u \in Users |-> 0]
    /\ verified = {} /\ elapsed = {} /\ unrevoked = {} /\ reread = {}
    /\ sessions = [s \in SessionIds |-> None]
    /\ tokens = [t \in Tokens |-> None]
    /\ req = [r \in Requests |-> Idle]
    /\ calls = 0
    /\ spent = [t \in Tokens |-> 0]

Next ==
    \/ \E r \in Requests :
         \/ \E u \in Users : Login(r, u) \/ \E kind \in {"reset", "verify"} : Ask(r, u, kind)
         \/ \E s \in SessionIds : Refresh(r, s) \/ Logout(r, s)
         \/ \E t \in Tokens : Confirm(r, t)
         \/ Rotate(r) \/ Open(r) \/ Close(r) \/ Issue(r) \/ Mail(r) \/ MarkExpired(r)
         \/ Apply(r) \/ Select(r) \/ Revoke(r) \/ RevokeSome(r) \/ Use(r) \/ Abandon(r)
    \/ \E x \in SessionIds \union Tokens : Elapse(x)
    \/ Seed

Spec == Init /\ [][Next]_vars

-----------------------------------------------------------------------------
(* Properties *)

TypeOK ==
    /\ backend \in {"postgres", "memory"}
    /\ password \in [Users -> 0..MaxPassword]
    /\ verified \subseteq Users /\ unrevoked \subseteq Users
    /\ sessions \in [SessionIds -> Session \union {None}]
    /\ tokens \in [Tokens -> Token \union {None}]
    /\ elapsed \subseteq SessionIds \union Tokens /\ reread \subseteq Tokens
    /\ req \in [Requests ->
         [pc : {"idle", "open", "rotate", "close", "issue", "mail", "apply", "revoke", "revoking",
                "use", "expire"},
          kind : {"none", "login", "refresh", "logout", "reset", "verify"},
          user : Users \union {None}, of : SessionIds \union Tokens \union {None},
          proof : 0..MaxPassword, raced : BOOLEAN, shared : BOOLEAN,
          listed : SUBSET SessionIds]]
    /\ calls \in 0..MaxCalls
    /\ spent \in [Tokens -> Nat]

\* A session that was proved with a former password is over, unless it was
\* being opened (by a login or a refresh, or one it comes from was) while the
\* sessions were looked up and revoked, or they have not been revoked since.
SessionsEndWithPassword ==
    \A s \in SessionIds :
      (Alive(s) /\ sessions[s].proof < password[sessions[s].user]) =>
         sessions[s].raced \/ sessions[s].user \in unrevoked

\* A refresh token is traded for one session; two only when two requests
\* read it before either had saved it as revoked.
OneSuccessor ==
    \A s, t \in SessionIds :
      (s # t /\ sessions[s] # None /\ sessions[t] # None
         /\ sessions[s].parent # None /\ sessions[s].parent = sessions[t].parent) =>
      sessions[s].shared /\ sessions[t].shared

\* A recovery token works once, unless two requests held it at the same time
\* or one of them died holding it; and once it has worked and no request
\* holds it, nobody can use it again.
TokensWorkOnce ==
    \A t \in Tokens : t \notin reread =>
      /\ spent[t] <= 1
      /\ (spent[t] = 1 /\ Holding(t) = {}) => ~Usable(t)
=============================================================================
