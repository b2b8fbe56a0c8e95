------------------------- MODULE OperationsCatalog -------------------------
(***************************************************************************)
(* The catalog of sites, departments, workers, cameras, zones, rules and   *)
(* required PPE that the organizations edit over HTTP and the demo seed    *)
(* fills, next to the detections that name its cameras and zones as text.  *)
(*                                                                         *)
(* A request against Postgres is a sequence of transactions: one per row   *)
(* it loads, one that lists rows to compute an id, one that saves or       *)
(* deletes.  A save is a SELECT and an UPDATE of the columns that differ   *)
(* from what was selected, so two saves of a row can tear it.  A request   *)
(* that is refused, or whose transaction fails, ends there (Abandon).  The *)
(* repository in memory does all of a call at once.                        *)
(***************************************************************************)
EXTENDS Naturals, FiniteSets

CONSTANTS
    Orgs, Names,      \* organizations; what ids are made of besides a number
    Requests,         \* API threads (and the seed script)
    None, NoRow,      \* an empty column; no row under an id
    Initial,          \* the rows an organization has to begin with
    SeedOrg,          \* the organization scripts/seed_demo.py fills
    WorkerOrg, WorkerSite, Allowed, \* a registered edge worker
    MaxNumber,        \* bound: the highest number in an id
    MaxCalls,         \* bound: calls ever made
    MaxIncidents      \* bound: detections ever accepted

RefKinds == {"site", "department", "camera", "zone", "rule"}
Kinds == RefKinds \union {"worker", "ppe"}
Ids == Kinds \X Names \X (0..MaxNumber)
Row == [org : Orgs, ref : [RefKinds -> Ids \union {None}]]

\* The foreign keys of the tables, and those that are not null.
Parents == [site |-> {}, department |-> {"site"}, worker |-> {"site", "department"},
            camera |-> {"site"}, zone |-> {"site", "camera"},
            rule |-> {"site", "zone"}, ppe |-> {"rule", "site", "zone"}]
NotNull == [Parents EXCEPT !.worker = {}, !.rule = {}, !.ppe = {"rule"}]
Columns(kind, ref) == \A k \in RefKinds :
    /\ k \in NotNull[kind] => ref[k] # None
    /\ ref[k] # None => k \in Parents[kind] /\ ref[k][1] = k

ASSUME CatalogAssumption ==
    /\ None \notin Ids /\ NoRow \notin Row
    /\ MaxNumber \in Nat /\ MaxCalls \in Nat /\ MaxIncidents \in Nat
    /\ SeedOrg \in Orgs /\ WorkerOrg \in Orgs /\ WorkerSite \in Ids /\ Allowed \subseteq Ids
    /\ Initial \in [Ids -> Row \union {NoRow}]
    /\ \A x \in Ids : Initial[x] # NoRow => Columns(x[1], Initial[x].ref)
    /\ \A x \in Ids, k \in RefKinds :
         (Initial[x] # NoRow /\ Initial[x].ref[k] # None) =>
            /\ Initial[Initial[x].ref[k]] # NoRow
            /\ Initial[Initial[x].ref[k]].org = Initial[x].org
            /\ (x[1] = "zone" /\ k = "camera") =>
                  Initial[Initial[x].ref["camera"]].ref["site"] = Initial[x].ref["site"]

VARIABLES
    backend,    \* "postgres" or "memory", for good
    rows,       \* the tables: what is stored under an id
    past,       \* history: every row saved or stored under an id
    torn,       \* history: ids whose row has columns of two saves that crossed
    req,        \* what each request is doing
    calls,      \* calls made so far
    config,     \* the <<camera, zone>> pairs the edge worker may report
    incidents   \* the <<camera, zone>> pairs incidents name

vars == <<backend, rows, past, torn, req, calls, config, incidents>>

Stored(x) == rows[x] # NoRow
\* (Mutant: a row of any organization will do.)
OwnedByAnyone(x, org) == Stored(x)
Owned(x, org) == Stored(x) /\ rows[x].org = org
OfKind(k) == {x \in Ids : x[1] = k}
Known(k) == {x \in OfKind(k) : past[x] # {}}
List(k, org) == {x \in OfKind(k) : Owned(x, org)}

-----------------------------------------------------------------------------
(* The calls of the repository: what they are given, and the rows they load *)

NoRefs == [k \in RefKinds |-> None]
Site(s) == [NoRefs EXCEPT !["site"] = s]
Call(op, kind, org, id, ref) ==
    [op |-> op, kind |-> kind, org |-> org, id |-> id, ref |-> ref]

CreateSite(org) == Call("create", "site", org, None, NoRefs)
UpdateSite(org, x) == Call("update", "site", org, x, NoRefs)
CreateDepartment(org, s) == Call("create", "department", org, None, Site(s))
CreateWorker(org, s, d) ==
    Call("create", "worker", org, None, [Site(s) EXCEPT !["department"] = d])
CreateCamera(org, s) == Call("create", "camera", org, None, Site(s))
UpdateCamera(org, x, s) == Call("update", "camera", org, x, Site(s))
CreateZone(org, s, c) ==
    Call("create", "zone", org, None, [Site(s) EXCEPT !["camera"] = c])
UpdateZone(org, x, s, c) ==
    Call("update", "zone", org, x, [Site(s) EXCEPT !["camera"] = c])
CreateRule(org, s, z) ==
    Call("create", "rule", org, None, [Site(s) EXCEPT !["zone"] = z])
CreatePpe(org, u, s, z) ==
    Call("create", "ppe", org, None, [Site(s) EXCEPT !["zone"] = z, !["rule"] = u])
Remove(org, x) == Call("delete", x[1], org, x, NoRefs)

\* The endpoints: members of an organization name ids they have seen.
HttpCalls ==
    UNION { {CreateSite(o)}
            \union {UpdateSite(o, x) : x \in Known("site")}
            \union {CreateCamera(o, s) : s \in Known("site")}
            \union {UpdateCamera(o, x, s) : x \in Known("camera"), s \in Known("site")}
            \union {CreateZone(o, s, c) : s \in Known("site"), c \in Known("camera")}
            \union {UpdateZone(o, x, s, c) : x \in Known("zone"),
                        s \in Known("site"), c \in Known("camera")}
            \union {Remove(o, x) : x \in Known("site") \union Known("camera")
                                         \union Known("zone")} : o \in Orgs }

\* The seed gives the rows it misses fixed ids, without a number, and redraws
\* the zones it finds.
Seeded(k) == OfKind(k) \intersect (Kinds \X Names \X {0})
Missing(k) == Seeded(k) \ List(k, SeedOrg)
SeedRow(c, x) == [c EXCEPT !.id = x]
SeedCalls ==
    {SeedRow(CreateSite(SeedOrg), x) : x \in Missing("site")}
    \union {SeedRow(CreateCamera(SeedOrg, s), x) : s \in Seeded("site"), x \in Missing("camera")}
    \union {SeedRow(CreateWorker(SeedOrg, s, None), x) :
               s \in Seeded("site"), x \in Missing("worker")}
    \union {SeedRow(CreateZone(SeedOrg, s, c), x) :
               s \in Seeded("site"), c \in Seeded("camera"), x \in Missing("zone")}
    \union {UpdateZone(SeedOrg, x, s, c) : x \in Seeded("zone") \ Missing("zone"),
               s \in Seeded("site"), c \in Seeded("camera")}
    \union {SeedRow(CreateRule(SeedOrg, s, z), x) :
               s \in Seeded("site"), z \in Seeded("zone"), x \in Missing("rule")}
    \union {SeedRow(CreatePpe(SeedOrg, u, s, z), x) : u \in Seeded("rule"),
               s \in Seeded("site"), z \in Seeded("zone"), x \in Missing("ppe")}

-----------------------------------------------------------------------------
(* One call against Postgres *)

Idle == [pc |-> "idle", call |-> Remove(WorkerOrg, WorkerSite), todo |-> {},
         base |-> NoRow, late |-> {}]

\* What is loaded, in this order, before anything is written.
Loads(c) == {k \in RefKinds : c.ref[k] # None}
            \union (IF c.op = "create" THEN {} ELSE {"self"})
Order == <<"self", "rule", "site", "department", "zone", "camera">>
NextLoad(todo) == Order[CHOOSE i \in 1..6 :
                          Order[i] \in todo /\ \A j \in 1..(i-1) : Order[j] \notin todo]

\* A camera or a department given with a site must belong to it.
\* (Mutant: the site of the camera is not compared.)
FitsAnywhere(k, x, ref) == TRUE
Fits(k, x, ref) ==
    (k \in {"camera", "department"} /\ ref["site"] # None) => rows[x].ref["site"] = ref["site"]

Start(r, c) ==
    /\ backend = "postgres" /\ req[r].pc = "idle"
    /\ calls' = calls + 1
    /\ req' = [req EXCEPT ![r] = [pc |-> "load", call |-> c, todo |-> Loads(c),
                                  base |-> NoRow, late |-> {}]]
    /\ UNCHANGED <<backend, rows, past, torn, config, incidents>>

Load(r) ==
    LET q == req[r]
        k == NextLoad(q.todo)
        x == IF k = "self" THEN q.call.id ELSE q.call.ref[k]
    IN /\ q.pc = "load" /\ q.todo # {}
       /\ Owned(x, q.call.org)
       /\ Fits(k, x, q.call.ref)
       /\ req' = [req EXCEPT ![r].todo = @ \ {k}]
       /\ UNCHANGED <<backend, rows, past, torn, calls, config, incidents>>

\* A new id is a name and one more than the rows of the organization; a
\* worker's is its internal id.
NewNumber(k, org) == IF k = "worker" THEN 0 ELSE Cardinality(List(k, org)) + 1
Number(r) ==
    LET q == req[r] IN
    /\ q.pc = "load" /\ q.todo = {} /\ q.call.op = "create"
    /\ IF q.call.id # None
       THEN req' = [req EXCEPT ![r].pc = "save"]
       ELSE /\ NewNumber(q.call.kind, q.call.org) \in 0..MaxNumber
            /\ \E name \in Names : req' = [req EXCEPT ![r] =
                 [q EXCEPT !.pc = "save",
                    !.call = [q.call EXCEPT !.id =
                       <<q.call.kind, name, NewNumber(q.call.kind, q.call.org)>>]]]
    /\ UNCHANGED <<backend, rows, past, torn, calls, config, incidents>>

\* The detections that name a camera or zone, as _incident_count finds them.
Named(x) == {i \in incidents : x \in {i[1], i[2]}}
\* (Mutant: the cameras of a site are not looked for.)
InUseByHistory(c) == Named(c.id) # {}
InUse(c) == IF c.kind = "site"
            THEN \E x \in List("camera", c.org) : rows[x].ref["site"] = c.id
            ELSE Named(c.id) # {}

Check(r) ==
    LET q == req[r] IN
    /\ q.pc = "load" /\ q.todo = {} /\ q.call.op # "create"
    /\ q.call.op = "delete" => ~InUse(q.call)
    /\ req' = [req EXCEPT ![r].pc = IF q.call.op = "delete" THEN "delete" ELSE "save"]
    /\ UNCHANGED <<backend, rows, past, torn, calls, config, incidents>>

\* What comes between the check of a delete and its own transaction.
Late(S) == [p \in Requests |-> IF req[p].pc = "delete"
                               THEN [req[p] EXCEPT !.late = @ \union S] ELSE req[p]]

\* session.merge: the row under the id is selected, if there is one.
Merge(r) ==
    /\ req[r].pc = "save"
    /\ req' = [req EXCEPT ![r].pc = "flush", ![r].base = rows[req[r].call.id]]
    /\ UNCHANGED <<backend, rows, past, torn, calls, config, incidents>>

\* The commit inserts a row that was not there, or writes the columns that
\* differ from the row that was selected into the row that is there now.
Column(asked, base, now) == IF base = asked THEN now ELSE asked
Written(c, base, now) ==
    IF base = NoRow THEN [org |-> c.org, ref |-> c.ref]
    ELSE [org |-> Column(c.org, base.org, now.org),
          ref |-> [k \in RefKinds |-> Column(c.ref[k], base.ref[k], now.ref[k])]]

\* The commit fails when the row came or went since the SELECT, or when a
\* foreign key does not hold.
Flush(r) ==
    LET c == req[r].call
        asked == [org |-> c.org, ref |-> c.ref]
        row == Written(c, req[r].base, rows[c.id])
    IN /\ req[r].pc = "flush"
       /\ Stored(c.id) <=> req[r].base # NoRow
       /\ \A k \in RefKinds : row.ref[k] # None => Stored(row.ref[k])
       /\ rows' = [rows EXCEPT ![c.id] = row]
       /\ past' = [past EXCEPT ![c.id] = @ \union {asked, row}]
       /\ torn' = IF row = asked THEN torn \ {c.id} ELSE torn \union {c.id}
       /\ req' = [Late({c.id} \intersect OfKind("camera")) EXCEPT ![r] = Idle]
       /\ UNCHANGED <<backend, calls, config, incidents>>

\* ON DELETE CASCADE: from a site to its PPE in at most four steps.
Children(S) == {x \in Ids : Stored(x) /\ \E k \in RefKinds : rows[x].ref[k] \in S}
Wider(S) == S \union Children(S)
Cascade(x) == Wider(Wider(Wider(Wider({x}))))

Delete(r) ==
    /\ req[r].pc = "delete"
    /\ rows' = [x \in Ids |-> IF x \in Cascade(req[r].call.id) THEN NoRow ELSE rows[x]]
    /\ req' = [req EXCEPT ![r] = Idle]
    /\ UNCHANGED <<backend, past, torn, calls, config, incidents>>

Abandon(r) ==
    /\ req[r].pc # "idle"
    /\ req' = [req EXCEPT ![r] = Idle]
    /\ UNCHANGED <<backend, rows, past, torn, calls, config, incidents>>

-----------------------------------------------------------------------------
(* One call against the repository in memory, which numbers the rows of all *)
(* organizations together, has no foreign keys, and changes rows in place.  *)

Agrees(c, k) == c.ref[k] # None => Owned(c.ref[k], c.org) /\ Fits(k, c.ref[k], c.ref)

MemoryCreate(c) ==
    /\ c.op = "create"
    /\ \A k \in RefKinds : Agrees(c, k)
    /\ \E name \in Names :
         LET n == Cardinality({x \in OfKind(c.kind) : Stored(x)}) + 1
             id == IF c.id = None THEN <<c.kind, name, n>> ELSE c.id
             row == [org |-> c.org, ref |-> c.ref]
         IN /\ c.id = None => n \in 0..MaxNumber
            /\ rows' = [rows EXCEPT ![id] = row]
            /\ past' = [past EXCEPT ![id] = @ \union {row}]

\* update_zone has set the site when it refuses the camera.
MemoryUpdate(c) ==
    LET whole == \A k \in RefKinds : Agrees(c, k)
        row == [org |-> c.org,
                ref |-> IF whole THEN c.ref
                        ELSE [rows[c.id].ref EXCEPT !["site"] = c.ref["site"]]]
    IN /\ c.op = "update"
       /\ Owned(c.id, c.org) /\ Agrees(c, "site")
       /\ rows' = [rows EXCEPT ![c.id] = row]
       /\ past' = [past EXCEPT ![c.id] = @ \union {row}]

MemoryDelete(c) ==
    LET gone == {c.id} \union {z \in OfKind("zone") :
                    c.kind = "camera" /\ Stored(z) /\ rows[z].ref["camera"] = c.id}
    IN /\ c.op = "delete"
       /\ Owned(c.id, c.org)
       /\ IF c.kind = "site"
          THEN ~\E x \in OfKind("camera") : Stored(x) /\ rows[x].ref["site"] = c.id
          ELSE Named(c.id) = {}
       /\ rows' = [x \in Ids |-> IF x \in gone THEN NoRow ELSE rows[x]]
       /\ past' = past

InMemory(c) ==
    /\ backend = "memory"
    /\ MemoryCreate(c) \/ MemoryUpdate(c) \/ MemoryDelete(c)
    /\ calls' = calls + 1
    /\ UNCHANGED <<backend, torn, req, config, incidents>>

-----------------------------------------------------------------------------
(* The edge worker's side *)

\* Every zone of the worker's site comes with every camera it may use,
\* whichever camera the zone was drawn on.
WorkerConfig ==
    /\ config' = Allowed \X {z \in List("zone", WorkerOrg) : rows[z].ref["site"] = WorkerSite}
    /\ UNCHANGED <<backend, rows, past, torn, req, calls, incidents>>

Detection(i) ==
    /\ i \in config /\ Cardinality(incidents) < MaxIncidents
    /\ incidents' = incidents \union {i}
    /\ req' = Late({i})
    /\ UNCHANGED <<backend, rows, past, torn, calls, config>>

-----------------------------------------------------------------------------
Init ==
    /\ backend \in {"postgres", "memory"}
    /\ rows = Initial
    /\ past = [x \in Ids |-> {Initial[x]} \ {NoRow}]
    /\ req = [r \in Requests |-> Idle]
    /\ torn = {} /\ calls = 0 /\ config = {} /\ incidents = {}

Next ==
    \/ /\ calls < MaxCalls
       /\ \E c \in HttpCalls \union SeedCalls :
            InMemory(c) \/ \E r \in Requests : Start(r, c)
    \/ \E r \in Requests :
         \/ Load(r) \/ Number(r) \/ Check(r) \/ Merge(r) \/ Flush(r)
         \/ Delete(r) \/ Abandon(r)
    \/ WorkerConfig
    \/ \E i \in config : Detection(i)

Spec == Init /\ [][Next]_vars

-----------------------------------------------------------------------------
(* Properties *)

Calls == [op : {"create", "update", "delete"}, kind : Kinds, org : Orgs,
          id : Ids \union {None}, ref : [RefKinds -> Ids \union {None}]]

\* Types: rows and calls in flight fill only the foreign keys their table has.
TypeOK ==
    /\ backend \in {"postgres", "memory"}
    /\ rows \in [Ids -> Row \union {NoRow}]
    /\ past \in [Ids -> SUBSET Row] /\ torn \subseteq Ids
    /\ req \in [Requests -> [pc : {"idle", "load", "save", "flush", "delete"}, call : Calls,
                             todo : SUBSET (RefKinds \union {"self"}),
                             base : Row \union {NoRow},
                             late : SUBSET (Ids \union (Ids \X Ids))]]
    /\ calls \in 0..MaxCalls
    /\ config \subseteq Ids \X Ids /\ incidents \subseteq Ids \X Ids
    /\ \A x \in Ids : Stored(x) => Columns(x[1], rows[x].ref)

\* A row leads to another organization only through an id that both have
\* used: mostly the id it refers to, since the check of a relation and the
\* save of the row are transactions apart and a save takes over whoever's row
\* has its id; or, if two saves have torn the row, its own.
TenantsMeetInSharedIds ==
    \A x \in Ids, k \in RefKinds :
      (Stored(x) /\ rows[x].ref[k] # None) =>
        \E p \in past[rows[x].ref[k]] :
           \/ p.org = rows[x].org
           \/ x \in torn /\ \E q \in past[x] : q.org = p.org

\* A zone is in a site its camera is or was in: only a camera that moved (or
\* whose id was given again) leaves its zones behind.  A torn zone may have
\* the site of one save and the camera of another, each right by itself.
Followed(row) == \E p \in past[row.ref["camera"]] : p.ref["site"] = row.ref["site"]
ZonesFollowCameras ==
    backend = "postgres" =>
      \A z \in OfKind("zone") : Stored(z) =>
        \/ Followed(rows[z])
        \/ z \in torn /\ \E q \in past[z] :
                           q.ref["site"] = rows[z].ref["site"] /\ Followed(q)

\* A delete takes nothing it is meant to spare.  The row it names has only
\* detections that came after the check; a camera that goes with its site was
\* saved after the check, or has another organization's name on it; and a
\* zone that goes with its site stood there without its camera, or with such
\* a camera.  A zone does go with its camera, but then its detections came
\* after the check or name other cameras the worker was given for it.
Spared(q, x) ==
    LET raced(c) == c \in q.late \/ rows[c].org # q.call.org
        c == rows[x].ref["camera"]
    IN CASE x = q.call.id -> q.call.kind # "site" => Named(x) \subseteq q.late
         [] x # q.call.id /\ x[1] = "camera" -> raced(x)
         [] x # q.call.id /\ x[1] = "zone" /\ q.call.kind = "site" ->
              rows[c].ref["site"] # q.call.id \/ raced(c)
         [] x[1] = "zone" /\ q.call.kind = "camera" ->
              \A i \in Named(x) : i[1] = q.call.id => i \in q.late
         [] OTHER -> TRUE
DeletesSpare ==
    [][\A r \in Requests : Delete(r) =>
         \A x \in Ids : (Stored(x) /\ rows'[x] = NoRow) => Spared(req[r], x)]_vars
=============================================================================
