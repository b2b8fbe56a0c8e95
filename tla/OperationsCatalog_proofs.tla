---------------------- MODULE OperationsCatalog_proofs ----------------------
(***************************************************************************)
(* Proofs about OperationsCatalog, for any organizations, requests, initial *)
(* rows and bounds.  The inductive invariant says what a call in flight has *)
(* already established about the rows it refers to.                        *)
(***************************************************************************)
EXTENDS OperationsCatalog, TLAPS

CallOK(c) ==
    /\ c \in Calls
    /\ c.op # "delete" => Columns(c.kind, c.ref)
    /\ c.id # None => c.id[1] = c.kind
    /\ c.op # "create" => c.id # None

LocalsOK(q) ==
    /\ q.pc # "idle" => CallOK(q.call)
    /\ q.pc \in {"save", "flush"} => q.call.op # "delete" /\ q.call.id # None /\ q.todo = {}
    /\ q.pc = "delete" => q.call.op = "delete"

TypeInv == TypeOK /\ \A r \in Requests : LocalsOK(req[r])

\* What ref[k] names has been checked: a row of the organization has been
\* there, on the site of a zone that names it as its camera.
Vouched(b, P, kind, org, ref, k) ==
    \E p \in P[ref[k]] :
       /\ p.org = org
       /\ (b = "postgres" /\ kind = "zone" /\ k = "camera") => p.ref["site"] = ref["site"]
AllVouched(b, P, kind, org, ref, K) ==
    \A k \in K : ref[k] # None => Vouched(b, P, kind, org, ref, k)

\* A stored row is one of those the history knows, and is explained as the
\* two properties ask.
RowsKnown == \A x \in Ids : Stored(x) => rows[x] \in past[x]
PastFits == \A x \in Ids : \A q \in past[x] : Columns(x[1], q.ref)
RowsVouched == RowsKnown /\ PastFits /\ TenantsMeetInSharedIds /\ ZonesFollowCameras
CallVouched(q) == (q.pc \in {"load", "save", "flush"} /\ q.call.op # "delete") =>
    AllVouched(backend, past, q.call.kind, q.call.org, q.call.ref, RefKinds \ q.todo)
CallsVouched == \A r \in Requests : CallVouched(req[r])

Inv == TypeInv /\ RowsVouched /\ CallsVouched

-----------------------------------------------------------------------------
LEMMA OrderPicks ==
    ASSUME NEW todo \in SUBSET (RefKinds \union {"self"}), todo # {}
    PROVE  NextLoad(todo) \in todo
<1> DEFINE P(i) == Order[i] \in todo /\ \A j \in 1..(i-1) : Order[j] \notin todo
<1>1. \E i \in 1..6 : P(i)
  <2>1. CASE Order[1] \in todo
    BY <2>1
  <2>2. CASE Order[1] \notin todo /\ Order[2] \in todo
    BY <2>2
  <2>3. CASE Order[1] \notin todo /\ Order[2] \notin todo /\ Order[3] \in todo
    BY <2>3
  <2>4. CASE (\A i \in 1..3 : Order[i] \notin todo) /\ Order[4] \in todo
    BY <2>4
  <2>5. CASE (\A i \in 1..4 : Order[i] \notin todo) /\ Order[5] \in todo
    BY <2>5
  <2>6. CASE (\A i \in 1..5 : Order[i] \notin todo) /\ Order[6] \in todo
    BY <2>6
  <2>7. \E i \in 1..6 : Order[i] \in todo
    <3>1. PICK k \in todo : k \in RefKinds \union {"self"}
      OBVIOUS
    <3>2. /\ Order[1] = "self" /\ Order[2] = "rule" /\ Order[3] = "site"
          /\ Order[4] = "department" /\ Order[5] = "zone" /\ Order[6] = "camera"
      BY DEF Order
    <3> QED BY <3>1, <3>2 DEF RefKinds
  <2> QED BY <2>1, <2>2, <2>3, <2>4, <2>5, <2>6, <2>7
<1>2. P(CHOOSE i \in 1..6 : P(i))
  BY <1>1
<1> QED BY <1>2 DEF NextLoad

Refs == [RefKinds -> Ids \union {None}]

LEMMA CallTyped ==
    ASSUME NEW op \in {"create", "update", "delete"}, NEW kind \in Kinds, NEW org \in Orgs,
           NEW id \in Ids \union {None}, NEW ref \in Refs,
           op # "delete" => Columns(kind, ref),
           id # None => id[1] = kind, op # "create" => id # None
    PROVE  CallOK(Call(op, kind, org, id, ref))
BY DEF CallOK, Calls, Call, Refs

LEMMA SiteRefs ==
    ASSUME NEW s \in Ids \union {None}
    PROVE  /\ Site(s) \in Refs /\ Site(s)["site"] = s
           /\ \A k \in RefKinds \ {"site"} : Site(s)[k] = None
BY DEF Site, NoRefs, Refs, RefKinds

\* Every constructor is given ids of the kinds its table refers to.
LEMMA Constructors ==
    ASSUME NEW org \in Orgs, NEW s \in OfKind("site")
    PROVE  /\ CallOK(CreateSite(org))
           /\ CallOK(UpdateSite(org, s))
           /\ CallOK(CreateCamera(org, s))
           /\ CallOK(CreateWorker(org, s, None))
           /\ \A x \in OfKind("camera") : /\ CallOK(UpdateCamera(org, x, s))
                                         /\ CallOK(CreateZone(org, s, x))
           /\ \A z \in OfKind("zone") : /\ CallOK(CreateRule(org, s, z))
                /\ \A c \in OfKind("camera") : CallOK(UpdateZone(org, z, s, c))
           /\ \A z \in OfKind("zone"), u \in OfKind("rule") : CallOK(CreatePpe(org, u, s, z))
<1> USE CatalogAssumption, SiteRefs
<1>1. s \in Ids /\ s[1] = "site" /\ s # None
  BY DEF OfKind
<1>2. NoRefs \in Refs /\ \A k \in RefKinds : NoRefs[k] = None
  BY DEF NoRefs, Refs
<1>3. Columns("site", NoRefs)
  BY <1>2 DEF Columns, NotNull, Parents
<1>4. CallOK(CreateSite(org)) /\ CallOK(UpdateSite(org, s))
  BY <1>1, <1>2, <1>3, CallTyped DEF CreateSite, UpdateSite, Kinds, RefKinds
<1>5. Columns("camera", Site(s)) /\ Columns("worker", Site(s))
  BY <1>1 DEF Columns, NotNull, Parents, RefKinds
<1>6. CallOK(CreateCamera(org, s))
  BY <1>1, <1>5, CallTyped DEF CreateCamera, Kinds, RefKinds
<1>7. CallOK(CreateWorker(org, s, None))
  <2>1. [Site(s) EXCEPT !["department"] = None] = Site(s)
    BY <1>1 DEF Refs, RefKinds
  <2> QED BY <2>1, <1>1, <1>5, CallTyped DEF CreateWorker, Kinds
<1>8. ASSUME NEW x \in OfKind("camera")
      PROVE  CallOK(UpdateCamera(org, x, s)) /\ CallOK(CreateZone(org, s, x))
  <2>1. x \in Ids /\ x[1] = "camera" /\ x # None
    BY DEF OfKind
  <2>2. CallOK(UpdateCamera(org, x, s))
    BY <1>1, <1>5, <2>1, CallTyped DEF UpdateCamera, Kinds, RefKinds
  <2> DEFINE ref == [Site(s) EXCEPT !["camera"] = x]
  <2>3. ref \in Refs /\ Columns("zone", ref)
    BY <1>1, <2>1 DEF Columns, NotNull, Parents, RefKinds, Refs
  <2>4. CallOK(CreateZone(org, s, x))
    BY <2>3, CallTyped DEF CreateZone, Kinds, RefKinds
  <2> QED BY <2>2, <2>4
<1>9. ASSUME NEW z \in OfKind("zone")
      PROVE  /\ CallOK(CreateRule(org, s, z))
             /\ \A c \in OfKind("camera") : CallOK(UpdateZone(org, z, s, c))
             /\ \A u \in OfKind("rule") : CallOK(CreatePpe(org, u, s, z))
  <2>1. z \in Ids /\ z[1] = "zone" /\ z # None
    BY DEF OfKind
  <2> DEFINE r1 == [Site(s) EXCEPT !["zone"] = z]
  <2>2. r1 \in Refs /\ Columns("rule", r1)
    BY <1>1, <2>1 DEF Columns, NotNull, Parents, RefKinds, Refs
  <2>3. CallOK(CreateRule(org, s, z))
    BY <2>2, CallTyped DEF CreateRule, Kinds, RefKinds
  <2>4. ASSUME NEW c \in OfKind("camera") PROVE CallOK(UpdateZone(org, z, s, c))
    <3> DEFINE r2 == [Site(s) EXCEPT !["camera"] = c]
    <3>1. c \in Ids /\ c[1] = "camera" /\ c # None
      BY DEF OfKind
    <3>2. r2 \in Refs /\ Columns("zone", r2)
      BY <1>1, <3>1 DEF Columns, NotNull, Parents, RefKinds, Refs
    <3> QED BY <2>1, <3>2, CallTyped DEF UpdateZone, Kinds, RefKinds
  <2>5. ASSUME NEW u \in OfKind("rule") PROVE CallOK(CreatePpe(org, u, s, z))
    <3> DEFINE r3 == [Site(s) EXCEPT !["zone"] = z, !["rule"] = u]
    <3>1. u \in Ids /\ u[1] = "rule" /\ u # None
      BY DEF OfKind
    <3>2. r3 \in Refs /\ Columns("ppe", r3)
      BY <1>1, <2>1, <3>1 DEF Columns, NotNull, Parents, RefKinds, Refs
    <3> QED BY SMTT(30), <3>2, CallTyped DEF CreatePpe, Kinds
  <2> QED BY <2>3, <2>4, <2>5
<1>10. \A z \in OfKind("zone"), u \in OfKind("rule") : CallOK(CreatePpe(org, u, s, z))
  BY <1>9
<1> QED BY <1>4, <1>6, <1>7, <1>8, <1>9, <1>10

\* The calls a client or the seed can make are well formed.
LEMMA CallsWellFormed ==
    ASSUME NEW c \in HttpCalls \union SeedCalls
    PROVE  CallOK(c) /\ Loads(c) \subseteq RefKinds \union {"self"}
<1> USE CatalogAssumption
<1>0. /\ \A k \in Kinds : Known(k) \subseteq OfKind(k) /\ OfKind(k) \subseteq Ids
      /\ \A k \in Kinds : \A x \in OfKind(k) : x[1] = k /\ x # None
      /\ {"site", "camera", "zone", "worker", "rule", "ppe"} \subseteq Kinds
  BY DEF Known, OfKind, Kinds, RefKinds
<1>1. ASSUME c \in HttpCalls PROVE CallOK(c)
  <2>1. PICK o \in Orgs : c \in
            {CreateSite(o)}
            \union {UpdateSite(o, x) : x \in Known("site")}
            \union {CreateCamera(o, s) : s \in Known("site")}
            \union {UpdateCamera(o, x, s) : x \in Known("camera"), s \in Known("site")}
            \union {CreateZone(o, s, d) : s \in Known("site"), d \in Known("camera")}
            \union {UpdateZone(o, x, s, d) : x \in Known("zone"),
                        s \in Known("site"), d \in Known("camera")}
            \union {Remove(o, x) : x \in Known("site") \union Known("camera")
                                         \union Known("zone")}
    BY <1>1 DEF HttpCalls
  <2>2. CASE c = CreateSite(o)
    <3>1. CallOK(CreateSite(o))
      BY CallTyped DEF CreateSite, NoRefs, Refs, Columns, NotNull, Parents, Kinds, RefKinds
    <3> QED BY <2>2, <3>1
  <2>3. CASE \E x \in Known("site") \union Known("camera") \union Known("zone") : c = Remove(o, x)
    <3>1. PICK x \in Known("site") \union Known("camera") \union Known("zone") : c = Remove(o, x)
      BY <2>3
    <3>2. x \in Ids /\ x[1] \in Kinds /\ x # None
      BY DEF Known, OfKind, Kinds, RefKinds
    <3> QED BY <3>1, <3>2, CallTyped DEF Remove, NoRefs, Refs
  <2>4. CASE \E s \in Known("site") : \/ c = UpdateSite(o, s) \/ c = CreateCamera(o, s)
           \/ \E x \in Known("camera") : c = UpdateCamera(o, x, s) \/ c = CreateZone(o, s, x)
           \/ \E z \in Known("zone"), d \in Known("camera") : c = UpdateZone(o, z, s, d)
    BY <2>4, <1>0, Constructors
  <2> QED BY <2>1, <2>2, <2>3, <2>4
<1>2. ASSUME c \in SeedCalls PROVE CallOK(c)
  <2>1. ASSUME NEW b, CallOK(b), b.op = "create", NEW x \in OfKind(b.kind)
        PROVE  CallOK(SeedRow(b, x))
    BY <2>1, <1>0 DEF SeedRow, CallOK, Calls, OfKind
  <2>2. \A k \in Kinds : Seeded(k) \subseteq OfKind(k) /\ Missing(k) \subseteq OfKind(k)
    BY DEF Seeded, Missing
  <2>3. CASE \E x \in Missing("site") : c = SeedRow(CreateSite(SeedOrg), x)
    <3>1. CallOK(CreateSite(SeedOrg))
      BY CallTyped DEF CreateSite, NoRefs, Refs, Columns, NotNull, Parents, Kinds, RefKinds
    <3> QED BY <2>1, <2>2, <2>3, <3>1, <1>0 DEF CreateSite, Call
  <2>4. CASE \E s \in Seeded("site"), x \in Missing("camera") :
                c = SeedRow(CreateCamera(SeedOrg, s), x)
    BY <2>1, <2>2, <2>4, <1>0, Constructors DEF CreateCamera, Call
  <2>5. CASE \E s \in Seeded("site"), x \in Missing("worker") :
                c = SeedRow(CreateWorker(SeedOrg, s, None), x)
    BY <2>1, <2>2, <2>5, <1>0, Constructors DEF CreateWorker, Call
  <2>6. CASE \E s \in Seeded("site"), d \in Seeded("camera"), x \in Missing("zone") :
                c = SeedRow(CreateZone(SeedOrg, s, d), x)
    <3>1. PICK s \in OfKind("site"), d \in OfKind("camera"), x \in OfKind("zone") :
             c = SeedRow(CreateZone(SeedOrg, s, d), x)
      BY <2>2, <2>6, <1>0
    <3>2. CallOK(CreateZone(SeedOrg, s, d))
      BY Constructors
    <3> QED BY <2>1, <3>1, <3>2 DEF CreateZone, Call
  <2>7. CASE \E s \in Seeded("site"), z \in Seeded("zone"), x \in Missing("rule") :
                c = SeedRow(CreateRule(SeedOrg, s, z), x)
    <3>1. PICK s \in OfKind("site"), z \in OfKind("zone"), x \in OfKind("rule") :
             c = SeedRow(CreateRule(SeedOrg, s, z), x)
      BY <2>2, <2>7, <1>0 DEF Kinds, RefKinds
    <3>2. CallOK(CreateRule(SeedOrg, s, z))
      BY Constructors
    <3> QED BY <2>1, <3>1, <3>2 DEF CreateRule, Call
  <2>8. CASE \E u \in Seeded("rule"), s \in Seeded("site"), z \in Seeded("zone"),
                x \in Missing("ppe") : c = SeedRow(CreatePpe(SeedOrg, u, s, z), x)
    <3>1. PICK u \in OfKind("rule"), s \in OfKind("site"), z \in OfKind("zone"),
               x \in OfKind("ppe") : c = SeedRow(CreatePpe(SeedOrg, u, s, z), x)
      BY <2>2, <2>8, <1>0 DEF Kinds, RefKinds
    <3>2. CallOK(CreatePpe(SeedOrg, u, s, z))
      BY Constructors
    <3> QED BY <2>1, <3>1, <3>2 DEF CreatePpe, Call
  <2>9. CASE \E z \in Seeded("zone") \ Missing("zone"), s \in Seeded("site"),
                d \in Seeded("camera") : c = UpdateZone(SeedOrg, z, s, d)
    BY <2>2, <2>9, <1>0, Constructors
  <2> QED BY <1>2, <2>3, <2>4, <2>5, <2>6, <2>7, <2>8, <2>9 DEF SeedCalls
<1> QED BY <1>1, <1>2 DEF Loads

-----------------------------------------------------------------------------
LEMMA RefsInRow ==
    ASSUME TypeOK, NEW x \in Ids, Stored(x)
    PROVE  /\ rows[x] \in Row
           /\ \A k \in RefKinds : rows[x].ref[k] # None => rows[x].ref[k] \in Ids
BY DEF TypeOK, Stored, Row

LEMMA InitTyped == Init => TypeInv
<1> SUFFICES ASSUME Init PROVE TypeInv
  OBVIOUS
<1> USE CatalogAssumption
<1>1. Remove(WorkerOrg, WorkerSite) \in Calls
  BY DEF Remove, Call, Calls, NoRefs, Ids
<1>2. Idle \in [pc : {"idle", "load", "save", "flush", "delete"}, call : Calls,
               todo : SUBSET (RefKinds \union {"self"}), base : Row \union {NoRow},
               late : SUBSET (Ids \union (Ids \X Ids))]
  BY <1>1 DEF Idle
<1>3. \A x \in Ids : {Initial[x]} \ {NoRow} \subseteq Row
  BY SMTT(30)
<1> QED BY <1>2, <1>3 DEF Init, TypeInv, TypeOK, LocalsOK, Idle, Stored

\* What a commit writes: a row of the table, each column the call's or the
\* one that is there.
LEMMA FlushWrites ==
    ASSUME TypeInv, NEW r \in Requests, Flush(r)
    PROVE  LET c == req[r].call
               row == Written(c, req[r].base, rows[c.id])
           IN /\ [org |-> c.org, ref |-> c.ref] \in Row /\ row \in Row
              /\ Columns(c.id[1], row.ref)
              /\ \/ row = [org |-> c.org, ref |-> c.ref]
                 \/ /\ Stored(c.id) /\ row.org \in {c.org, rows[c.id].org}
                    /\ \A k \in RefKinds : row.ref[k] \in {c.ref[k], rows[c.id].ref[k]}
<1> DEFINE c == req[r].call
           base == req[r].base
           now == rows[c.id]
           row == Written(c, base, now)
<1>1. /\ CallOK(c) /\ c.op # "delete" /\ c.id \in Ids /\ c.id[1] = c.kind
      /\ c.org \in Orgs /\ c.ref \in Refs /\ Columns(c.id[1], c.ref)
      /\ base \in Row \union {NoRow} /\ Stored(c.id) <=> base # NoRow
  BY CatalogAssumption DEF TypeInv, TypeOK, Flush, LocalsOK, CallOK, Calls, Refs
<1>2. [org |-> c.org, ref |-> c.ref] \in Row
  BY <1>1 DEF Row, Refs
<1>3. CASE base = NoRow
  <2>1. row = [org |-> c.org, ref |-> c.ref]
    BY SMTT(30), <1>3 DEF Written
  <2> QED BY <1>1, <1>2, <2>1
<1>4. CASE base # NoRow
  <2>1. Stored(c.id) /\ now \in Row /\ Columns(c.id[1], now.ref)
    BY <1>1, <1>4 DEF TypeInv, TypeOK, Stored
  <2>2. row = [org |-> Column(c.org, base.org, now.org),
               ref |-> [k \in RefKinds |-> Column(c.ref[k], base.ref[k], now.ref[k])]]
    BY SMTT(30), <1>4 DEF Written
  <2>3. row.org \in {c.org, now.org}
    BY SMTT(30), <2>2 DEF Column
  <2>4. \A k \in RefKinds : row.ref[k] \in {c.ref[k], now.ref[k]}
    BY <2>2 DEF Column
  <2>5. row.ref \in Refs /\ row.org \in Orgs
    <3> DEFINE col(k) == Column(c.ref[k], base.ref[k], now.ref[k])
    <3>1. \A k \in RefKinds : col(k) \in Ids \union {None}
      BY SMTT(30), <1>1, <2>1 DEF Column, Row, Refs
    <3>2. row.ref = [k \in RefKinds |-> col(k)]
      BY <2>2
    <3> HIDE DEF col, row
    <3>3. row.ref \in Refs
      BY SMTT(30), <3>1, <3>2 DEF Refs
    <3> QED BY SMTT(30), <1>1, <2>1, <2>3, <3>3 DEF Row
  <2>6. row \in Row
    BY <2>2, <2>5 DEF Row, Refs
  <2> HIDE DEF row, now, base
  <2>7. Columns(c.id[1], row.ref)
    BY <1>1, <2>1, <2>4 DEF Columns
  <2> QED BY <1>2, <2>1, <2>3, <2>4, <2>6, <2>7 DEF now, row, base
<1> QED BY ZenonT(60), <1>3, <1>4

LEMMA NextTyped == TypeInv /\ [Next]_vars => TypeInv'
<1> SUFFICES ASSUME TypeInv, [Next]_vars PROVE TypeInv'
  OBVIOUS
<1> USE CatalogAssumption DEF TypeInv
<1> DEFINE QT == [pc : {"idle", "load", "save", "flush", "delete"}, call : Calls,
                  todo : SUBSET (RefKinds \union {"self"}), base : Row \union {NoRow},
                  late : SUBSET (Ids \union (Ids \X Ids))]
<1>0. /\ req \in [Requests -> QT] /\ rows \in [Ids -> Row \union {NoRow}]
      /\ past \in [Ids -> SUBSET Row] /\ calls \in 0..MaxCalls /\ Idle \in QT
      /\ torn \subseteq Ids
      /\ \A x \in Ids : Stored(x) => Columns(x[1], rows[x].ref)
  <2>1. Remove(WorkerOrg, WorkerSite) \in Calls
    BY DEF Remove, Call, Calls, NoRefs, Ids
  <2> QED BY <2>1 DEF TypeOK, Idle
\* A row whose columns fit its table may be stored under its id.
<1>s. ASSUME NEW id \in Ids, NEW asked \in Row, NEW row \in Row, Columns(id[1], row.ref),
             rows' = [rows EXCEPT ![id] = row],
             past' = [past EXCEPT ![id] = @ \union {asked, row}]
      PROVE  /\ rows' \in [Ids -> Row \union {NoRow}] /\ past' \in [Ids -> SUBSET Row]
             /\ \A x \in Ids : Stored(x)' => Columns(x[1], rows'[x].ref)
  BY <1>0, <1>s DEF Stored
<1>1. ASSUME NEW c, CallOK(c), c.op # "delete", NEW id \in Ids, id[1] = c.kind,
             rows' = [rows EXCEPT ![id] = [org |-> c.org, ref |-> c.ref]],
             past' = [past EXCEPT ![id] = @ \union {[org |-> c.org, ref |-> c.ref]}]
      PROVE  /\ rows' \in [Ids -> Row \union {NoRow}] /\ past' \in [Ids -> SUBSET Row]
             /\ \A x \in Ids : Stored(x)' => Columns(x[1], rows'[x].ref)
  <2>1. [org |-> c.org, ref |-> c.ref] \in Row
    BY <1>1 DEF CallOK, Calls, Row
  <2> QED BY <1>0, <1>1, <2>1 DEF CallOK, Stored
<1>2. ASSUME NEW c \in HttpCalls \union SeedCalls, NEW r \in Requests, calls < MaxCalls, Start(r, c)
      PROVE  TypeInv'
  <2>1. CallOK(c) /\ Loads(c) \subseteq RefKinds \union {"self"} /\ c \in Calls
    BY CallsWellFormed DEF CallOK
  <2>2. req' \in [Requests -> QT] /\ calls' \in 0..MaxCalls
    BY <1>0, <1>2, <2>1 DEF Start
  <2>3. \A p \in Requests : LocalsOK(req'[p])
    BY SMTT(30), <1>0, <1>2, <2>1 DEF Start, LocalsOK
  <2> QED BY <1>0, <1>2, <2>2, <2>3 DEF Start, TypeOK, Stored
<1>3. ASSUME NEW r \in Requests, Load(r) PROVE TypeInv'
  <2>1. req' \in [Requests -> QT] /\ \A p \in Requests : LocalsOK(req'[p])
    BY SMTT(30), <1>0, <1>3 DEF Load, LocalsOK
  <2> QED BY <1>0, <1>3, <2>1 DEF Load, TypeOK, Stored
<1>4. ASSUME NEW r \in Requests, Number(r) PROVE TypeInv'
  <2>1. CASE req[r].call.id # None
    <3>1. req' \in [Requests -> QT] /\ \A p \in Requests : LocalsOK(req'[p])
      BY SMTT(30), <1>0, <1>4, <2>1 DEF Number, LocalsOK
    <3> QED BY <1>0, <1>4, <3>1 DEF Number, TypeOK, Stored
  <2>2. CASE req[r].call.id = None
    <3> DEFINE q == req[r]
               n == NewNumber(q.call.kind, q.call.org)
    <3>1. PICK name \in Names : req' = [req EXCEPT ![r] = [q EXCEPT !.pc = "save",
                 !.call = [q.call EXCEPT !.id = <<q.call.kind, name, n>>]]]
      BY <1>4, <2>2 DEF Number
    <3>2. CallOK(q.call) /\ q \in QT /\ q.todo = {} /\ q.call.op = "create"
      BY ZenonT(60), <1>0, <1>4 DEF Number, LocalsOK
    <3>3. n \in 0..MaxNumber
      BY <1>4, <2>2 DEF Number
    <3>4. <<q.call.kind, name, n>> \in Ids
      BY <3>2, <3>3 DEF Ids, CallOK, Calls
    <3>5. [q.call EXCEPT !.id = <<q.call.kind, name, n>>] \in Calls
      BY <3>2, <3>4 DEF CallOK, Calls
    <3> HIDE DEF n
    <3> DEFINE d == [q.call EXCEPT !.id = <<q.call.kind, name, n>>]
               q2 == [q EXCEPT !.pc = "save", !.call = d]
    <3>6. /\ d.op = "create" /\ d.kind = q.call.kind /\ d.ref = q.call.ref
          /\ d.id = <<q.call.kind, name, n>> /\ d.id # None /\ d.id[1] = d.kind
      BY <3>2, <3>4, <3>5 DEF CallOK, Calls
    <3>7. CallOK(d)
      BY SMTT(30), <3>2, <3>5, <3>6 DEF CallOK
    <3> HIDE DEF d
    <3>8. q2 \in QT /\ LocalsOK(q2)
      BY <3>2, <3>5, <3>6, <3>7 DEF LocalsOK, CallOK
    <3>9. req' = [req EXCEPT ![r] = q2]
      BY <3>1 DEF d
    <3> HIDE DEF q2
    <3>10. req' \in [Requests -> QT] /\ \A p \in Requests : LocalsOK(req'[p])
      BY <1>0, <3>8, <3>9
    <3> QED BY <1>0, <1>4, <3>10 DEF Number, TypeOK, Stored
  <2> QED BY <2>1, <2>2
<1>5. ASSUME NEW r \in Requests, Check(r) PROVE TypeInv'
  <2> DEFINE pc == IF req[r].call.op = "delete" THEN "delete" ELSE "save"
             q2 == [req[r] EXCEPT !.pc = pc]
  <2>a. /\ req[r] \in QT /\ req[r].pc = "load" /\ req[r].todo = {}
        /\ req[r].call.op # "create" /\ CallOK(req[r].call)
    BY <1>0, <1>5 DEF Check, LocalsOK
  <2>b. q2 \in QT /\ LocalsOK(q2)
    BY <2>a DEF LocalsOK, CallOK
  <2>c. req' = [req EXCEPT ![r] = q2]
    BY <1>0, <1>5 DEF Check
  <2> HIDE DEF q2
  <2>1. req' \in [Requests -> QT] /\ \A p \in Requests : LocalsOK(req'[p])
    BY <1>0, <2>b, <2>c
  <2> QED BY <1>0, <1>5, <2>1 DEF Check, TypeOK, Stored
<1>6. ASSUME NEW S \in SUBSET (Ids \union (Ids \X Ids))
      PROVE  /\ Late(S) \in [Requests -> QT]
             /\ \A p \in Requests : /\ LocalsOK(Late(S)[p])
                                    /\ Late(S)[p].pc = req[p].pc
  BY SMTT(30), <1>0, <1>6 DEF Late, LocalsOK
<1>m. ASSUME NEW r \in Requests, Merge(r) PROVE TypeInv'
  <2> DEFINE base == rows[req[r].call.id]
             q2 == [req[r] EXCEPT !.pc = "flush", !.base = base]
  <2>1. req[r] \in QT /\ req[r].pc = "save" /\ LocalsOK(req[r])
    BY <1>0, <1>m DEF Merge
  <2>2. base \in Row \union {NoRow}
    BY <1>0, <2>1 DEF LocalsOK, CallOK, Calls
  <2> HIDE DEF base
  <2>3. q2 \in QT /\ LocalsOK(q2)
    BY <2>1, <2>2 DEF LocalsOK, CallOK
  <2>4. req' = [req EXCEPT ![r] = q2]
    BY <1>0, <1>m DEF Merge, base
  <2> HIDE DEF q2
  <2>5. req' \in [Requests -> QT] /\ \A p \in Requests : LocalsOK(req'[p])
    BY <1>0, <2>3, <2>4
  <2> QED BY <1>0, <1>m, <2>5 DEF Merge, TypeOK, Stored
<1>7. ASSUME NEW r \in Requests, Flush(r) PROVE TypeInv'
  <2> DEFINE c == req[r].call
             asked == [org |-> c.org, ref |-> c.ref]
             row == Written(c, req[r].base, rows[c.id])
  <2>1. CallOK(c) /\ c.op # "delete" /\ c.id \in Ids /\ c.id[1] = c.kind
    BY SMTT(30), <1>0, <1>7 DEF Flush, LocalsOK, CallOK, Calls
  <2>2. /\ rows' = [rows EXCEPT ![c.id] = row]
        /\ past' = [past EXCEPT ![c.id] = @ \union {asked, row}]
        /\ req' = [Late({c.id} \intersect OfKind("camera")) EXCEPT ![r] = Idle]
        /\ torn' \subseteq torn \union {c.id}
    BY <1>7 DEF Flush
  <2>3. {c.id} \intersect OfKind("camera") \in SUBSET (Ids \union (Ids \X Ids))
    BY <2>1
  <2>4. req' \in [Requests -> QT] /\ \A p \in Requests : LocalsOK(req'[p])
    <3> DEFINE L == Late({c.id} \intersect OfKind("camera"))
    <3>1. L \in [Requests -> QT] /\ \A p \in Requests : LocalsOK(L[p])
      BY <1>6, <2>3
    <3>2. LocalsOK(Idle)
      BY DEF LocalsOK, Idle
    <3> HIDE DEF L
    <3>3. req' = [L EXCEPT ![r] = Idle]
      BY SMTT(30), <2>2 DEF L
    <3> QED BY <1>0, <3>1, <3>2, <3>3
  <2>5. asked \in Row /\ row \in Row /\ Columns(c.id[1], row.ref)
    BY SMTT(30), <1>7, <2>1, FlushWrites
  <2> HIDE DEF asked, row
  <2>6. /\ rows' \in [Ids -> Row \union {NoRow}] /\ past' \in [Ids -> SUBSET Row]
        /\ \A x \in Ids : Stored(x)' => Columns(x[1], rows'[x].ref)
    BY <1>s, <2>1, <2>2, <2>5
  <2>7. torn' \subseteq Ids
    BY <1>0, <2>1, <2>2
  <2> QED BY <1>7, <2>4, <2>6, <2>7 DEF Flush, TypeOK
<1>8. ASSUME NEW r \in Requests, Delete(r) \/ Abandon(r) PROVE TypeInv'
  <2>1. req' \in [Requests -> QT] /\ \A p \in Requests : LocalsOK(req'[p])
    BY <1>0, <1>8 DEF Delete, Abandon, LocalsOK, Idle
  <2>2. /\ rows' \in [Ids -> Row \union {NoRow}]
        /\ \A x \in Ids : rows'[x] \in {rows[x], NoRow}
    BY <1>0, <1>8 DEF Delete, Abandon
  <2> QED BY <1>0, <1>8, <2>1, <2>2 DEF Delete, Abandon, TypeOK, Stored
<1>9. ASSUME NEW c \in HttpCalls \union SeedCalls, calls < MaxCalls, InMemory(c) PROVE TypeInv'
  <2>1. CallOK(c) /\ c \in Calls
    BY CallsWellFormed DEF CallOK
  <2>2. calls' \in 0..MaxCalls /\ req' = req /\ backend' = backend /\ torn' = torn
        /\ config' = config /\ incidents' = incidents
    BY <1>0, <1>9 DEF InMemory
  <2>3. CASE MemoryCreate(c)
    <3>1. PICK name \in Names :
            LET n == Cardinality({x \in OfKind(c.kind) : Stored(x)}) + 1
                id == IF c.id = None THEN <<c.kind, name, n>> ELSE c.id
                row == [org |-> c.org, ref |-> c.ref]
            IN /\ c.id = None => n \in 0..MaxNumber
               /\ rows' = [rows EXCEPT ![id] = row]
               /\ past' = [past EXCEPT ![id] = @ \union {row}]
      BY <2>3 DEF MemoryCreate
    <3> DEFINE n == Cardinality({x \in OfKind(c.kind) : Stored(x)}) + 1
               id == IF c.id = None THEN <<c.kind, name, n>> ELSE c.id
    <3>2. id \in Ids /\ id[1] = c.kind
      <4>1. CASE c.id = None
        <5>1. n \in 0..MaxNumber
          BY <3>1, <4>1
        <5> HIDE DEF n
        <5> QED BY <2>1, <4>1, <5>1 DEF Ids, Calls
      <4>2. CASE c.id # None
        BY <2>1, <4>2 DEF CallOK, Calls
      <4> QED BY <4>1, <4>2
    <3>3. /\ rows' = [rows EXCEPT ![id] = [org |-> c.org, ref |-> c.ref]]
          /\ past' = [past EXCEPT ![id] = @ \union {[org |-> c.org, ref |-> c.ref]}]
      BY <3>1
    <3> HIDE DEF id
    <3>4. c.op # "delete"
      BY <2>3 DEF MemoryCreate
    <3>5. /\ rows' \in [Ids -> Row \union {NoRow}] /\ past' \in [Ids -> SUBSET Row]
          /\ \A x \in Ids : Stored(x)' => Columns(x[1], rows'[x].ref)
      BY <1>1, <2>1, <3>2, <3>3, <3>4
    <3> QED BY <2>2, <3>5 DEF TypeOK, LocalsOK
  <2>4. CASE MemoryUpdate(c)
    <3> DEFINE ref == IF \A k \in RefKinds : Agrees(c, k) THEN c.ref
                      ELSE [rows[c.id].ref EXCEPT !["site"] = c.ref["site"]]
               d == [c EXCEPT !.ref = ref]
    <3>1. /\ c.op = "update" /\ c.id \in Ids /\ Stored(c.id) /\ c.id[1] = c.kind
      BY <2>1, <2>4 DEF MemoryUpdate, CallOK, Owned, Calls
    <3>2. rows[c.id] \in Row /\ Columns(c.kind, rows[c.id].ref) /\ Columns(c.kind, c.ref)
      BY SMTT(30), <1>0, <2>1, <3>1 DEF CallOK, Stored
    <3>3. ref \in [RefKinds -> Ids \union {None}] /\ Columns(c.kind, ref)
      BY <2>1, <3>1, <3>2 DEF Columns, Row, Calls, RefKinds
    <3>4. /\ rows' = [rows EXCEPT ![c.id] = [org |-> c.org, ref |-> ref]]
          /\ past' = [past EXCEPT ![c.id] = @ \union {[org |-> c.org, ref |-> ref]}]
      BY <2>4 DEF MemoryUpdate
    <3> HIDE DEF ref
    <3>5. CallOK(d) /\ d.op # "delete" /\ d.kind = c.kind /\ d.org = c.org /\ d.ref = ref
      BY <2>1, <3>1, <3>3 DEF CallOK, Calls
    <3> HIDE DEF d
    <3>6. /\ rows' \in [Ids -> Row \union {NoRow}] /\ past' \in [Ids -> SUBSET Row]
          /\ \A x \in Ids : Stored(x)' => Columns(x[1], rows'[x].ref)
      BY ZenonT(60), <1>1, <3>1, <3>4, <3>5
    <3> QED BY <2>2, <3>6 DEF TypeOK, LocalsOK
  <2>5. CASE MemoryDelete(c)
    <3>1. past' = past /\ rows' \in [Ids -> Row \union {NoRow}]
          /\ \A x \in Ids : rows'[x] \in {rows[x], NoRow}
      BY <1>0, <2>5 DEF MemoryDelete
    <3> QED BY <1>0, <2>2, <3>1 DEF TypeOK, LocalsOK, Stored
  <2> QED BY <1>9, <2>3, <2>4, <2>5 DEF InMemory
<1>10. CASE WorkerConfig
  <2>1. config' \subseteq Ids \X Ids
    BY <1>10 DEF WorkerConfig, List, OfKind
  <2> QED BY <1>0, <1>10, <2>1 DEF WorkerConfig, TypeOK, Stored, LocalsOK
<1>11. ASSUME NEW i \in config, Detection(i) PROVE TypeInv'
  <2>1. i \in Ids \X Ids
    BY DEF TypeOK
  <2>2. req' \in [Requests -> QT] /\ \A p \in Requests : LocalsOK(req'[p])
    BY <1>6, <1>11, <2>1 DEF Detection
  <2> QED BY <1>0, <1>11, <2>1, <2>2 DEF Detection, TypeOK, Stored
<1>12. CASE UNCHANGED vars
  BY <1>0, <1>12 DEF vars, TypeOK, Stored, LocalsOK
<1> QED BY <1>2, <1>3, <1>4, <1>5, <1>m, <1>7, <1>8, <1>9, <1>10, <1>11, <1>12 DEF Next

\* TypeOK holds for any number of organizations, requests and rows.
THEOREM TypeCorrect == Spec => []TypeOK
<1>1. TypeInv => TypeOK
  BY DEF TypeInv
<1> QED BY <1>1, InitTyped, NextTyped, PTL DEF Spec

-----------------------------------------------------------------------------
LEMMA VouchedStays ==
    ASSUME NEW b, NEW P, NEW Q, NEW kind, NEW org, NEW ref \in Refs, NEW K \in SUBSET RefKinds,
           \A x \in Ids : P[x] \subseteq Q[x], AllVouched(b, P, kind, org, ref, K)
    PROVE  AllVouched(b, Q, kind, org, ref, K)
BY DEF AllVouched, Vouched, Refs

\* A row of the organization that stands where ref[k] points vouches for it.
LEMMA RowVouches ==
    ASSUME NEW b, NEW P, NEW kind, NEW org, NEW ref, NEW k, NEW row,
           row \in P[ref[k]], row.org = org,
           (b = "postgres" /\ kind = "zone" /\ k = "camera") => row.ref["site"] = ref["site"]
    PROVE  Vouched(b, P, kind, org, ref, k)
BY DEF Vouched

LEMMA ZoneHasCamera ==
    ASSUME NEW ref \in Refs, Columns("zone", ref)
    PROVE  ref["camera"] \in Ids /\ ref["camera"] # None /\ "camera" \in RefKinds
<1>1. "camera" \in NotNull["zone"] /\ "camera" \in RefKinds
  BY DEF NotNull, Parents, RefKinds
<1> QED BY <1>1 DEF Columns, Refs

\* A row every column of which is vouched for is explained by itself.
LEMMA VouchedRow ==
    ASSUME NEW x \in Ids, NEW row \in Row, Columns(x[1], row.ref),
           AllVouched(backend, past, x[1], row.org, row.ref, RefKinds)
    PROVE  /\ \A k \in RefKinds : row.ref[k] # None =>
                \E p \in past[row.ref[k]] : p.org = row.org
           /\ (backend = "postgres" /\ x[1] = "zone") => Followed(row)
<1>1. row.ref \in Refs
  BY DEF Row, Refs
<1>2. \A k \in RefKinds : row.ref[k] # None => \E p \in past[row.ref[k]] : p.org = row.org
  BY DEF AllVouched, Vouched
<1>3. ASSUME backend = "postgres", x[1] = "zone" PROVE Followed(row)
  <2>1. row.ref["camera"] # None /\ "camera" \in RefKinds
    BY <1>1, <1>3, ZoneHasCamera
  <2> QED BY <1>3, <2>1 DEF AllVouched, Vouched, Followed
<1> QED BY <1>2, <1>3

LEMMA InitVouched == Init => Inv
<1> SUFFICES ASSUME Init PROVE Inv
  OBVIOUS
<1> USE CatalogAssumption
<1>1. TypeInv
  BY InitTyped
<1>2. ASSUME NEW x \in Ids, Stored(x)
      PROVE  /\ rows[x] \in past[x] /\ rows[x] \in Row /\ Columns(x[1], rows[x].ref)
             /\ AllVouched(backend, past, x[1], rows[x].org, rows[x].ref, RefKinds)
  <2>1. /\ rows[x] = Initial[x] /\ Initial[x] # NoRow /\ rows[x] \in past[x]
        /\ rows[x] \in Row /\ Columns(x[1], rows[x].ref)
    BY <1>2 DEF Init, Stored
  <2>2. ASSUME NEW k \in RefKinds, rows[x].ref[k] # None
        PROVE  Vouched(backend, past, x[1], rows[x].org, rows[x].ref, k)
    <3> DEFINE y == rows[x].ref[k]
    <3>1. y \in Ids /\ Initial[y] # NoRow /\ Initial[y].org = rows[x].org
          /\ ((x[1] = "zone" /\ k = "camera") => Initial[y].ref["site"] = rows[x].ref["site"])
      BY <2>1, <2>2 DEF Row
    <3>2. Initial[y] \in past[y]
      BY <3>1 DEF Init
    <3> HIDE DEF y
    <3>3. Initial[y] \in past[rows[x].ref[k]]
      BY <3>2 DEF y
    <3> QED BY <3>1, <3>3, RowVouches
  <2> QED BY <2>1, <2>2 DEF AllVouched
<1>3. TenantsMeetInSharedIds
  BY <1>2, VouchedRow DEF TenantsMeetInSharedIds
<1>4. ZonesFollowCameras
  BY <1>2, VouchedRow DEF ZonesFollowCameras, OfKind
<1>5. PastFits
  BY DEF Init, PastFits
<1>6. \A r \in Requests : CallVouched(req[r])
  BY DEF Init, Idle, CallVouched
<1> QED BY <1>1, <1>2, <1>3, <1>4, <1>5, <1>6 DEF Inv, RowsVouched, RowsKnown, CallsVouched

\* Nothing but rows that are stored and removed, and calls that go on as
\* they were, disturbs the invariant.
LEMMA QuietVouched ==
    ASSUME Inv, backend' = backend, past' = past, torn' = torn,
           \A x \in Ids : rows'[x] = rows[x] \/ rows'[x] = NoRow,
           \A r \in Requests : \/ CallVouched(req[r])' 
                              \/ /\ req'[r].call = req[r].call /\ req'[r].todo = req[r].todo
                                 /\ req[r].pc \in {"load", "save", "flush"} \/ req'[r].pc = req[r].pc
    PROVE  (RowsVouched /\ CallsVouched)'
<1>1. \A x \in Ids : Stored(x)' => Stored(x) /\ rows'[x] = rows[x]
  BY DEF Stored
<1>2. RowsKnown'
  BY <1>1 DEF Inv, RowsVouched, RowsKnown
<1>3. TenantsMeetInSharedIds'
  BY <1>1 DEF Inv, RowsVouched, TenantsMeetInSharedIds
<1>4. ZonesFollowCameras'
  BY <1>1 DEF Inv, RowsVouched, ZonesFollowCameras, Followed, OfKind
<1>5. PastFits'
  BY DEF Inv, RowsVouched, PastFits
<1>6. CallsVouched'
  BY DEF Inv, CallsVouched, CallVouched, AllVouched, Vouched
<1> QED BY <1>2, <1>3, <1>4, <1>5, <1>6 DEF RowsVouched

\* A row that is explained is stored under its id.
LEMMA StoreVouched ==
    ASSUME Inv, TypeInv', backend' = backend, NEW id \in Ids, NEW asked \in Row, NEW row \in Row,
           rows' = [rows EXCEPT ![id] = row],
           past' = [past EXCEPT ![id] = @ \union {asked, row}],
           torn \ {id} \subseteq torn', Columns(id[1], asked.ref),
           \A k \in RefKinds : row.ref[k] # None => \E p \in past[row.ref[k]] :
              p.org = row.org \/ (id \in torn' /\ \E q \in past[id] \union {asked} : q.org = p.org),
           (backend = "postgres" /\ id[1] = "zone") =>
              \/ Followed(row)
              \/ id \in torn' /\ \E q \in past[id] \union {asked} :
                                   q.ref["site"] = row.ref["site"] /\ Followed(q),
           \A r \in Requests : \/ req'[r].pc = "idle"
                              \/ /\ req'[r].call = req[r].call /\ req'[r].todo = req[r].todo
                                 /\ req'[r].pc = req[r].pc
    PROVE  (RowsVouched /\ CallsVouched)'
<1>0. TypeOK /\ TypeOK' /\ rows \in [Ids -> Row \union {NoRow}] /\ past \in [Ids -> SUBSET Row]
  BY DEF Inv, TypeInv, TypeOK
<1>1. \A x \in Ids : past[x] \subseteq past'[x] /\ past'[x] \in SUBSET Row
  BY <1>0
<1>2. \A x \in Ids \ {id} : /\ rows'[x] = rows[x] /\ past'[x] = past[x]
                            /\ x \in torn => x \in torn'
  BY <1>0
<1>3. rows'[id] = row /\ past'[id] = past[id] \union {asked, row}
  BY <1>0
<1>4. RowsKnown'
  BY <1>1, <1>2, <1>3 DEF Inv, RowsVouched, RowsKnown, Stored
<1>5. PastFits'
  <2>1. Columns(id[1], row.ref)
    BY <1>0, <1>3, CatalogAssumption DEF TypeOK, Stored
  <2>2. ASSUME NEW x \in Ids, NEW q \in past'[x] PROVE Columns(x[1], q.ref)
    <3>1. CASE x # id
      BY <1>2, <2>2, <3>1 DEF Inv, RowsVouched, PastFits
    <3>2. CASE x = id /\ q \in past[id]
      BY <3>2 DEF Inv, RowsVouched, PastFits
    <3>3. CASE x = id /\ q \in {asked, row}
      BY <2>1, <3>3
    <3> QED BY <1>3, <2>2, <3>1, <3>2, <3>3
  <2> QED BY <2>2 DEF PastFits
\* What was in the history stays there.
<1>6. ASSUME NEW x \in Ids, x[1] = "zone", NEW q \in past'[x], Followed(q) PROVE Followed(q)'
  <2>1. q.ref["camera"] \in Ids
    <3>1. q.ref \in Refs /\ Columns("zone", q.ref)
      BY <1>1, <1>5, <1>6 DEF PastFits, Row, Refs
    <3> QED BY <3>1, ZoneHasCamera
  <2> QED BY <1>1, <1>6, <2>1 DEF Followed
<1>7. TenantsMeetInSharedIds'
  <2> SUFFICES ASSUME NEW x \in Ids, NEW k \in RefKinds, Stored(x)', rows'[x].ref[k] # None
               PROVE  \E p \in past'[rows'[x].ref[k]] :
                        p.org = rows'[x].org \/ (x \in torn' /\ \E q \in past'[x] : q.org = p.org)
    BY DEF TenantsMeetInSharedIds
  <2>1. rows'[x].ref[k] \in Ids
    BY <1>0, CatalogAssumption DEF TypeOK, Stored, Row
  <2>2. CASE x = id
    BY <1>1, <1>3, <2>1, <2>2
  <2>3. CASE x # id
    <3>1. Stored(x) /\ rows'[x] = rows[x] /\ past'[x] = past[x] /\ (x \in torn => x \in torn')
      BY <1>2, <2>3 DEF Stored
    <3>2. \E p \in past[rows[x].ref[k]] :
             p.org = rows[x].org \/ (x \in torn /\ \E q \in past[x] : q.org = p.org)
      BY <3>1 DEF Inv, RowsVouched, TenantsMeetInSharedIds
    <3> QED BY <1>1, <2>1, <3>1, <3>2
  <2> QED BY <2>2, <2>3
<1>8. ZonesFollowCameras'
  <2> SUFFICES ASSUME backend = "postgres", NEW z \in OfKind("zone"), Stored(z)'
               PROVE  \/ Followed(rows[z])'
                      \/ z \in torn' /\ \E q \in past'[z] :
                            q.ref["site"] = rows'[z].ref["site"] /\ Followed(q)'
    BY DEF ZonesFollowCameras
  <2>0. z \in Ids /\ z[1] = "zone" /\ rows'[z] \in past'[z]
    BY <1>4 DEF OfKind, RowsKnown
  <2>1. CASE z = id
    <3>1. \/ Followed(row)
          \/ id \in torn' /\ \E q \in past[id] \union {asked} :
                                   q.ref["site"] = row.ref["site"] /\ Followed(q)
      BY <2>0, <2>1
    <3>2. CASE Followed(row)
      <4>1. row \in past'[z] /\ Followed(row)'
        BY <1>3, <1>6, <2>0, <2>1, <3>2
      <4>2. Followed(rows[z])'
        BY <1>3, <2>1, <4>1 DEF Followed
      <4> QED BY <4>2
    <3>3. CASE id \in torn' /\ \E q \in past[id] \union {asked} :
                                   q.ref["site"] = row.ref["site"] /\ Followed(q)
      <4>1. PICK q \in past[id] \union {asked} : q.ref["site"] = row.ref["site"] /\ Followed(q)
        BY <3>3
      <4>2. q \in past'[z] /\ Followed(q)'
        BY <1>3, <1>6, <2>0, <2>1, <4>1
      <4> QED BY <1>3, <2>1, <3>3, <4>1, <4>2
    <3> QED BY <3>1, <3>2, <3>3
  <2>2. CASE z # id
    <3>1. Stored(z) /\ rows'[z] = rows[z] /\ past'[z] = past[z] /\ (z \in torn => z \in torn')
      BY <1>2, <2>0, <2>2 DEF Stored
    <3>2. \/ Followed(rows[z])
          \/ z \in torn /\ \E q \in past[z] : q.ref["site"] = rows[z].ref["site"] /\ Followed(q)
      BY <3>1 DEF Inv, RowsVouched, ZonesFollowCameras
    <3>3. CASE Followed(rows[z])
      <4>1. Followed(rows'[z])
        BY <3>1, <3>3
      <4>2. \E p \in past[rows'[z].ref["camera"]] : p.ref["site"] = rows'[z].ref["site"]
        BY <4>1 DEF Followed
      <4>3. rows'[z].ref["camera"] \in Ids
        <5>1. rows'[z].ref \in Refs /\ Columns("zone", rows'[z].ref)
          BY <1>1, <1>5, <2>0 DEF PastFits, Row, Refs
        <5> QED BY <5>1, ZoneHasCamera
      <4>4. Followed(rows[z])'
        BY <1>1, <4>2, <4>3 DEF Followed
      <4> QED BY <4>4
    <3>4. CASE z \in torn /\ \E q \in past[z] : q.ref["site"] = rows[z].ref["site"] /\ Followed(q)
      <4>1. PICK q \in past[z] : q.ref["site"] = rows[z].ref["site"] /\ Followed(q)
        BY <3>4
      <4>2. q \in past'[z] /\ Followed(q)'
        BY <1>6, <2>0, <3>1, <4>1
      <4> QED BY <3>1, <3>4, <4>1, <4>2
    <3> QED BY <3>2, <3>3, <3>4
  <2> QED BY <2>1, <2>2
<1>9. ASSUME NEW r \in Requests, req'[r].pc \in {"load", "save", "flush"}, req'[r].call.op # "delete"
      PROVE  AllVouched(backend, past', req'[r].call.kind, req'[r].call.org, req'[r].call.ref,
                        RefKinds \ req'[r].todo)
  <2>1. /\ req'[r].call = req[r].call /\ req'[r].todo = req[r].todo /\ req'[r].pc = req[r].pc
    BY <1>9
  <2>2. req[r].call.ref \in Refs
    BY DEF Inv, TypeInv, TypeOK, Calls, Refs
  <2>3. AllVouched(backend, past, req[r].call.kind, req[r].call.org, req[r].call.ref,
                   RefKinds \ req[r].todo)
    BY <1>9, <2>1 DEF Inv, CallsVouched, CallVouched
  <2>4. RefKinds \ req[r].todo \in SUBSET RefKinds
    OBVIOUS
  <2> QED BY <1>1, <2>1, <2>2, <2>3, <2>4, VouchedStays
<1> QED BY <1>4, <1>5, <1>7, <1>8, <1>9 DEF RowsVouched, CallsVouched, CallVouched

LEMMA NextVouched == Inv /\ [Next]_vars => Inv'
<1> SUFFICES ASSUME Inv, [Next]_vars PROVE Inv'
  OBVIOUS
<1>0. TypeInv' /\ TypeInv /\ TypeOK
  BY NextTyped DEF Inv, TypeInv
<1>t. \A r \in Requests : /\ DOMAIN req = Requests
          /\ req[r] = [pc |-> req[r].pc, call |-> req[r].call, todo |-> req[r].todo,
                       base |-> req[r].base, late |-> req[r].late]
          /\ req[r].call \in Calls /\ req[r].todo \subseteq RefKinds \union {"self"}
          /\ LocalsOK(req[r])
  BY <1>0 DEF TypeOK, TypeInv
<1>1. ASSUME NEW c \in HttpCalls \union SeedCalls, NEW r \in Requests, Start(r, c) PROVE Inv'
  <2>1. req' = [req EXCEPT ![r] = [pc |-> "load", call |-> c, todo |-> Loads(c),
                                     base |-> NoRow, late |-> {}]]
        /\ backend' = backend /\ past' = past /\ torn' = torn /\ rows' = rows
    BY <1>1 DEF Start
  <2>2. CallVouched(req[r])'
    BY <1>t, <2>1 DEF CallVouched, AllVouched, Loads
  <2>3. \A p \in Requests \ {r} : req'[p] = req[p]
    BY <1>t, <2>1
  <2> QED BY <1>0, <2>1, <2>2, <2>3, QuietVouched DEF Inv
<1>2. ASSUME NEW r \in Requests, Load(r) PROVE Inv'
  <2> DEFINE q == req[r]
             k == NextLoad(q.todo)
             x == IF k = "self" THEN q.call.id ELSE q.call.ref[k]
  <2>1. /\ q.pc = "load" /\ q.todo # {} /\ Owned(x, q.call.org) /\ Fits(k, x, q.call.ref)
        /\ req' = [req EXCEPT ![r].todo = @ \ {k}]
        /\ backend' = backend /\ past' = past /\ torn' = torn /\ rows' = rows
    BY <1>2 DEF Load
  <2>2. /\ req'[r] = [q EXCEPT !.todo = q.todo \ {k}]
        /\ \A p \in Requests \ {r} : req'[p] = req[p]
    BY <1>t, <2>1
  <2>3. k \in q.todo
    BY <1>t, <2>1, OrderPicks
  <2>4. ASSUME q.call.op # "delete", k \in RefKinds, q.call.ref[k] # None
        PROVE  Vouched(backend, past, q.call.kind, q.call.org, q.call.ref, k)
    <3>1. k # "self" /\ x = q.call.ref[k]
      BY <2>4 DEF RefKinds
    <3>2. x \in Ids /\ CallOK(q.call)
      <4> HIDE DEF k, x
      <4>1. q.call.ref \in Refs
        BY <1>t DEF Calls, Refs
      <4>2. x \in Ids
        BY <2>4, <3>1, <4>1 DEF Refs
      <4> QED BY <1>t, <2>1, <4>2 DEF LocalsOK
    <3>3. Stored(x) /\ rows[x].org = q.call.org /\ rows[x] \in past[x]
      BY <2>1, <3>2 DEF Owned, Inv, RowsVouched, RowsKnown
    <3>4. q.call.kind = "zone" => q.call.ref["site"] # None
      BY <3>2, <2>4 DEF CallOK, Columns, NotNull, Parents, RefKinds
    <3>5. (q.call.kind = "zone" /\ k = "camera") => rows[x].ref["site"] = q.call.ref["site"]
      BY <2>1, <3>4 DEF Fits
    <3> HIDE DEF k, x
    <3> QED BY <3>1, <3>3, <3>5, RowVouches
  <2>5. CallVouched(req[r])'
    <3> SUFFICES ASSUME q.call.op # "delete",
                        NEW j \in RefKinds \ (q.todo \ {k}), q.call.ref[j] # None
                 PROVE  Vouched(backend, past, q.call.kind, q.call.org, q.call.ref, j)
      BY <1>t, <2>1, <2>2 DEF CallVouched, AllVouched
    <3>1. CASE j = k
      BY <2>4, <3>1
    <3>2. CASE j \in RefKinds \ q.todo
      BY <2>1, <3>2 DEF Inv, CallsVouched, CallVouched, AllVouched
    <3> QED BY SMTT(30), <3>1, <3>2
  <2> QED BY SMTT(30), <1>0, <2>1, <2>2, <2>5, QuietVouched DEF Inv
<1>3. ASSUME NEW r \in Requests, Number(r) PROVE Inv'
  <2>1. /\ req[r].pc = "load" /\ backend' = backend /\ past' = past /\ torn' = torn /\ rows' = rows
        /\ \A p \in Requests \ {r} : req'[p] = req[p]
        /\ req'[r].call.kind = req[r].call.kind /\ req'[r].call.org = req[r].call.org
        /\ req'[r].call.ref = req[r].call.ref /\ req'[r].todo = req[r].todo
        /\ req'[r].call.op = req[r].call.op
    <3>1. CASE req[r].call.id # None
      BY ZenonT(60), <1>3, <1>t, <3>1 DEF Number
    <3>2. CASE req[r].call.id = None
      <4>1. PICK name \in Names : req' = [req EXCEPT ![r] =
                 [req[r] EXCEPT !.pc = "save",
                    !.call = [req[r].call EXCEPT !.id = <<req[r].call.kind, name,
                       NewNumber(req[r].call.kind, req[r].call.org)>>]]]
        BY <1>3, <3>2 DEF Number
      <4> DEFINE id == <<req[r].call.kind, name, NewNumber(req[r].call.kind, req[r].call.org)>>
                 d == [req[r].call EXCEPT !.id = id]
      <4> HIDE DEF id
      <4>2. /\ d.kind = req[r].call.kind /\ d.org = req[r].call.org
            /\ d.ref = req[r].call.ref /\ d.op = req[r].call.op
        BY <1>t DEF Calls
      <4>3. req' = [req EXCEPT ![r] = [req[r] EXCEPT !.pc = "save", !.call = d]]
        BY <4>1 DEF id
      <4> HIDE DEF d
      <4>4. /\ \A p \in Requests \ {r} : req'[p] = req[p]
            /\ req'[r].call = d /\ req'[r].todo = req[r].todo
        <5> DEFINE q2 == [req[r] EXCEPT !.pc = "save", !.call = d]
        <5>1. q2.call = d /\ q2.todo = req[r].todo
          BY <1>0 DEF TypeOK
        <5>2. req' = [req EXCEPT ![r] = q2]
          BY <4>3
        <5> HIDE DEF q2
        <5> QED BY <1>t, <5>1, <5>2
      <4> QED BY <1>3, <4>2, <4>4 DEF Number
    <3> QED BY <3>1, <3>2
  <2>2. CallVouched(req[r])'
    BY <2>1 DEF Inv, CallsVouched, CallVouched
  <2> QED BY <1>0, <2>1, <2>2, QuietVouched DEF Inv
<1>4. ASSUME NEW r \in Requests, Check(r) PROVE Inv'
  <2>1. /\ req[r].pc = "load" /\ backend' = backend /\ past' = past /\ torn' = torn /\ rows' = rows
        /\ \A p \in Requests \ {r} : req'[p] = req[p]
        /\ req'[r].call = req[r].call /\ req'[r].todo = req[r].todo
    BY <1>4, <1>t DEF Check
  <2> QED BY <1>0, <2>1, QuietVouched DEF Inv
<1>5. ASSUME NEW S, NEW p \in Requests
      PROVE  /\ Late(S)[p].call = req[p].call /\ Late(S)[p].todo = req[p].todo
             /\ Late(S)[p].pc = req[p].pc
  BY <1>t DEF Late
<1>m. ASSUME NEW r \in Requests, Merge(r) PROVE Inv'
  <2>1. /\ req[r].pc = "save" /\ backend' = backend /\ past' = past /\ torn' = torn /\ rows' = rows
        /\ \A p \in Requests \ {r} : req'[p] = req[p]
        /\ req'[r].call = req[r].call /\ req'[r].todo = req[r].todo
    <3> DEFINE base == rows[req[r].call.id]
               q2 == [req[r] EXCEPT !.pc = "flush", !.base = base]
    <3>1. req' = [req EXCEPT ![r] = q2]
      BY <1>t, <1>m DEF Merge
    <3>2. q2.call = req[r].call /\ q2.todo = req[r].todo
      BY <1>t
    <3> HIDE DEF q2
    <3> QED BY <1>t, <1>m, <3>1, <3>2 DEF Merge
  <2> QED BY <1>0, <2>1, QuietVouched DEF Inv
<1>6. ASSUME NEW r \in Requests, Flush(r) PROVE Inv'
  <2> DEFINE c == req[r].call
             asked == [org |-> c.org, ref |-> c.ref]
             row == Written(c, req[r].base, rows[c.id])
             L == Late({c.id} \intersect OfKind("camera"))
  <2>1. /\ rows' = [rows EXCEPT ![c.id] = row]
        /\ past' = [past EXCEPT ![c.id] = @ \union {asked, row}]
        /\ torn' = IF row = asked THEN torn \ {c.id} ELSE torn \union {c.id}
        /\ req' = [L EXCEPT ![r] = Idle] /\ backend' = backend
        /\ req[r].pc = "flush"
    BY <1>6 DEF Flush
  <2>2. c.id \in Ids /\ c.id[1] = c.kind /\ c.op # "delete" /\ req[r].todo = {}
    BY <1>t, <2>1 DEF LocalsOK, CallOK, Calls
  <2>3. AllVouched(backend, past, c.id[1], asked.org, asked.ref, RefKinds)
    BY <2>1, <2>2 DEF Inv, CallsVouched, CallVouched, AllVouched
  <2>4. DOMAIN L = Requests
    BY DEF Late
  <2>5. \A p \in Requests : \/ req'[p].pc = "idle"
                           \/ /\ req'[p].call = req[p].call /\ req'[p].todo = req[p].todo
                              /\ req'[p].pc = req[p].pc
    <3> HIDE DEF L
    <3>1. \A p \in Requests : req'[p] = IF p = r THEN Idle ELSE L[p]
      BY SMTT(30), <2>1, <2>4
    <3> QED BY <1>5, <3>1 DEF Idle, L
  <2>6. /\ asked \in Row /\ row \in Row
        /\ \/ row = asked
           \/ /\ Stored(c.id) /\ row.org \in {asked.org, rows[c.id].org}
              /\ \A k \in RefKinds : row.ref[k] \in {asked.ref[k], rows[c.id].ref[k]}
    BY <1>0, <1>6, FlushWrites
  <2>7. Columns(c.id[1], asked.ref)
    BY <1>t, <2>1, <2>2 DEF LocalsOK, CallOK
  <2> DEFINE id == c.id
  <2> HIDE DEF row, asked, L, c
  <2>8. /\ \A k \in RefKinds : asked.ref[k] # None => \E p \in past[asked.ref[k]] : p.org = asked.org
        /\ (backend = "postgres" /\ id[1] = "zone") => Followed(asked)
    BY <2>2, <2>3, <2>6, <2>7, VouchedRow
\* The row that is there explains the columns that are left alone.
  <2>9. ASSUME Stored(id)
        PROVE  /\ rows[id] \in past[id] /\ rows[id] \in Row
               /\ \A k \in RefKinds : rows[id].ref[k] # None => \E p \in past[rows[id].ref[k]] :
                    \E q \in past[id] : q.org = p.org
               /\ (backend = "postgres" /\ id[1] = "zone") => \E q \in past[id] :
                    q.ref["site"] = rows[id].ref["site"] /\ Followed(q)
    <3>1. rows[id] \in past[id] /\ rows[id] \in Row
      BY <1>0, <2>2, <2>9, RefsInRow DEF Inv, RowsVouched, RowsKnown
    <3>2. \A k \in RefKinds : rows[id].ref[k] # None => \E p \in past[rows[id].ref[k]] :
                    \E q \in past[id] : q.org = p.org
      BY <2>2, <2>9, <3>1 DEF Inv, RowsVouched, TenantsMeetInSharedIds
    <3>3. (backend = "postgres" /\ id[1] = "zone") => \E q \in past[id] :
                    q.ref["site"] = rows[id].ref["site"] /\ Followed(q)
      BY <2>2, <2>9, <3>1 DEF Inv, RowsVouched, ZonesFollowCameras, OfKind
    <3> QED BY <3>1, <3>2, <3>3
  <2>10. \A k \in RefKinds : row.ref[k] # None => \E p \in past[row.ref[k]] :
           p.org = row.org \/ (id \in torn' /\ \E q \in past[id] \union {asked} : q.org = p.org)
    <3>1. CASE row = asked
      BY <2>8, <3>1
    <3>2. CASE row # asked
      BY <2>1, <2>6, <2>8, <2>9, <3>2
    <3> QED BY <3>1, <3>2
  <2>11. (backend = "postgres" /\ id[1] = "zone") =>
              \/ Followed(row)
              \/ id \in torn' /\ \E q \in past[id] \union {asked} :
                                   q.ref["site"] = row.ref["site"] /\ Followed(q)
    <3>1. CASE row = asked
      BY <2>8, <3>1
    <3>2. CASE row # asked
      <4>1. row.ref["site"] \in {asked.ref["site"], rows[id].ref["site"]} /\ Stored(id)
        BY <2>6, <3>2 DEF RefKinds
      <4> QED BY <2>1, <2>8, <2>9, <3>2, <4>1
    <3> QED BY <3>1, <3>2
  <2>12. torn \ {id} \subseteq torn'
    BY <2>1
  <2>13. (RowsVouched /\ CallsVouched)'
    BY ZenonT(60), <1>0, <2>1, <2>2, <2>5, <2>6, <2>7, <2>10, <2>11, <2>12, StoreVouched
  <2> QED BY <1>0, <2>13 DEF Inv
<1>7. ASSUME NEW r \in Requests, Delete(r) \/ Abandon(r) PROVE Inv'
  <2>1. /\ backend' = backend /\ past' = past /\ torn' = torn
        /\ \A p \in Requests : req'[p] = IF p = r THEN Idle ELSE req[p]
        /\ \A x \in Ids : rows'[x] = rows[x] \/ rows'[x] = NoRow
    BY <1>t, <1>7 DEF Delete, Abandon
  <2>2. CallVouched(req[r])'
    BY <2>1 DEF Idle, CallVouched
  <2> QED BY <1>0, <2>1, <2>2, QuietVouched DEF Inv
<1>8. ASSUME NEW c \in HttpCalls \union SeedCalls, InMemory(c) PROVE Inv'
  <2>1. CallOK(c) /\ c \in Calls
    BY CallsWellFormed DEF CallOK
  <2>2. backend = "memory" /\ backend' = backend /\ torn' = torn /\ req' = req
    BY <1>8 DEF InMemory
  <2>3. ASSUME NEW k \in RefKinds, NEW kind, NEW ref, c.ref[k] # None, Agrees(c, k),
               ref[k] = c.ref[k]
        PROVE  Vouched(backend, past, kind, c.org, ref, k)
    <3>1. c.ref[k] \in Ids
      BY <2>1, <2>3 DEF Calls
    <3>2. rows[c.ref[k]].org = c.org /\ rows[c.ref[k]] \in past[c.ref[k]]
      BY <2>3, <3>1 DEF Agrees, Owned, Inv, RowsVouched, RowsKnown
    <3> QED BY <2>2, <2>3, <3>2 DEF Vouched
  <2>4. CASE MemoryCreate(c)
    <3>1. PICK id : /\ id \in Ids /\ id[1] = c.kind
               /\ rows' = [rows EXCEPT ![id] = [org |-> c.org, ref |-> c.ref]]
               /\ past' = [past EXCEPT ![id] = @ \union {[org |-> c.org, ref |-> c.ref]}]
      <4>1. PICK name \in Names :
            LET n == Cardinality({x \in OfKind(c.kind) : Stored(x)}) + 1
                id == IF c.id = None THEN <<c.kind, name, n>> ELSE c.id
                row == [org |-> c.org, ref |-> c.ref]
            IN /\ c.id = None => n \in 0..MaxNumber
               /\ rows' = [rows EXCEPT ![id] = row]
               /\ past' = [past EXCEPT ![id] = @ \union {row}]
        BY <2>4 DEF MemoryCreate
      <4> DEFINE n == Cardinality({x \in OfKind(c.kind) : Stored(x)}) + 1
                 id == IF c.id = None THEN <<c.kind, name, n>> ELSE c.id
      <4>2. id \in Ids /\ id[1] = c.kind
        <5>1. CASE c.id = None
          <6>1. n \in 0..MaxNumber
            BY <4>1, <5>1
          <6> HIDE DEF n
          <6> QED BY <2>1, <5>1, <6>1 DEF Ids, Calls
        <5>2. CASE c.id # None
          BY <2>1, <5>2 DEF CallOK, Calls
        <5> QED BY <5>1, <5>2
      <4>3. /\ rows' = [rows EXCEPT ![id] = [org |-> c.org, ref |-> c.ref]]
            /\ past' = [past EXCEPT ![id] = @ \union {[org |-> c.org, ref |-> c.ref]}]
        BY <4>1
      <4> HIDE DEF id
      <4> QED BY <4>2, <4>3
    <3> DEFINE row == [org |-> c.org, ref |-> c.ref]
    <3>2. row \in Row /\ row.org = c.org /\ row.ref = c.ref
      BY <2>1 DEF Calls, Row
    <3>3. \A k \in RefKinds : Agrees(c, k)
      BY <2>4 DEF MemoryCreate
    <3>4. AllVouched(backend, past, id[1], row.org, row.ref, RefKinds)
      BY <2>3, <3>2, <3>3 DEF AllVouched
    <3>5. rows' = [rows EXCEPT ![id] = row] /\ past' = [past EXCEPT ![id] = @ \union {row, row}]
      BY <3>1
    <3>7. Columns(id[1], row.ref)
      BY <2>1, <2>4, <3>1 DEF MemoryCreate, CallOK
    <3> HIDE DEF row
    <3>8. \A k \in RefKinds : row.ref[k] # None => \E p \in past[row.ref[k]] : p.org = row.org
      BY <3>1, <3>2, <3>4, <3>7, VouchedRow
    <3>9. /\ backend' = backend /\ torn \ {id} \subseteq torn' /\ id \in Ids /\ row \in Row
          /\ ~(backend = "postgres" /\ id[1] = "zone")
          /\ \A k \in RefKinds : row.ref[k] # None => \E p \in past[row.ref[k]] :
               p.org = row.org \/ (id \in torn' /\ \E q \in past[id] \union {row} : q.org = p.org)
      BY <2>2, <3>1, <3>2, <3>8
    <3>6. (RowsVouched /\ CallsVouched)'
      BY <1>0, <2>2, <3>5, <3>7, <3>9, StoreVouched
    <3> QED BY <1>0, <3>6 DEF Inv
  <2>5. CASE MemoryUpdate(c)
    <3> DEFINE whole == \A k \in RefKinds : Agrees(c, k)
               ref == IF whole THEN c.ref ELSE [rows[c.id].ref EXCEPT !["site"] = c.ref["site"]]
               row == [org |-> c.org, ref |-> ref]
    <3>1. /\ Owned(c.id, c.org) /\ Agrees(c, "site")
          /\ rows' = [rows EXCEPT ![c.id] = row] /\ past' = [past EXCEPT ![c.id] = @ \union {row}]
          /\ c.id \in Ids
      BY <2>1, <2>5 DEF MemoryUpdate, CallOK, Calls
    <3>2. rows[c.id] \in Row /\ rows[c.id].org = c.org /\ Stored(c.id)
      BY <1>0, <3>1, RefsInRow DEF Owned
    <3>3. ref \in [RefKinds -> Ids \union {None}]
      BY <2>1, <3>2 DEF Row, Calls
    <3>4. \A k \in RefKinds : ref[k] # None => \E p \in past[ref[k]] :
             p.org = c.org \/ (c.id \in torn' /\ \E q \in past[c.id] : q.org = p.org)
      <4> SUFFICES ASSUME NEW k \in RefKinds, ref[k] # None
                   PROVE  \E p \in past[ref[k]] :
                            p.org = c.org \/ (c.id \in torn' /\ \E q \in past[c.id] : q.org = p.org)
        OBVIOUS
      <4>1. CASE whole \/ k = "site"
        <5>1. ref[k] = c.ref[k] /\ Agrees(c, k)
          BY <3>1, <3>2, <4>1 DEF Row
        <5> HIDE DEF ref, whole
        <5>2. Vouched(backend, past, c.kind, c.org, ref, k)
          BY <2>3, <5>1
        <5> QED BY <5>2 DEF Vouched
      <4>2. CASE ~whole /\ k # "site"
        <5>1. ref[k] = rows[c.id].ref[k]
          BY <3>2, <4>2 DEF Row
        <5> HIDE DEF ref, whole
        <5> QED BY <2>2, <3>1, <3>2, <5>1 DEF Inv, RowsVouched, TenantsMeetInSharedIds
      <4> QED BY <4>1, <4>2
    <3> HIDE DEF ref
    <3>5. row \in Row /\ row.org = c.org /\ row.ref = ref
      BY <2>1, <3>3 DEF Row, Calls
    <3>7. rows' = [rows EXCEPT ![c.id] = row] /\ past' = [past EXCEPT ![c.id] = @ \union {row, row}]
      BY <3>1
    <3> HIDE DEF row
    <3>8. Columns(c.id[1], row.ref)
      <4>1. rows'[c.id] = row
        BY <1>0, <3>1, <3>7 DEF TypeOK
      <4>2. row # NoRow
        BY <3>5, CatalogAssumption
      <4> QED BY <1>0, <3>1, <4>1, <4>2 DEF TypeInv, TypeOK, Stored
    <3>9. \A k \in RefKinds : row.ref[k] # None => \E p \in past[row.ref[k]] :
             p.org = row.org \/ (c.id \in torn' /\ \E q \in past[c.id] \union {row} : q.org = p.org)
      BY <3>4, <3>5
    <3>6. (RowsVouched /\ CallsVouched)'
      BY <1>0, <2>2, <3>1, <3>5, <3>7, <3>8, <3>9, StoreVouched
    <3> QED BY <1>0, <3>6 DEF Inv
  <2>6. CASE MemoryDelete(c)
    <3>1. past' = past /\ \A x \in Ids : rows'[x] = rows[x] \/ rows'[x] = NoRow
      BY <2>6 DEF MemoryDelete
    <3> QED BY <1>0, <2>2, <3>1, QuietVouched DEF Inv
  <2> QED BY <1>8, <2>4, <2>5, <2>6 DEF InMemory
<1>9. CASE WorkerConfig \/ UNCHANGED vars
  <2>1. backend' = backend /\ past' = past /\ torn' = torn /\ rows' = rows /\ req' = req
    BY <1>9 DEF WorkerConfig, vars
  <2> QED BY <1>0, <2>1, QuietVouched DEF Inv
<1>10. ASSUME NEW i \in config, Detection(i) PROVE Inv'
  <2>1. backend' = backend /\ past' = past /\ torn' = torn /\ rows' = rows /\ req' = Late({i})
    BY <1>10 DEF Detection
  <2> QED BY <1>0, <1>5, <2>1, QuietVouched DEF Inv
<1> QED BY <1>1, <1>2, <1>3, <1>4, <1>m, <1>6, <1>7, <1>8, <1>9, <1>10 DEF Next

\* A row reaches another organization only through an id both have used.
THEOREM TenantsCorrect == Spec => []TenantsMeetInSharedIds
<1>1. Inv => TenantsMeetInSharedIds
  BY DEF Inv, RowsVouched
<1> QED BY <1>1, InitVouched, NextVouched, PTL DEF Spec

\* Under Postgres a zone is in a site its camera is or was in, or torn
\* between two saves each of which was.
THEOREM ZonesCorrect == Spec => []ZonesFollowCameras
<1>1. Inv => ZonesFollowCameras
  BY DEF Inv, RowsVouched
<1> QED BY <1>1, InitVouched, NextVouched, PTL DEF Spec
-----------------------------------------------------------------------------
(* What a delete takes *)

\* How far a row of each table may be from a site.
Depth == [site |-> 0, department |-> 1, camera |-> 1, zone |-> 2, worker |-> 2,
          rule |-> 3, ppe |-> 4]

\* Whatever depends on S is in S, down to this depth.
Complete(S, n) == \A y \in Wider(S) : Depth[y[1]] <= n => y \in S

LEMMA Deeper ==
    ASSUME TypeOK, NEW y \in Ids, Stored(y), NEW k \in RefKinds, rows[y].ref[k] # None
    PROVE  /\ rows[y].ref[k] \in Ids /\ rows[y].ref[k][1] = k /\ k \in Parents[y[1]]
           /\ Depth[k] \in Nat /\ Depth[y[1]] \in 0..4 /\ Depth[k] < Depth[y[1]]
<1>1. rows[y].ref[k] \in Ids
  BY RefsInRow
<1>2. rows[y].ref[k][1] = k /\ k \in Parents[y[1]]
  BY DEF TypeOK, Columns
<1>3. y[1] \in Kinds
  BY DEF Ids
<1>4. \A j \in Kinds : Depth[j] \in 0..4 /\ \A i \in Parents[j] : Depth[i] \in Nat /\ Depth[i] < Depth[j]
  BY DEF Kinds, RefKinds, Parents, Depth
<1> QED BY <1>1, <1>2, <1>3, <1>4

LEMMA Deepening ==
    ASSUME TypeOK, NEW S \in SUBSET Ids, NEW n \in Nat, Complete(S, n)
    PROVE  Wider(S) \in SUBSET Ids /\ Complete(Wider(S), n + 1)
<1>1. Wider(S) \in SUBSET Ids
  BY DEF Wider, Children
<1>2. ASSUME NEW y \in Wider(Wider(S)), Depth[y[1]] <= n + 1, y \notin Wider(S) PROVE FALSE
  <2>1. PICK k \in RefKinds : y \in Ids /\ Stored(y) /\ rows[y].ref[k] \in Wider(S)
    BY <1>2 DEF Wider, Children
  <2>2. rows[y].ref[k] # None
    BY <1>1, <2>1, CatalogAssumption
  <2>3. rows[y].ref[k] \in S
    BY <1>2, <2>1, <2>2, Deeper DEF Complete
  <2> QED BY <1>2, <2>1, <2>3 DEF Wider, Children
<1> QED BY <1>1, <1>2 DEF Complete

\* Four steps find everything that depends on a row, and a camera that goes
\* with it has its site there.
LEMMA CascadeComplete ==
    ASSUME TypeOK, NEW x \in Ids
    PROVE  /\ Children(Cascade(x)) \subseteq Cascade(x)
           /\ \A c \in Cascade(x) : c[1] = "camera" /\ c # x =>
                /\ c \in Ids /\ Stored(c)
                /\ rows[c].ref["site"] = x
<1> DEFINE W1 == Wider({x})
           W2 == Wider(W1)
           W3 == Wider(W2)
           W4 == Wider(W3)
<1>1. Complete({x}, 0)
  <2> SUFFICES ASSUME NEW y \in Wider({x}), Depth[y[1]] <= 0, y # x PROVE FALSE
    BY DEF Complete
  <2>1. PICK k \in RefKinds : y \in Ids /\ Stored(y) /\ rows[y].ref[k] = x
    BY DEF Wider, Children
  <2>2. rows[y].ref[k] # None
    BY <2>1, CatalogAssumption
  <2> QED BY <2>1, <2>2, Deeper
<1>2. W1 \in SUBSET Ids /\ Complete(W1, 1)
  BY <1>1, Deepening
<1> HIDE DEF W1
<1>3. W2 \in SUBSET Ids /\ Complete(W2, 2)
  BY <1>2, Deepening
<1> HIDE DEF W2
<1>4. W3 \in SUBSET Ids /\ Complete(W3, 3)
  BY <1>3, Deepening
<1> HIDE DEF W3
<1>5. W4 \in SUBSET Ids /\ Complete(W4, 4)
  BY <1>4, Deepening
<1>6. W4 = Cascade(x)
  BY DEF W1, W2, W3, Cascade
<1>7. Children(W4) \subseteq W4
  <2> HIDE DEF W4
  <2> SUFFICES ASSUME NEW y \in Children(W4) PROVE y \in W4
    OBVIOUS
  <2>1. PICK k \in RefKinds : y \in Ids /\ Stored(y) /\ rows[y].ref[k] \in W4
    BY DEF Children
  <2>2. rows[y].ref[k] # None
    BY <1>5, <2>1, CatalogAssumption
  <2>3. Depth[y[1]] <= 4
    BY <2>1, <2>2, Deeper
  <2> QED BY <1>5, <2>3 DEF Complete, Wider
<1>8. ASSUME NEW c \in W4, c[1] = "camera", c # x
      PROVE  c \in Ids /\ Stored(c) /\ rows[c].ref["site"] = x
  <2>1. Depth[c[1]] = 1
    BY <1>8 DEF Depth
  <2>2. c \in W3
    BY <1>4, <1>8, <2>1 DEF Complete
  <2>3. c \in W2
    BY <1>3, <2>1, <2>2 DEF Complete, W3
  <2>4. c \in W1
    BY <1>2, <2>1, <2>3 DEF Complete, W2
  <2>5. PICK k \in RefKinds : c \in Ids /\ Stored(c) /\ rows[c].ref[k] = x
    BY <1>8, <2>4 DEF W1, Wider, Children
  <2>6. k \in Parents["camera"]
    BY <1>8, <2>5, Deeper, CatalogAssumption
  <2> QED BY <2>5, <2>6 DEF Parents
<1> QED BY <1>6, <1>7, <1>8
\* What the check of a delete has established, up to what came after it.
Checked(q) == q.pc = "delete" =>
    /\ q.call.kind # "site" => Named(q.call.id) \subseteq q.late
    /\ q.call.kind = "site" => \A c \in OfKind("camera") :
         (Stored(c) /\ rows[c].ref["site"] = q.call.id) => c \in q.late \/ rows[c].org # q.call.org

\* Foreign keys hold, and only Postgres serves calls in steps.
Whole == \A x \in Ids, k \in RefKinds :
    (Stored(x) /\ rows[x].ref[k] # None) => Stored(rows[x].ref[k])
Serving == \A r \in Requests : req[r].pc # "idle" => backend = "postgres"

DeleteInv ==
    /\ TypeInv /\ Serving
    /\ backend = "postgres" => Whole
    /\ \A r \in Requests : Checked(req[r])

LEMMA InitDeletes == Init => DeleteInv
<1> SUFFICES ASSUME Init PROVE DeleteInv
  OBVIOUS
<1>1. Whole
  <2> SUFFICES ASSUME NEW x \in Ids, NEW k \in RefKinds, Stored(x), rows[x].ref[k] # None
               PROVE  Stored(rows[x].ref[k])
    BY DEF Whole
  <2>1. Initial[x] # NoRow /\ Initial[x].ref[k] # None
    BY DEF Init, Stored
  <2> QED BY <2>1, CatalogAssumption DEF Init, Stored
<1> QED BY <1>1, InitTyped DEF Init, Idle, DeleteInv, Serving, Checked

\* The steps that leave the tables, the incidents and the other calls alone.
LEMMA QuietDeletes ==
    ASSUME DeleteInv, TypeInv', NEW r \in Requests, backend = "postgres",
           backend' = backend, rows' = rows, incidents' = incidents,
           \A p \in Requests \ {r} : req'[p] = req[p],
           Checked(req'[r])
    PROVE  DeleteInv'
<1>1. \A p \in Requests : Checked(req'[p])
  BY DEF DeleteInv
<1>2. \A p \in Requests : Checked(req[p])'
  BY <1>1 DEF Checked, Named, Stored
<1> QED BY <1>2 DEF DeleteInv, Serving, Whole, Stored

\* A call that is told of what comes after its check is right about the rest.
LEMMA ToldStays ==
    ASSUME NEW p \in Requests, NEW S, Checked(req[p]),
           req'[p].pc = req[p].pc, req'[p].call = req[p].call,
           req[p].pc = "delete" => req'[p].late = req[p].late \union S,
           incidents' \subseteq incidents \union S,
           \A c \in OfKind("camera") : rows'[c] = rows[c] \/ rows'[c] = NoRow \/ c \in S
    PROVE  Checked(req[p])'
BY DEF Checked, Named, Stored, OfKind

LEMMA NextDeletes == DeleteInv /\ [Next]_vars => DeleteInv'
<1> SUFFICES ASSUME DeleteInv, [Next]_vars PROVE DeleteInv'
  OBVIOUS
<1>0. TypeInv /\ TypeOK /\ TypeInv'
  BY NextTyped DEF DeleteInv, TypeInv
<1>t. \A r \in Requests : /\ DOMAIN req = Requests
          /\ req[r] = [pc |-> req[r].pc, call |-> req[r].call, todo |-> req[r].todo,
                       base |-> req[r].base, late |-> req[r].late]
          /\ LocalsOK(req[r])
  BY <1>0 DEF TypeOK, TypeInv
<1>1. ASSUME NEW c \in HttpCalls \union SeedCalls, NEW r \in Requests, Start(r, c) PROVE DeleteInv'
  <2>1. req'[r].pc = "load" /\ \A p \in Requests \ {r} : req'[p] = req[p]
    BY <1>t, <1>1 DEF Start
  <2>2. Checked(req'[r])
    BY <2>1 DEF Checked
  <2> QED BY <1>0, <1>1, <2>1, <2>2, QuietDeletes DEF Start
<1>2. ASSUME NEW r \in Requests, Load(r) \/ Number(r) \/ Merge(r) PROVE DeleteInv'
  <2>1. req[r].pc # "idle" /\ \A p \in Requests \ {r} : req'[p] = req[p]
    BY <1>t, <1>2 DEF Load, Number, Merge
  <2>2. req'[r].pc # "delete"
    BY <1>t, <1>2 DEF Load, Number, Merge
  <2>3. Checked(req'[r])
    BY <2>2 DEF Checked
  <2> QED BY <1>0, <1>2, <2>1, <2>3, QuietDeletes DEF Load, Number, Merge, DeleteInv, Serving
<1>3. ASSUME NEW r \in Requests, Check(r) PROVE DeleteInv'
  <2> DEFINE q == req[r]
  <2>1. /\ q.pc = "load" /\ \A p \in Requests \ {r} : req'[p] = req[p]
        /\ req'[r].call = q.call /\ req'[r].late = q.late
        /\ req'[r].pc = "delete" => ~InUse(q.call)
    BY <1>t, <1>3 DEF Check
  <2>2. Checked(req'[r])
    BY <2>1 DEF Checked, InUse, List, Owned, OfKind
  <2> QED BY <1>0, <1>3, <2>1, <2>2, QuietDeletes DEF Check, DeleteInv, Serving
<1>4. ASSUME NEW r \in Requests, Abandon(r) PROVE DeleteInv'
  <2>1. req[r].pc # "idle" /\ req'[r] = Idle /\ \A p \in Requests \ {r} : req'[p] = req[p]
    BY <1>t, <1>4 DEF Abandon
  <2>2. Checked(req'[r])
    BY <2>1 DEF Checked, Idle
  <2> QED BY <1>0, <1>4, <2>1, <2>2, QuietDeletes DEF Abandon, DeleteInv, Serving
<1>5. ASSUME NEW S, NEW p \in Requests
      PROVE  /\ Late(S)[p].call = req[p].call /\ Late(S)[p].pc = req[p].pc
             /\ req[p].pc = "delete" => Late(S)[p].late = req[p].late \union S
  BY <1>t DEF Late
<1>6. ASSUME NEW r \in Requests, Flush(r) PROVE DeleteInv'
  <2> DEFINE c == req[r].call
             S == {c.id} \intersect OfKind("camera")
             row == Written(c, req[r].base, rows[c.id])
  <2>1. /\ req[r].pc = "flush" /\ backend = "postgres" /\ backend' = backend
        /\ incidents' = incidents
        /\ \A k \in RefKinds : row.ref[k] # None => Stored(row.ref[k])
        /\ c.id \in Ids /\ c \in Calls
    BY <1>t, <1>6 DEF Flush, DeleteInv, Serving, LocalsOK, CallOK, Calls
  <2>2. \A x \in Ids : rows'[x] = IF x = c.id THEN row ELSE rows[x]
    BY <1>0, <1>6 DEF Flush, TypeOK
  <2>3. \A p \in Requests : req'[p] = IF p = r THEN Idle ELSE Late(S)[p]
    <3> DEFINE L == Late(S)
    <3>1. DOMAIN L = Requests
      BY DEF Late
    <3>2. req' = [L EXCEPT ![r] = Idle]
      BY <1>6 DEF Flush
    <3> HIDE DEF L
    <3>3. \A p \in Requests : req'[p] = IF p = r THEN Idle ELSE L[p]
      BY SMTT(30), <3>1, <3>2
    <3> QED BY SMTT(30), <3>3 DEF L
  <2>4. row \in Row /\ row # NoRow
    BY <1>0, <1>6, FlushWrites, CatalogAssumption
  <2> HIDE DEF row
  <2>5. Whole'
    <3> SUFFICES ASSUME NEW x \in Ids, NEW k \in RefKinds, Stored(x)', rows'[x].ref[k] # None
                 PROVE  rows'[rows'[x].ref[k]] # NoRow
      BY DEF Whole, Stored
    <3>1. \A y \in Ids : Stored(y) => Stored(y)'
      BY <2>2, <2>4 DEF Stored
    <3>2. Stored(rows'[x].ref[k])
      BY <2>1, <2>2 DEF DeleteInv, Whole, Stored
    <3>3. rows'[x].ref[k] \in Ids
      <4>1. rows'[x] \in Row
        BY <1>0 DEF TypeInv, TypeOK, Stored
      <4> QED BY <4>1 DEF Row
    <3> QED BY <3>1, <3>2, <3>3 DEF Stored
  <2>6. ASSUME NEW p \in Requests PROVE Checked(req[p])'
    <3>1. CASE p = r
      BY <2>3, <3>1 DEF Checked, Idle
    <3>2. CASE p # r
      <4>1. req'[p] = Late(S)[p]
        BY <2>3, <3>2
      <4>2. \A x \in OfKind("camera") : rows'[x] = rows[x] \/ x \in S
        BY <2>2 DEF OfKind
      <4>3. Checked(req[p])
        BY DEF DeleteInv
      <4> HIDE DEF S
      <4> QED BY <1>5, <2>1, <4>1, <4>2, <4>3, ToldStays
    <3> QED BY <3>1, <3>2
  <2> QED BY SMTT(30), <1>0, <2>1, <2>5, <2>6 DEF DeleteInv, Serving
<1>7. ASSUME NEW r \in Requests, Delete(r) PROVE DeleteInv'
  <2> DEFINE D == Cascade(req[r].call.id)
  <2>1. /\ req[r].pc = "delete" /\ backend = "postgres" /\ backend' = backend
        /\ incidents' = incidents
        /\ req[r].call.id \in Ids
    BY <1>t, <1>7 DEF Delete, DeleteInv, Serving, LocalsOK, CallOK, Calls
  <2>2. \A x \in Ids : rows'[x] = IF x \in D THEN NoRow ELSE rows[x]
    BY <1>7 DEF Delete
  <2>3. \A p \in Requests : req'[p] = IF p = r THEN Idle ELSE req[p]
    BY <1>t, <1>7 DEF Delete
  <2>4. Children(D) \subseteq D
    BY <1>0, <2>1, CascadeComplete
  <2> HIDE DEF D
  <2>5. Whole'
    <3> SUFFICES ASSUME NEW x \in Ids, NEW k \in RefKinds, Stored(x)', rows'[x].ref[k] # None
                 PROVE  rows'[rows'[x].ref[k]] # NoRow
      BY DEF Whole, Stored
    <3>1. x \notin D /\ rows'[x] = rows[x] /\ Stored(x)
      BY <2>2 DEF Stored
    <3>2. rows[x].ref[k] \in Ids /\ Stored(rows[x].ref[k])
      BY <1>0, <2>1, <3>1, RefsInRow DEF DeleteInv, Whole
    <3>3. rows[x].ref[k] \notin D
      BY <2>4, <3>1 DEF Children
    <3> QED BY <2>2, <3>1, <3>2, <3>3 DEF Stored
  <2>6. ASSUME NEW p \in Requests PROVE Checked(req[p])'
    <3>1. CASE p = r
      BY <2>3, <3>1 DEF Checked, Idle
    <3>2. CASE p # r
      <4>1. \A x \in OfKind("camera") : rows'[x] = rows[x] \/ rows'[x] = NoRow
        BY <2>2 DEF OfKind
      <4>2. req'[p] = req[p] /\ Checked(req[p])
        BY <2>3, <3>2 DEF DeleteInv
      <4>3. req[p].late = req[p].late \union {} /\ incidents \subseteq incidents \union {}
        OBVIOUS
      <4> QED BY <2>1, <4>1, <4>2, <4>3, ToldStays
    <3> QED BY <3>1, <3>2
  <2> QED BY <1>0, <2>1, <2>5, <2>6 DEF DeleteInv, Serving
<1>8. ASSUME NEW c \in HttpCalls \union SeedCalls, InMemory(c) PROVE DeleteInv'
  <2>1. backend = "memory" /\ backend' = backend /\ req' = req
    BY <1>8 DEF InMemory
  <2>2. \A p \in Requests : req[p].pc = "idle"
    BY <2>1 DEF DeleteInv, Serving
  <2> QED BY <1>0, <2>1, <2>2 DEF DeleteInv, Serving, Checked
<1>9. ASSUME NEW i \in config, Detection(i) PROVE DeleteInv'
  <2>1. backend' = backend /\ rows' = rows /\ req' = Late({i}) /\ incidents' = incidents \union {i}
    BY <1>9 DEF Detection
  <2>2. ASSUME NEW p \in Requests PROVE Checked(req[p])'
    BY <1>5, <2>1, ToldStays DEF DeleteInv
  <2> QED BY <1>0, <1>5, <2>1, <2>2 DEF DeleteInv, Serving, Whole, Stored
<1>10. CASE WorkerConfig \/ UNCHANGED vars
  <2>1. backend' = backend /\ rows' = rows /\ req' = req /\ incidents' = incidents
    BY <1>10 DEF WorkerConfig, vars
  <2> QED BY <1>0, <2>1 DEF DeleteInv, Serving, Checked, Whole, Stored, Named
<1> QED BY <1>1, <1>2, <1>3, <1>4, <1>6, <1>7, <1>8, <1>9, <1>10 DEF Next

LEMMA DeleteSpares ==
    ASSUME DeleteInv, NEW r \in Requests, Delete(r), NEW x \in Ids, Stored(x), rows'[x] = NoRow
    PROVE  Spared(req[r], x)
<1> DEFINE q == req[r]
           id == q.call.id
<1>0. /\ TypeOK /\ q.pc = "delete" /\ id \in Ids /\ id[1] = q.call.kind
      /\ Checked(q) /\ Whole
  BY DEF DeleteInv, TypeInv, Delete, Serving, LocalsOK, CallOK, Calls
<1>1. x \in Cascade(id)
  BY DEF Delete, Stored
<1>2. ASSUME NEW c \in Ids, Stored(c), c[1] = "camera", rows[c].ref["site"] = id
      PROVE  c \in q.late \/ rows[c].org # q.call.org
  <2>1. q.call.kind = "site"
    BY <1>0, <1>2, Deeper, CatalogAssumption DEF RefKinds
  <2> QED BY SMTT(30), <1>0, <1>2, <2>1 DEF Checked, OfKind
<1>3. CASE x = id
  BY <1>0, <1>3 DEF Spared, Checked
<1>4. CASE x # id /\ x[1] = "camera"
  <2>1. rows[x].ref["site"] = id
    BY <1>0, <1>1, <1>4, CascadeComplete
  <2>2. x \in q.late \/ rows[x].org # q.call.org
    BY <1>2, <1>4, <2>1
  <2> QED BY <1>4, <2>2 DEF Spared
<1>5. CASE x # id /\ x[1] = "zone"
  <2> DEFINE c == rows[x].ref["camera"]
  <2>1. c # None
    <3>1. Columns(x[1], rows[x].ref)
      BY <1>0 DEF TypeOK
    <3> QED BY <1>5, <3>1 DEF Columns, NotNull, Parents, RefKinds
  <2>2. c \in Ids /\ c[1] = "camera" /\ Stored(c)
    BY <1>0, <2>1, Deeper DEF Whole, RefKinds
  <2>3. rows[c].ref["site"] # id \/ c \in q.late \/ rows[c].org # q.call.org
    BY <1>2, <2>2
  <2>4. q.call.kind = "camera" => \A i \in Named(x) : i[1] = id => i \in q.late
    BY <1>0 DEF Checked, Named
  <2> QED BY <1>5, <2>3, <2>4 DEF Spared
<1>6. CASE x # id /\ x[1] \notin {"camera", "zone"}
  BY <1>6 DEF Spared
<1> QED BY <1>3, <1>4, <1>5, <1>6

\* A delete takes nothing that it checked to be in use, unless that came
\* after the check or belongs to another organization.
THEOREM DeletesCorrect == Spec => DeletesSpare
<1>1. DeleteInv /\ [Next]_vars =>
        [\A r \in Requests : Delete(r) =>
           \A x \in Ids : (Stored(x) /\ rows'[x] = NoRow) => Spared(req[r], x)]_vars
  BY DeleteSpares
<1> QED BY <1>1, InitDeletes, NextDeletes, PTL DEF Spec, DeletesSpare
=============================================================================
