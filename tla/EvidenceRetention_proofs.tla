----------------------- MODULE EvidenceRetention_proofs -----------------------
(***************************************************************************)
(* Machine-checked theorems about EvidenceRetention, for every set of      *)
(* files, every policy, and any number of days, registrations, failures    *)
(* and deaths.                                                             *)
(***************************************************************************)
EXTENDS EvidenceRetention, TLAPS

(* A purge holds a file between taking and deleting it, and an idle one has *)
(* nothing left to audit.  A link was given for a row that was saved.       *)
ShapeInv ==
  /\ \A p \in Procs :
       /\ purge[p].pc \in {"idle", "item"} <=> purge[p].file = None
       /\ purge[p].pc = "idle" => purge[p].todo = {} /\ purge[p].done = {}
  /\ upload.pc # "idle" => upload.file \in Files
  /\ upload.pc = "save" => cache["api"][upload.file] # None
  /\ upload.pc = "link" => row[upload.file] # None
  /\ \A f \in links : row[f] # None

(* The two excuses, for a row and for the object in the API's cache. *)
Held(f) == f \in broken \cup late \/ \E p \in Procs : purge[p].file = f
Handled(f) == f \in audited \cup broken \/ \E p \in Procs : f \in Unfinished(p)

(* What is cached as deleted may be saved over its row by a registration    *)
(* that is under way; so it needs an excuse as the row does, and its row is *)
(* not live unless the mark is still to come or failed.                     *)
CachedDeleted(f) == cache["api"][f] # None /\ cache["api"][f].deleted
CacheInv ==
  \A f \in Files : CachedDeleted(f) =>
    /\ f \in object => Held(f)
    /\ Handled(f)
    /\ \/ ~Live(row[f])
       \/ f \in broken
       \/ \E p \in Procs : purge[p].pc = "mark" /\ purge[p].file = f

(* No row is newer than the cached object, or than today, and only the API  *)
(* caches anything.                                                         *)
DateInv ==
  \A f \in Files :
    /\ cache["scheduler"][f] = None
    /\ cache["api"][f] # None => cache["api"][f].created <= today
    /\ row[f] # None => row[f].created <= today
    /\ Live(row[f]) /\ Live(cache["api"][f]) =>
         row[f].created <= cache["api"][f].created

(* A file on a purge's list was due by its row, or its row is newer than    *)
(* the list; when its object is deleted, its row is not live, or newer.     *)
ListInv ==
  \A p \in Procs : \A f \in Files :
    /\ f \in purge[p].todo \cup {purge[p].file} =>
         \/ ~Live(row[f])
         \/ row[f].created <= purge[p].limit
         \/ f \in purge[p].raced
    /\ purge[p].pc = "delete" /\ purge[p].file = f =>
         ~Live(row[f]) \/ f \in purge[p].raced

(* A process that was given the organisation's term goes by it. *)
TermInv ==
  \A p \in Procs :
    /\ p \in told => policy[p] = term
    /\ purge[p].told => purge[p].limit = purge[p].due
    /\ policies = 0 => policy[p] = term /\ term = DefaultDays

(* The API's cache contradicts a deleted row only where the two were        *)
(* written apart; a purge in the API marks its cached object before the row.*)
StaleInv ==
  \A f \in Files :
    /\ Live(cache["api"][f]) /\ Deleted(f) => f \in apart
    /\ purge["api"].pc = "mark" /\ purge["api"].file = f =>
         \/ ~Live(cache["api"][f])
         \/ f \in apart
         \/ f \in purge["api"].raced

Links == ShapeInv /\ CacheInv
Dates == DateInv /\ ListInv /\ StaleInv /\ TermInv
Goals == PurgedIsGone /\ PurgedIsAudited

IInv == TypeOK /\ Links /\ Dates /\ Goals
-----------------------------------------------------------------------------
LEMMA InitInv == Init => IInv
  BY DaysAssumption, FilesAssumption
  DEF Init, IInv, TypeOK, Links, Dates, Goals, Entry, PurgeState, ShapeInv, CacheInv,
      DateInv, ListInv, StaleInv, TermInv, PurgedIsGone, PurgedIsAudited, NoUpload,
      NoPurge, Procs, CachedDeleted, Deleted, Live, Unfinished

(* The records that Take and Delete write. *)
LEMMA TakeTypes ==
  ASSUME purge \in [Procs -> PurgeState],
         cache \in [Procs -> [Files -> Entry \cup {None}]],
         NEW p \in Procs, NEW f \in Files, Take(p, f)
  PROVE  /\ purge' \in [Procs -> PurgeState]
         /\ cache' \in [Procs -> [Files -> Entry \cup {None}]]
<1>1. purge' \in [Procs -> PurgeState]
  <2> DEFINE now == [purge[p] EXCEPT !.pc = "mark", !.file = f, !.todo = @ \ {f}]
  <2>1. purge[p] \in PurgeState
    OBVIOUS
  <2>2. now \in PurgeState
    BY <2>1 DEF PurgeState
  <2>3. purge' = [purge EXCEPT ![p] = now]
    BY DEF Take
  <2> HIDE DEF now
  <2> QED BY <2>2, <2>3
<1>2. cache[p][f] # None => Purged(cache[p][f]) \in Entry
  BY DEF Purged, Entry
<1> QED
  BY <1>1, <1>2 DEF Take

LEMMA DeleteTypes ==
  ASSUME purge \in [Procs -> PurgeState], NEW p \in Procs,
         purge[p].file \in Files, Delete(p)
  PROVE  purge' \in [Procs -> PurgeState]
  BY ZenonT(60) DEF Delete, PurgeState

LEMMA PreviewTypes ==
  ASSUME purge \in [Procs -> PurgeState], NEW p \in Procs,
         Limit(p) \in Int, today - term \in Int, Preview(p)
  PROVE  purge' \in [Procs -> PurgeState]
<1>1. (p \in told) \in BOOLEAN
  OBVIOUS
<1>2. PICK b \in BOOLEAN : b = (p \in told)
  BY <1>1, Zenon
<1>3. purge' = [purge EXCEPT ![p] =
                 [NoPurge EXCEPT !.pc = "item", !.limit = Limit(p),
                                 !.due = today - term, !.told = b,
                                 !.todo = {f \in Files : Expired(p, f)}]]
  BY <1>2, Zenon DEF Preview
<1> QED
  BY <1>3 DEF PurgeState, NoPurge

(* Every step keeps the types. *)
LEMMA TypeStep ==
  ASSUME IInv, [Next]_vars
  PROVE  TypeOK'
<1> USE DaysAssumption, FilesAssumption DEF IInv, TypeOK, Entry, PurgeState, Procs,
        Links, ShapeInv, Unfinished, counters, stable, still, ghosts
<1>1. ASSUME NEW d \in Days, SetPolicy(d) PROVE TypeOK'
  BY <1>1 DEF SetPolicy
<1>2. ASSUME NEW f \in Files, Register(f) PROVE TypeOK'
  BY <1>2 DEF Register, NewEntry
<1>3. CASE SaveRow
  BY SMTT(30), <1>3 DEF SaveRow, NoUpload
<1>4. CASE LinkUpload
  BY <1>4 DEF LinkUpload, NoUpload
<1>5. CASE RequestFails
  BY <1>5 DEF RequestFails, NoUpload
<1>6. ASSUME NEW f \in Files, Put(f) PROVE TypeOK'
  BY <1>6 DEF Put
<1>7. ASSUME NEW f \in Files, PutFrame(f) PROVE TypeOK'
  BY <1>7 DEF PutFrame, Found
<1>8. ASSUME NEW f \in Files, Download(f) PROVE TypeOK'
  BY <1>8 DEF Download, Found
<1>9. ASSUME NEW p \in Procs, Preview(p) PROVE TypeOK'
  <2>1. policy[p] \in Nat /\ term \in Nat
    BY ZenonT(60)
  <2>2. Limit(p) \in Int /\ today - term \in Int
    BY <2>1 DEF Limit
  <2>3. purge' \in [Procs -> PurgeState]
    <3> HIDE DEF PurgeState
    <3> QED
      BY <1>9, <2>2, PreviewTypes
  <2> HIDE DEF PurgeState
  <2> QED
    BY <1>9, <2>3 DEF Preview
<1>10. ASSUME NEW p \in Procs, NEW f \in Files, Skip(p, f) PROVE TypeOK'
  BY <1>10 DEF Skip, Found
<1>11. ASSUME NEW p \in Procs, NEW f \in Files, Take(p, f) PROVE TypeOK'
  <2>1. /\ purge' \in [Procs -> PurgeState]
        /\ cache' \in [Procs -> [Files -> Entry \cup {None}]]
    <3> HIDE DEF Entry, PurgeState
    <3> QED
      BY <1>11, TakeTypes
  <2> HIDE DEF Entry, PurgeState
  <2> QED
    BY <1>11, <2>1 DEF Take
<1>12. ASSUME NEW p \in Procs, Mark(p) PROVE TypeOK'
  <2>1. purge[p].file \in Files
    BY <1>12 DEF Mark
  <2>2. row[purge[p].file] # None => Purged(row[purge[p].file]) \in Entry
    BY <2>1 DEF Purged
  <2> HIDE DEF Entry
  <2> QED
    BY <1>12, <2>1, <2>2 DEF Mark
<1>13. ASSUME NEW p \in Procs, Delete(p) PROVE TypeOK'
  <2>1. purge[p].file \in Files
    BY <1>13 DEF Delete
  <2>2. purge' \in [Procs -> PurgeState]
    <3> HIDE DEF Entry, PurgeState
    <3> QED
      BY <1>13, <2>1, DeleteTypes
  <2> HIDE DEF Entry, PurgeState
  <2> QED
    BY <1>13, <2>2 DEF Delete
<1>14. ASSUME NEW p \in Procs, NEW f \in Files, Audit(p, f) PROVE TypeOK'
  BY <1>14 DEF Audit, NoPurge
<1>15. ASSUME NEW p \in Procs, AuditNothing(p) PROVE TypeOK'
  BY <1>15 DEF AuditNothing, NoPurge
<1>16. ASSUME NEW p \in Procs, PurgeRaises(p) PROVE TypeOK'
  BY <1>16 DEF PurgeRaises, NoPurge
<1>17. CASE Tick
  BY <1>17 DEF Tick
<1>18. ASSUME NEW p \in Procs, Die(p) PROVE TypeOK'
  BY <1>18 DEF Die, NoPurge, NoUpload
<1>19. CASE UNCHANGED vars
  BY <1>19 DEF vars
<1> HIDE DEF IInv, TypeOK, Links, Dates, Goals
<1> QED
  BY <1>1, <1>2, <1>3, <1>4, <1>5, <1>6, <1>7, <1>8, <1>9, <1>10, <1>11,
     <1>12, <1>13, <1>14, <1>15, <1>16, <1>17, <1>18, <1>19
  DEF Next, Serve, PurgeStep

(* Every step keeps what the purges hold and what the cache may say. *)
LEMMA LinksStep ==
  ASSUME IInv, [Next]_vars
  PROVE  Links'
<1> USE DaysAssumption, FilesAssumption DEF IInv, TypeOK, Entry, PurgeState, Links, ShapeInv,
        CacheInv, Held, Handled, CachedDeleted, Unfinished, Live, Deleted, Purged, Procs,
        counters, stable, still, ghosts
<1>1. ASSUME NEW d \in Days, SetPolicy(d) PROVE Links'
  BY <1>1 DEF SetPolicy
<1>2. ASSUME NEW f \in Files, Register(f) PROVE Links'
  <2>1. \A g \in Files : cache'["api"][g] = IF g = f THEN NewEntry
                                             ELSE cache["api"][g]
    BY <1>2 DEF Register
  <2>2. ShapeInv'
    <3>1. NewEntry \in Entry
      BY DEF NewEntry
    <3>2. NewEntry # None
      <4> HIDE DEF Entry
      <4> QED
        BY <3>1
    <3> QED
      BY <1>2, <2>1, <3>2 DEF Register
  <2> HIDE DEF PurgeState, Entry
  <2>3. CacheInv'
    BY <1>2, <2>1 DEF Register, NewEntry
  <2> QED
    BY <2>2, <2>3
<1>3. CASE SaveRow
  BY <1>3 DEF SaveRow, NoUpload
<1>4. CASE LinkUpload
  BY <1>4 DEF LinkUpload, NoUpload
<1>5. CASE RequestFails
  BY <1>5 DEF RequestFails, NoUpload
<1>6. ASSUME NEW f \in Files, Put(f) PROVE Links'
  BY <1>6 DEF Put
<1>7. ASSUME NEW f \in Files, PutFrame(f) PROVE Links'
  BY <1>7 DEF PutFrame, Found
<1>8. ASSUME NEW f \in Files, Download(f) PROVE Links'
  BY SMTT(30), <1>8 DEF Download, Found
<1>9. ASSUME NEW p \in Procs, Preview(p) PROVE Links'
  BY <1>9 DEF Preview, Expired, Found, Limit, NoPurge
<1>10. ASSUME NEW p \in Procs, NEW f \in Files, Skip(p, f) PROVE Links'
  BY <1>10 DEF Skip, Found
<1>11. ASSUME NEW p \in Procs, NEW f \in Files, Take(p, f) PROVE Links'
  <2>1. /\ purge[p].pc = "item" /\ purge[p].file = None
        /\ \A q \in Procs \ {p} : purge'[q] = purge[q]
        /\ purge'[p].pc = "mark" /\ purge'[p].file = f
        /\ purge'[p].done = purge[p].done
    BY <1>11 DEF Take
  <2>2. \A g \in Files \ {f} : cache'["api"][g] = cache["api"][g]
    BY <1>11 DEF Take
  <2>3. cache["api"][f] # None => cache'["api"][f] # None
    <3>1. cache["api"][f] # None => Purged(cache["api"][f]) \in Entry
      BY DEF Purged
    <3> HIDE DEF Entry, PurgeState, Purged
    <3> QED
      BY <1>11, <3>1 DEF Take
  <2> HIDE DEF PurgeState, Entry
  <2>4. ShapeInv'
    BY <1>11, <2>1, <2>2, <2>3 DEF Take
  <2>5. CacheInv'
    BY <1>11, <2>1, <2>2 DEF Take
  <2> QED
    BY <2>4, <2>5
<1>12. ASSUME NEW p \in Procs, Mark(p) PROVE Links'
  <2>1. /\ purge[p].pc = "mark" /\ purge[p].file \in Files
        /\ \A q \in Procs \ {p} : purge'[q] = purge[q]
        /\ purge'[p].pc = "delete" /\ purge'[p].file = purge[p].file
        /\ purge'[p].done = purge[p].done
    BY <1>12 DEF Mark
  <2>2. /\ \A g \in Files \ {purge[p].file} : row'[g] = row[g]
        /\ ~Live(row'[purge[p].file])
    BY <1>12, <2>1 DEF Mark
  <2>3. row[purge[p].file] # None => row'[purge[p].file] # None
    <3>1. row[purge[p].file] # None => Purged(row[purge[p].file]) \in Entry
      BY <2>1 DEF Purged
    <3> HIDE DEF Entry, PurgeState, Purged
    <3> QED
      BY <1>12, <2>1, <3>1 DEF Mark
  <2> HIDE DEF PurgeState, Entry
  <2>4. ShapeInv'
    BY <1>12, <2>1, <2>2, <2>3 DEF Mark
  <2>5. CacheInv'
    BY <1>12, <2>1, <2>2 DEF Mark
  <2> QED
    BY <2>4, <2>5
<1>13. ASSUME NEW p \in Procs, Delete(p) PROVE Links'
  BY <1>13 DEF Delete
<1>14. ASSUME NEW p \in Procs, NEW f \in Files, Audit(p, f) PROVE Links'
  BY <1>14 DEF Audit, NoPurge
<1>15. ASSUME NEW p \in Procs, AuditNothing(p) PROVE Links'
  BY <1>15 DEF AuditNothing, NoPurge
<1>16. ASSUME NEW p \in Procs, PurgeRaises(p) PROVE Links'
  BY <1>16 DEF PurgeRaises, NoPurge
<1>17. CASE Tick
  BY <1>17 DEF Tick
<1>18. ASSUME NEW p \in Procs, Die(p) PROVE Links'
  BY <1>18 DEF Die, NoPurge, NoUpload
<1>19. CASE UNCHANGED vars
  BY <1>19 DEF vars
<1> HIDE DEF IInv, TypeOK, Links, Dates, Goals
<1> QED
  BY <1>1, <1>2, <1>3, <1>4, <1>5, <1>6, <1>7, <1>8, <1>9, <1>10, <1>11,
     <1>12, <1>13, <1>14, <1>15, <1>16, <1>17, <1>18, <1>19
  DEF Next, Serve, PurgeStep

(* What a purge lists was due by its row, if the row is live. *)
LEMMA ListedDue ==
  ASSUME TypeOK, DateInv, NEW p \in Procs, NEW f \in Files, Expired(p, f), Live(row[f])
  PROVE  row[f].created <= today - policy[p]
<1>1. Live(Found(p, f)) /\ Found(p, f).created <= today - policy[p]
  BY DEF Expired, Limit
<1>2. CASE cache[p][f] = None
  BY <1>1, <1>2 DEF Found
<1>3. CASE cache[p][f] # None
  <2>1. p = "api" /\ Live(cache["api"][f]) /\ cache["api"][f].created <= today - policy["api"]
    BY <1>1, <1>3 DEF Found, DateInv, Procs
  <2>2. row[f] \in Entry /\ cache["api"][f] \in Entry /\ "api" \in Procs
    BY <2>1 DEF TypeOK, Live, Procs
  <2>3. policy["api"] \in Nat /\ today \in Nat
    <3>1. policy \in [Procs -> Days \cup {DefaultDays}] /\ today \in 0..MaxDay
      BY DEF TypeOK
    <3>2. policy["api"] \in Days \cup {DefaultDays}
      BY <2>2, <3>1
    <3>3. policy["api"] \in Nat
      BY <3>2, DaysAssumption
    <3>4. today \in Nat
      BY <3>1, DaysAssumption
    <3> QED BY <3>3, <3>4
  <2>4. row[f].created <= cache["api"][f].created
    BY <2>1 DEF DateInv
  <2> QED BY <2>1, <2>2, <2>3, <2>4, DaysAssumption DEF Entry
<1> QED BY <1>2, <1>3

(* A purge that works its list off keeps the dates. *)
WorkedOff(p, new) ==
  /\ purge' = [purge EXCEPT ![p] = new]
  /\ new.pc \in {"idle", "item"}
  /\ new.told => new.limit = new.due
  /\ \A f \in Files : f \in new.todo \cup {new.file} =>
       f \in purge[p].todo /\ new.limit = purge[p].limit /\ new.raced = purge[p].raced
  /\ UNCHANGED <<today, row, cache, policy, term, told, policies, apart>>

LEMMA WorkingOff ==
  ASSUME Dates, purge \in [Procs -> PurgeState], NEW p \in Procs, NEW new, WorkedOff(p, new)
  PROVE  Dates'
<1>1. purge'[p] = new /\ \A q \in Procs \ {p} : purge'[q] = purge[q]
  BY DEF WorkedOff
<1>2. DateInv'
  BY DEF WorkedOff, Dates, DateInv, Live
<1>3. ListInv'
  <2> SUFFICES ASSUME NEW q \in Procs, NEW f \in Files
               PROVE  /\ f \in purge'[q].todo \cup {purge'[q].file} =>
                           \/ ~Live(row[f])
                           \/ row[f].created <= purge'[q].limit
                           \/ f \in purge'[q].raced
                      /\ purge'[q].pc = "delete" /\ purge'[q].file = f =>
                           ~Live(row[f]) \/ f \in purge'[q].raced
    BY DEF ListInv, WorkedOff, Live
  <2>1. CASE q = p
    BY <1>1, <2>1 DEF WorkedOff, Dates, ListInv
  <2>2. CASE q # p
    BY <1>1, <2>2 DEF Dates, ListInv
  <2> QED BY <2>1, <2>2
<1>4. StaleInv'
  <2>1. purge'["api"].pc = "mark" => purge'["api"] = purge["api"]
    BY <1>1 DEF WorkedOff, Procs
  <2> QED BY <2>1 DEF WorkedOff, Dates, StaleInv, Live, Deleted
<1>5. TermInv'
  BY <1>1 DEF WorkedOff, Dates, TermInv
<1> QED BY <1>2, <1>3, <1>4, <1>5 DEF Dates

Works(p) ==
  \/ \E f \in Files : Skip(p, f) \/ Audit(p, f)
  \/ Delete(p) \/ AuditNothing(p) \/ PurgeRaises(p)

LEMMA WorksDates ==
  ASSUME IInv, NEW p \in Procs, Works(p)
  PROVE  Dates'
<1>1. /\ purge \in [Procs -> PurgeState] /\ Dates /\ None \notin Files
      /\ purge[p].pc = "item" => purge[p].file = None
      /\ purge[p].told => purge[p].limit = purge[p].due
  BY FilesAssumption DEF IInv, TypeOK, Links, ShapeInv, Dates, TermInv
<1>2. purge[p] \in PurgeState
  BY <1>1
<1>3. ASSUME NEW f \in Files, Skip(p, f) PROVE Dates'
  <2> DEFINE new == [purge[p] EXCEPT !.todo = @ \ {f}]
  <2>1. WorkedOff(p, new)
    BY <1>1, <1>2, <1>3 DEF WorkedOff, Skip, PurgeState, stable, ghosts, counters
  <2> QED BY <1>1, <2>1, WorkingOff
<1>4. CASE Delete(p)
  <2> DEFINE new == [purge[p] EXCEPT !.pc = "item", !.file = None,
                                     !.done = @ \cup {purge[p].file}]
  <2>1. WorkedOff(p, new)
    BY <1>1, <1>2, <1>4 DEF WorkedOff, Delete, PurgeState, stable, ghosts, counters
  <2> QED BY <1>1, <2>1, WorkingOff
<1>5. ASSUME NEW f \in Files, Audit(p, f), purge[p].done # {f} PROVE Dates'
  <2> DEFINE new == [purge[p] EXCEPT !.done = @ \ {f}]
  <2>1. WorkedOff(p, new)
    BY <1>1, <1>2, <1>5 DEF WorkedOff, Audit, PurgeState, stable, ghosts, counters
  <2> QED BY <1>1, <2>1, WorkingOff
<1>6. ASSUME \/ \E f \in Files : Audit(p, f) /\ purge[p].done = {f}
             \/ AuditNothing(p)
             \/ PurgeRaises(p)
      PROVE  Dates'
  <2>1. purge' = [purge EXCEPT ![p] = NoPurge]
    BY <1>6 DEF Audit, AuditNothing, PurgeRaises
  <2>2. UNCHANGED <<today, row, cache, policy, term, told, policies, apart>>
    BY <1>6 DEF Audit, AuditNothing, PurgeRaises, stable, ghosts, counters
  <2>3. WorkedOff(p, NoPurge)
    BY <1>1, <2>1, <2>2 DEF WorkedOff, NoPurge
  <2> QED BY <1>1, <2>3, WorkingOff
<1> QED BY <1>3, <1>4, <1>5, <1>6 DEF Works

(* Every step keeps the dates and what contradicts them. *)
LEMMA DatesStep ==
  ASSUME IInv, [Next]_vars
  PROVE  Dates'
<1> USE DaysAssumption, FilesAssumption DEF IInv, TypeOK, Entry, PurgeState, Links, ShapeInv, Dates,
        DateInv, ListInv, StaleInv, TermInv, Live, Deleted, Purged, Procs, counters, stable, still, ghosts
<1>1. ASSUME NEW d \in Days, SetPolicy(d) PROVE Dates'
  BY <1>1 DEF SetPolicy
<1>2. ASSUME NEW f \in Files, Register(f) PROVE Dates'
  BY SMTT(30), <1>2 DEF Register, NewEntry
<1>3. CASE SaveRow
  BY <1>3 DEF SaveRow, NoUpload
<1>4. CASE LinkUpload
  BY <1>4 DEF LinkUpload, NoUpload
<1>5. CASE RequestFails
  BY <1>5 DEF RequestFails, NoUpload
<1>6. ASSUME NEW f \in Files, Put(f) PROVE Dates'
  BY <1>6 DEF Put
<1>7. ASSUME NEW f \in Files, PutFrame(f) PROVE Dates'
  BY <1>7 DEF PutFrame, Found
<1>8. ASSUME NEW f \in Files, Download(f) PROVE Dates'
  BY SMTT(30), <1>8 DEF Download, Found
<1>9. ASSUME NEW p \in Procs, Preview(p) PROVE Dates'
  <2> DEFINE new == [NoPurge EXCEPT !.pc = "item", !.limit = Limit(p), !.due = today - term,
                                    !.told = (p \in told), !.todo = {f \in Files : Expired(p, f)}]
  <2>1. purge' = [purge EXCEPT ![p] = new]
    BY <1>9 DEF Preview
  <2>2. /\ new.pc = "item" /\ new.file = None /\ new.raced = {}
        /\ new.limit = today - policy[p] /\ new.due = today - term
        /\ new.told <=> p \in told
        /\ new.todo = {f \in Files : Expired(p, f)}
    BY DEF NoPurge, Limit
  <2>3. UNCHANGED <<today, row, cache, policy, term, told, policies, apart>>
    BY <1>9 DEF Preview
  <2> HIDE DEF new
  <2>4. DateInv' /\ StaleInv'
    BY SMTT(30), <2>1, <2>2, <2>3
  <2>5. ListInv'
    <3>1. \A f \in Files : Expired(p, f) => ~Live(row[f]) \/ row[f].created <= new.limit
      <4> SUFFICES ASSUME NEW f \in Files, Expired(p, f), Live(row[f])
                   PROVE  row[f].created <= today - policy[p]
        BY <2>2
      <4> QED BY ListedDue
    <3>2. \A f \in new.todo \cup {new.file} : f \in Files => Expired(p, f)
      BY <2>2
    <3>3. purge'[p] = new /\ \A q \in Procs \ {p} : purge'[q] = purge[q]
      BY <2>1
    <3> QED BY SMTT(30), <2>2, <2>3, <3>1, <3>2, <3>3
  <2>6. TermInv'
    BY SMTT(30), <2>1, <2>2, <2>3
  <2> HIDE DEF DateInv, ListInv, StaleInv, TermInv
  <2> QED BY <2>4, <2>5, <2>6
<1>11. ASSUME NEW p \in Procs, NEW f \in Files, Take(p, f) PROVE Dates'
  BY SMTT(30), <1>11 DEF Take, Found
<1>12. ASSUME NEW p \in Procs, Mark(p) PROVE Dates'
  BY SMTT(30), <1>12 DEF Mark
<1>17. CASE Tick
  BY <1>17 DEF Tick
<1>18. ASSUME NEW p \in Procs, Die(p) PROVE Dates'
  BY <1>18 DEF Die, NoPurge, NoUpload
<1>19. CASE UNCHANGED vars
  BY <1>19 DEF vars
<1> HIDE DEF IInv, TypeOK, Links, Dates, Goals
<1>10. ASSUME NEW p \in Procs, Works(p) PROVE Dates'
  BY <1>10, WorksDates
<1> QED
  BY <1>1, <1>2, <1>3, <1>4, <1>5, <1>6, <1>7, <1>8, <1>9, <1>10, <1>11,
     <1>12, <1>17, <1>18, <1>19
  DEF Next, Serve, PurgeStep, Works

(* Every step keeps the two safety properties. *)
LEMMA GoalsStep ==
  ASSUME IInv, [Next]_vars
  PROVE  Goals'
<1> USE DaysAssumption, FilesAssumption DEF IInv, TypeOK, Entry, PurgeState, Links, ShapeInv, CacheInv,
        Held, Handled, CachedDeleted, Goals, PurgedIsGone, PurgedIsAudited,
        Unfinished, Live, Deleted, Purged, Procs, counters, stable, still, ghosts
<1>1. ASSUME NEW d \in Days, SetPolicy(d) PROVE Goals'
  BY <1>1 DEF SetPolicy
<1>2. ASSUME NEW f \in Files, Register(f) PROVE Goals'
  BY <1>2 DEF Register, NewEntry
<1>3. CASE SaveRow
  BY <1>3 DEF SaveRow, NoUpload
<1>4. CASE LinkUpload
  BY <1>4 DEF LinkUpload, NoUpload
<1>5. CASE RequestFails
  BY <1>5 DEF RequestFails, NoUpload
<1>6. ASSUME NEW f \in Files, Put(f) PROVE Goals'
  BY <1>6 DEF Put
<1>7. ASSUME NEW f \in Files, PutFrame(f) PROVE Goals'
  BY <1>7 DEF PutFrame, Found
<1>8. ASSUME NEW f \in Files, Download(f) PROVE Goals'
  BY <1>8 DEF Download, Found
<1>9. ASSUME NEW p \in Procs, Preview(p) PROVE Goals'
  BY <1>9 DEF Preview, Expired, Found, Limit, NoPurge
<1>10. ASSUME NEW p \in Procs, NEW f \in Files, Skip(p, f) PROVE Goals'
  BY <1>10 DEF Skip, Found
<1>11. ASSUME NEW p \in Procs, NEW f \in Files, Take(p, f) PROVE Goals'
  BY SMTT(30), <1>11 DEF Take, Found
<1>12. ASSUME NEW p \in Procs, Mark(p) PROVE Goals'
  BY <1>12 DEF Mark
<1>13. ASSUME NEW p \in Procs, Delete(p) PROVE Goals'
  BY <1>13 DEF Delete
<1>14. ASSUME NEW p \in Procs, NEW f \in Files, Audit(p, f) PROVE Goals'
  BY <1>14 DEF Audit, NoPurge
<1>15. ASSUME NEW p \in Procs, AuditNothing(p) PROVE Goals'
  BY <1>15 DEF AuditNothing, NoPurge
<1>16. ASSUME NEW p \in Procs, PurgeRaises(p) PROVE Goals'
  BY <1>16 DEF PurgeRaises, NoPurge
<1>17. CASE Tick
  BY <1>17 DEF Tick
<1>18. ASSUME NEW p \in Procs, Die(p) PROVE Goals'
  BY <1>18 DEF Die, NoPurge, NoUpload
<1>19. CASE UNCHANGED vars
  BY <1>19 DEF vars
<1> HIDE DEF IInv, TypeOK, Links, Dates, Goals
<1> QED
  BY <1>1, <1>2, <1>3, <1>4, <1>5, <1>6, <1>7, <1>8, <1>9, <1>10, <1>11,
     <1>12, <1>13, <1>14, <1>15, <1>16, <1>17, <1>18, <1>19
  DEF Next, Serve, PurgeStep

(* The inductive invariant: the two safety properties need to know what a   *)
(* cached object marked deleted says about a row that may still be saved    *)
(* from it; the three action properties, how rows, cache and lists relate.  *)
THEOREM EvidenceInvariant == Spec => []IInv
<1>1. IInv /\ [Next]_vars => IInv'
  BY TypeStep, LinksStep, DatesStep, GoalsStep DEF IInv
<1> QED
  BY <1>1, InitInv, PTL DEF Spec

(* TypeOK is an invariant. *)
THEOREM EvidenceTypeCorrect == Spec => []TypeOK
  BY EvidenceInvariant, PTL DEF IInv

(* The object of a deleted row is gone unless its purge failed or is still  *)
(* under way, or it was put over the row.                                   *)
THEOREM EvidencePurgedIsGone == Spec => []PurgedIsGone
  BY EvidenceInvariant, PTL DEF IInv, Goals

(* Every purged row has its record unless its purge failed or is under way. *)
THEOREM EvidencePurgedIsAudited == Spec => []PurgedIsAudited
  BY EvidenceInvariant, PTL DEF IInv, Goals

(* No step marks a live row before the organisation's term, unless the row  *)
(* was registered again since the purge listed it or the purging process    *)
(* had not been given that term.                                            *)
THEOREM EvidencePurgesAreDue == Spec => PurgesAreDue
<1>1. IInv /\ [Next]_vars =>
        [\A p \in Procs : \A f \in Files :
           Marks(p, f) /\ Live(row[f])
           => \/ row[f].created <= purge[p].due
              \/ f \in purge[p].raced
              \/ ~purge[p].told]_vars
  BY DEF IInv, Dates, ListInv, TermInv, Marks
<1> QED
  BY <1>1, EvidenceInvariant, PTL DEF Spec, PurgesAreDue

(* Nobody has set a term. *)
DefaultOnly == policies = 0 /\ told = Procs /\ \A p \in Procs : purge[p].told

LEMMA DefaultStays ==
  ASSUME Days = {}, IInv, DefaultOnly, [Next]_vars
  PROVE  DefaultOnly'
<1>t. purge \in [Procs -> PurgeState]
  BY DEF IInv, TypeOK
<1> USE DEF DefaultOnly, PurgeState, NoPurge, stable, still, ghosts, counters
<1>1. CASE Serve
  BY <1>1, <1>t DEF Serve, SaveRow, LinkUpload, RequestFails, Register, Put, PutFrame, Download
<1>2. CASE Tick
  BY <1>2 DEF Tick
<1>3. ASSUME NEW p \in Procs, PurgeStep(p) PROVE DefaultOnly'
  <2>1. CASE Preview(p)
    <3>1. p \in told
      BY DEF Procs
    <3>2. \A q \in Procs : purge'[q].told
      BY <1>t, <2>1, <3>1 DEF Preview
    <3> QED
      BY <2>1, <3>2 DEF Preview
  <2>2. CASE Mark(p) \/ Delete(p) \/ AuditNothing(p)
    <3>1. UNCHANGED <<policies, told>>
      BY <2>2 DEF Mark, Delete, AuditNothing
    <3>2. \A q \in Procs : purge'[q].told
      <4>1. CASE Mark(p)
        BY <1>t, <4>1 DEF Mark
      <4>2. CASE Delete(p)
        BY <1>t, <4>2 DEF Delete
      <4>3. CASE AuditNothing(p)
        BY <1>t, <4>3 DEF AuditNothing
      <4> QED
        BY <2>2, <4>1, <4>2, <4>3
    <3> QED
      BY <3>1, <3>2
  <2>3. ASSUME NEW f \in Files, Skip(p, f) \/ Take(p, f) \/ Audit(p, f)
        PROVE  DefaultOnly'
    <3>1. UNCHANGED <<policies, told>>
      BY <2>3 DEF Skip, Take, Audit
    <3>2. \A q \in Procs : purge'[q].told
      <4>1. CASE Skip(p, f)
        BY <1>t, <4>1 DEF Skip
      <4>2. CASE Take(p, f)
        BY <1>t, <4>2 DEF Take
      <4>3. CASE Audit(p, f)
        BY <1>t, <4>3 DEF Audit
      <4> QED
        BY <2>3, <4>1, <4>2, <4>3
    <3> QED
      BY <3>1, <3>2
  <2> QED
    BY <1>3, <2>1, <2>2, <2>3 DEF PurgeStep
<1>4. ASSUME NEW p \in Procs, PurgeRaises(p) \/ Die(p) PROVE DefaultOnly'
  BY <1>4, <1>t DEF PurgeRaises, Die
<1>5. CASE UNCHANGED vars
  BY <1>5 DEF vars
<1> QED
  BY <1>1, <1>2, <1>3, <1>4, <1>5 DEF Next

(* An organisation that never sets a term of its own is promised the        *)
(* default, and no purge of any process marks a row before it.              *)
THEOREM DefaultTermIsKept ==
  ASSUME Days = {}
  PROVE  Spec => TermsAreKept
<1>1. Init => DefaultOnly
  BY DEF Init, DefaultOnly, NoPurge
<1>2. IInv /\ DefaultOnly /\ [Next]_vars => DefaultOnly'
  BY DefaultStays
<1>3. IInv /\ DefaultOnly /\ [Next]_vars =>
        [\A p \in Procs : \A f \in Files :
           Marks(p, f) /\ Live(row[f])
           => row[f].created <= purge[p].due \/ f \in purge[p].raced]_vars
  BY DEF IInv, Dates, ListInv, TermInv, Marks, DefaultOnly
<1> QED
  BY <1>1, <1>2, <1>3, EvidenceInvariant, PTL DEF Spec, TermsAreKept

(* No step removes an object under a live row, unless the row was           *)
(* registered again during the purge that removes it.                       *)
THEOREM EvidenceObjectsStay == Spec => ObjectsOfLiveRowsStay
<1>1. IInv /\ [Next]_vars =>
        [\A f \in object \ object' :
           Live(row[f]) => \E p \in Procs :
                             purge[p].file = f /\ f \in purge[p].raced]_vars
  <2> SUFFICES ASSUME IInv, [Next]_vars, NEW f \in object \ object', Live(row[f])
               PROVE  \E p \in Procs : purge[p].file = f /\ f \in purge[p].raced
    BY SMTT(30)
  <2>1. PICK p \in Procs : purge[p].pc = "delete" /\ purge[p].file = f
    BY ZenonT(60) DEF Next, Serve, PurgeStep, SetPolicy, Register, SaveRow, LinkUpload,
           RequestFails, Put, PutFrame, Download, Preview, Skip, Take, Mark,
           Delete, Audit, AuditNothing, PurgeRaises, Tick, Die, vars, counters, stable, still
  <2>2. f \in Files
    BY DEF IInv, TypeOK
  <2> QED
    BY <2>1, <2>2 DEF IInv, Dates, ListInv
<1> QED
  BY <1>1, EvidenceInvariant, PTL DEF Spec, ObjectsOfLiveRowsStay

(* A download link of purged evidence is given out only where cache and row *)
(* were written apart.                                                      *)
THEOREM EvidenceDeadLinks == Spec => DeadLinksAreStale
<1>1. IInv /\ [Next]_vars => [dead' \ dead \subseteq apart]_vars
  <2> SUFFICES ASSUME IInv, [Next]_vars, NEW f \in dead' \ dead
               PROVE  f \in apart
    OBVIOUS
  <2>1. f \in Files /\ Download(f) /\ Deleted(f)
    BY ZenonT(60) DEF Next, Serve, PurgeStep, SetPolicy, Register, SaveRow, LinkUpload,
           RequestFails, Put, PutFrame, Download, Preview, Skip, Take, Mark,
           Delete, Audit, AuditNothing, PurgeRaises, Tick, Die, vars, counters, stable, still, ghosts
  <2>2. Live(cache["api"][f])
    BY <2>1 DEF Download, Found, Live, Deleted
  <2> QED
    BY <2>1, <2>2 DEF IInv, Dates, StaleInv
<1> QED
  BY <1>1, EvidenceInvariant, PTL DEF Spec, DeadLinksAreStale
=============================================================================
